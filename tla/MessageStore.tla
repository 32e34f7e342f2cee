---------------------------- MODULE MessageStore ----------------------------
(***************************************************************************)
(* STORESTRINGS_CLASS of esp3d/storestrings.cpp: the latest information,   *)
(* error or status messages of the printer.  check_command() adds a        *)
(* message when one comes over the serial line, the page /STATUS reads     *)
(* them all, [ESP999] clears them.  WEBINTERFACE_CLASS has three stores,   *)
(* all alike; this is one of them.  A text is a sequence of characters.    *)
(***************************************************************************)
EXTENDS LinkedList

CONSTANTS
  Texts,             \* texts of the messages
  _maxsize,          \* messages kept: 4 in the firmware
  _maxstringlength   \* characters kept of a message: 50 in the firmware

ASSUME MessageStoreAssumption ==
  /\ _maxsize \in Nat \ {0} /\ MaxNodes \in Nat /\ MaxNodes >= _maxsize
  /\ _maxstringlength \in Nat /\ _maxstringlength >= 4   \* setlength() checks
  /\ \A t \in Texts : Len(t) \in Nat

VARIABLES
  _charlist,   \* the list of texts
  answer       \* what the last call returned: texts, and a position or 0

vars == <<_charlist, answer>>

Nothing == [texts |-> <<>>, at |-> 0]

Dots == <<".", ".", ".">>

(* The node numbers from root on, and what they hold.                      *)
Path ==
  LET at == Steps(_charlist, _charlist.root, MaxNodes)
  IN  [i \in {j \in 1..(MaxNodes + 1) : at[j - 1] # Null} |-> at[i - 1]]

Contents == [i \in DOMAIN Path |-> _charlist.data[Path[i]]]

(* The texts that may be stored.                                           *)
Kept(t) == IF Len(t) > _maxstringlength
             THEN SubSeq(t, 1, _maxstringlength - 3) \o Dots ELSE t

(* Mutant: the oldest text leaves when there is already one too many.      *)
RoomTooLate(l) == IF l._size > _maxsize THEN shift(l).list ELSE l

(* A list with room for one more: the oldest text leaves a full one.       *)
RoomFor(l) == IF l._size = _maxsize THEN shift(l).list ELSE l

Init == _charlist = EmptyList /\ answer = Nothing

Add ==
  \E t \in Texts : /\ _charlist' = add(RoomFor(_charlist), Kept(t))
                   /\ answer' = Nothing

(* The test for the range can never be true: a position out of range is    *)
(* left to the list, which removes nothing, and the call reports success.  *)
Remove ==
  \E pos \in -1.._maxsize : /\ _charlist' = remove(_charlist, pos).list
                            /\ answer' = Nothing

Get ==
  \E pos \in -1..(_maxsize + 1) :
    /\ _charlist' = get(_charlist, pos).list
    /\ answer' = [Nothing EXCEPT !.texts = get(_charlist, pos).data]

(* The list after the first p elements have been read in order, and them.  *)
Reading ==
  LET r[p \in 0.._charlist._size] ==
        IF p = 0 THEN [list |-> _charlist, data |-> <<>>]
        ELSE LET g == get(r[p - 1].list, p - 1)
             IN  [list |-> g.list, data |-> r[p - 1].data \o g.data]
  IN  r

(* handle_web_interface_status()                                           *)
Status ==
  /\ _charlist' = Reading[_charlist._size].list
  /\ answer' = [Nothing EXCEPT !.texts = Reading[_charlist._size].data]

(* get_index(): the first position that holds the text, counted from 1, or *)
(* 0 for -1; the list is read up to there.                                 *)
GetIndex ==
  \E t \in Texts :
    LET at == {p \in 1.._charlist._size : Reading[p].data[p] = t}
        p  == CHOOSE q \in at : \A k \in at : q <= k
    IN  /\ _charlist' = Reading[IF at = {} THEN _charlist._size ELSE p].list
        /\ answer' = [Nothing EXCEPT !.at = IF at = {} THEN 0 ELSE p]

(* clear(), also the destructor's: texts are popped one by one.            *)
Cleared ==
  LET left[p \in 0.._charlist._size] ==
        IF p = 0 THEN _charlist ELSE pop(left[p - 1]).list
  IN  left[_charlist._size]

(* [ESP999] and its arguments, each for one of the stores.                 *)
Clear == _charlist' = Cleared /\ answer' = Nothing

Next == Add \/ Remove \/ Get \/ Status \/ GetIndex \/ Clear

Spec == Init /\ [][Next]_vars

-----------------------------------------------------------------------------
(* Fields have their types.                                                *)
TypeOK ==
  LET N == Node \cup {Null}
      l == _charlist
  IN  /\ l._size \in 0.._maxsize /\ l.lastIndexGot \in 0..(_maxsize + 1)
      /\ l.root \in N /\ l.last \in N /\ l.lastNodeGot \in N
      /\ l.isCached \in BOOLEAN /\ l.live \subseteq Node
      /\ DOMAIN l.data = Node /\ l.next \in [Node -> N]

(* The nodes linked from root are those allocated, each once: nothing is   *)
(* leaked by remove, shift or pop and nothing freed stays linked; there    *)
(* are as many as the size says, and the last is where add will append.    *)
(* GenLinkedList.h, every operation.                                       *)
Linked ==
  /\ {Path[i] : i \in DOMAIN Path} = _charlist.live
  /\ Len(Path) = _charlist._size
  /\ _charlist.last = IF Path = <<>> THEN Null ELSE Path[Len(Path)]

(* While the cache is in use it names the node at its index, or NULL just  *)
(* past the end; never a node that was freed, or that moved to another     *)
(* place when the oldest message left.  getNode() walks on from it         *)
(* without looking (GenLinkedList.h:139).                                  *)
CacheInPlace ==
  _charlist.isCached =>
    LET i == _charlist.lastIndexGot
    IN  /\ i <= Len(Path)
        /\ _charlist.lastNodeGot = IF i = Len(Path) THEN Null ELSE Path[i + 1]

(* The store is the rolling log that the pages expect: whatever the order  *)
(* of calls, the latest messages, cut to length, each at its place, and    *)
(* every answer read from there.                                           *)
Log == INSTANCE RollingLog
         WITH Limit <- _maxsize, Length <- _maxstringlength, log <- Contents

IsRollingLog == Log!Spec
=============================================================================
