----------------------------- MODULE LinkedList -----------------------------
(***************************************************************************)
(* GenLinkedList of esp3d/GenLinkedList.h as values and operators: a       *)
(* singly linked list that remembers the node it returned last, so that    *)
(* reading the elements in order does not walk the list again each time.   *)
(*                                                                         *)
(* A list carries its piece of the heap: which nodes are allocated and     *)
(* what they hold.  A freed node keeps its content until it is allocated   *)
(* again, as memory does, so a stale pointer is seen as one.  An operator  *)
(* that returns a value gives the list after the call and the value, as a  *)
(* sequence: empty for T().  add(index), unshift and set have no caller.   *)
(***************************************************************************)
EXTENDS Integers, Sequences

CONSTANT MaxNodes    \* bound: nodes the heap has room for

Null == 0
Node == 1..MaxNodes

EmptyList ==
  [_size |-> 0, root |-> Null, last |-> Null,
   lastNodeGot |-> Null, lastIndexGot |-> 0, isCached |-> FALSE,
   live |-> {}, data |-> [n \in Node |-> <<>>], next |-> [n \in Node |-> Null]]

(* The allocator's choice among the free nodes does not matter to the list; *)
(* the lowest one makes a freed node come back as soon as possible.        *)
Fresh(l) == CHOOSE n \in Node \ l.live : \A k \in Node \ l.live : n <= k

(* The nodes from n on, as far as k steps lead.                            *)
Steps(l, n, k) ==
  LET at[j \in 0..k] == IF j = 0 THEN n
                        ELSE IF at[j - 1] = Null THEN Null
                        ELSE l.next[at[j - 1]]
  IN  at

(* The walk starts at the node got last if that one is not past index; the *)
(* node reached is remembered, NULL too when index is just past the end.   *)
getNode(l, index) ==
  LET cached == l.isCached /\ l.lastIndexGot <= index
      _pos   == IF cached THEN l.lastIndexGot ELSE 0
      at     == Steps(l, IF cached THEN l.lastNodeGot ELSE l.root, index - _pos)
  IN  IF index >= _pos /\ \A j \in 0..(index - _pos - 1) : at[j] # Null
      THEN [list |-> [l EXCEPT !.isCached = TRUE, !.lastIndexGot = index,
                               !.lastNodeGot = at[index - _pos]],
            node |-> at[index - _pos]]
      ELSE [list |-> l, node |-> Null]

(* The new node goes behind the last one.                                  *)
add(l, t) ==
  LET tmp == Fresh(l)
  IN  [l EXCEPT !.live = @ \cup {tmp},
                !.data[tmp] = t,
                !.next = IF l.root = Null THEN [@ EXCEPT ![tmp] = Null]
                         ELSE [@ EXCEPT ![tmp] = Null, ![l.last] = tmp],
                !.root = IF @ = Null THEN tmp ELSE @,
                !.last = tmp,
                !._size = @ + 1, !.isCached = FALSE]

(* Mutant: the last element is removed without forgetting the cache first. *)
popKeepsCache(l) ==
  IF l._size <= 0 THEN [list |-> l, data |-> <<>>]
  ELSE IF l._size >= 2
    THEN LET got == getNode(l, l._size - 2)
             end == l.next[got.node]
         IN  [list |-> [got.list EXCEPT !.live = @ \ {end},
                                        !.next[got.node] = Null,
                                        !.last = got.node, !._size = @ - 1],
              data |-> <<l.data[end]>>]
    ELSE [list |-> [l EXCEPT !.live = @ \ {l.root}, !.root = Null,
                             !.last = Null, !._size = 0],
          data |-> <<l.data[l.root]>>]

(* The cache is dropped before the walk to the last node but one, which    *)
(* fills it again: it then holds the new last node.                        *)
pop(l) ==
  IF l._size <= 0 THEN [list |-> l, data |-> <<>>]
  ELSE popKeepsCache([l EXCEPT !.isCached = FALSE])

(* Mutant: the oldest element is removed and the cache still counts from   *)
(* the old root.                                                           *)
shiftKeepsCache(l) ==
  IF l._size > 1
  THEN [list |-> [l EXCEPT !.live = @ \ {l.root}, !.root = l.next[l.root],
                           !._size = @ - 1],
        data |-> <<l.data[l.root]>>]
  ELSE pop(l)

shift(l) ==
  IF l._size > 1
  THEN LET s == shiftKeepsCache(l)
       IN  [s EXCEPT !.list.isCached = FALSE]
  ELSE pop(l)

(* Mutant: the node is unlinked and never freed.                           *)
unlinkOnly(l, index) ==
  LET got == getNode(l, index - 1)
      toDelete == l.next[got.node]
  IN  [list |-> [got.list EXCEPT !.next[got.node] = l.next[toDelete],
                                 !._size = @ - 1, !.isCached = FALSE],
       data |-> <<l.data[toDelete]>>]

unlink(l, index) ==
  LET u == unlinkOnly(l, index)
  IN  [u EXCEPT !.list.live = @ \ {l.next[getNode(l, index - 1).node]}]

remove(l, index) ==
  IF index < 0 \/ index >= l._size THEN [list |-> l, data |-> <<>>]
  ELSE IF index = 0 THEN shift(l)
  ELSE IF index = l._size - 1 THEN pop(l)
  ELSE unlink(l, index)

get(l, index) ==
  LET got == getNode(l, index)
  IN  [list |-> got.list,
       data |-> IF got.node = Null THEN <<>> ELSE <<l.data[got.node]>>]
=============================================================================
