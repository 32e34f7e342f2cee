------------------------- MODULE PrinterLine_proofs -------------------------
(***************************************************************************)
(* For every number of clients, slots, tries, pieces and requests:         *)
(*   - the variables of PrinterLine keep their types;                      *)
(*   - the "ok" that ends the answer to a web command is its own           *)
(*     (AckIsOwn);                                                         *)
(*   - each piece of that answer reaches the browser once, however it is   *)
(*     cut by the reads (AnswerWhole);                                     *)
(*   - what is looked at for a command is the end of one line of the       *)
(*     printer, unless a web command took a part, and a line as it was     *)
(*     collected when the web command looks (WholeLines).                  *)
(* read_buffer_serial(sbuf, len) is a recursive function of the pieces     *)
(* that have come; that it has a value at each of them, and what the value *)
(* is, are shown by induction over a set of numbers, which rests on < being*)
(* well-founded.                                                           *)
(***************************************************************************)
EXTENDS PrinterLine, SequenceTheorems, WellFoundedInduction, TLAPS

(* The module is in one of eight places of loop(), and holds the line in   *)
(* those where handle_web_command() runs.                                  *)
Holding == {"purge", "command", "read"}

Bounds ==
  /\ load \in Loads
  /\ pc \in {"loop", "reject", "tcp", "serial", "web"} \cup Holding
  /\ blockserial <=> pc \in Holding
  /\ sent \in Seq(load.pieces) /\ by \in Seq(Nat)
  /\ Len(by) <= Len(sent)
  /\ requests \in Nat /\ (pc \in Holding => requests # 0)

TypeInv == TypeOK /\ Bounds

(* The numbers of tries that count may hold.                               *)
LEMMA TriesLeft ==
  /\ MAX_TRY \in Nat \ {0}
  /\ 0 \in 0..MAX_TRY /\ 1 \in 0..MAX_TRY /\ MAX_TRY \in 0..MAX_TRY
<1>1. MAX_TRY \in Nat \ {0}
  BY Zenon, PrinterLineAssumption
<1> QED BY <1>1

(* Taking all that has come: who read it is noted for each piece.          *)
LEMMA Taken ==
  ASSUME Bounds, NEW r \in Nat, by' = TakenBy(r)
  PROVE  /\ by' \in Seq(Nat) /\ Len(by') = Len(sent)
         /\ Len(by) \in Nat /\ Len(sent) \in Nat
         /\ \A k \in 1..Len(sent) :
              by'[k] = IF k <= Len(by) THEN by[k] ELSE r
<1> DEFINE n == Len(sent) - Len(by)
           t == [i \in 1..n |-> r]
<1>1. n \in Nat /\ Len(by) \in Nat /\ Len(sent) \in Nat
      /\ n + Len(by) = Len(sent)
  BY DEF Bounds
<1>2. t \in Seq(Nat) /\ Len(t) = n /\ \A i \in 1..n : t[i] = r
  BY <1>1
<1>3. by' = by \o t
  BY DEF TakenBy
<1> HIDE DEF n, t
<1> QED BY <1>1, <1>2, <1>3 DEF Bounds

(* The types, and with them what each place of loop() knows of the line:   *)
(* blockserial is set exactly where handle_web_command() runs.             *)
LEMMA TypeInvKept == Spec => []TypeInv
<1>1. Init => TypeInv
  <2> SUFFICES ASSUME Init PROVE TypeInv
    OBVIOUS
  <2>1. /\ sent \in Seq(load.pieces) /\ by \in Seq(Nat)
        /\ Len(sent) = 0 /\ Len(by) = 0 /\ load \in Loads /\ pc = "loop"
        /\ serverClients \in [Slot -> Clients \cup {None}] /\ request = None
        /\ blockserial = FALSE /\ count = 0 /\ requests = 0
    BY DEF Init
  <2>2. TypeOK
    <3>1. /\ Len(by) <= Len(sent) /\ count \in 0..MAX_TRY
      BY <2>1, TriesLeft
    <3>2. /\ blockserial \in BOOLEAN /\ (blockserial <=> request # None)
          /\ ~blockserial
      BY <2>1
    <3> QED BY <2>1, <3>1, <3>2, Zenon DEF TypeOK
  <2>3. Bounds
    BY <2>1 DEF Bounds, Holding
  <2> QED BY <2>2, <2>3 DEF TypeInv
<1>2. TypeInv /\ [Next]_vars => TypeInv'
  <2> SUFFICES ASSUME TypeInv, [Next]_vars PROVE TypeInv'
    OBVIOUS
  <2> USE DEF TypeInv, TypeOK, Bounds, Holding
  <2>1. CASE PrinterSends
    <3>1. PICK b \in load.pieces : sent' = Append(sent, b)
      BY <2>1 DEF PrinterSends
    <3>2. sent' \in Seq(load.pieces) /\ Len(sent') = Len(sent) + 1
      BY <3>1
    <3>3. UNCHANGED <<load, pc, by, serverClients, blockserial, count,
                      request, requests>>
      BY <2>1 DEF PrinterSends, bridgeVars, webVars
    <3> QED BY <3>2, <3>3
  <2>2. CASE ClientMoves
    BY <2>2 DEF ClientMoves, Connect, Type, Leave, printerVars, webVars
  <2>3. CASE FillSlots
    <3>1. UNCHANGED <<load, sent, by, blockserial, count, request, requests>>
          /\ pc' = "reject"
      BY <2>3 DEF FillSlots, printerVars, webVars
    <3>2. serverClients' \in [Slot -> Clients \cup {None}]
      BY <2>3 DEF FillSlots, Pending
    <3> QED BY <2>3, <3>1, <3>2 DEF FillSlots
  <2>4. CASE Reject \/ NoClient
    BY <2>4 DEF Reject, NoClient, printerVars, bridgeVars, webVars
  <2>5. CASE FromTCP
    BY <2>5 DEF FromTCP, webVars
  <2>6. CASE FromSerial2TCP
    <3>1. by' \in Seq(Nat) /\ Len(by') = Len(sent)
      BY <2>6, Taken DEF FromSerial2TCP, FromSerial
    <3>2. UNCHANGED <<load, sent, serverClients, blockserial, count, request,
                      requests>>
          /\ pc = "serial" /\ pc' = "web"
      BY <2>6 DEF FromSerial2TCP, printerVars, webVars
    <3> QED BY <3>1, <3>2
  <2>7. CASE NoRequest \/ Silent
    <3>1. /\ UNCHANGED <<load, sent, by, serverClients, blockserial, count,
                         request>>
          /\ requests' \in {requests, requests + 1} /\ pc' = "loop"
          /\ pc = "web"
      BY <2>7 DEF NoRequest, Silent, printerVars, bridgeVars
    <3> QED BY <3>1
  <2>8. CASE Take \/ Purge \/ Release
    <3>1. by' \in Seq(Nat) /\ Len(by') = Len(sent)
      BY <2>8, Taken DEF Take, Purge, Purged, Release, FromSerial
    <3>2. UNCHANGED <<load, sent, serverClients>>
      BY <2>8 DEF Take, Purge, Release, printerVars
    <3>3. /\ blockserial' \in BOOLEAN /\ (blockserial' <=> request' # None)
          /\ (blockserial' <=> pc' \in {"purge", "command", "read"})
          /\ pc' \in {"loop", "purge", "command"}
      BY <2>8 DEF Take, Purge, Release, Released, None
    <3>4. /\ count' \in 0..MAX_TRY /\ requests' \in Nat
          /\ pc' \in Holding => requests' # 0
      BY <2>8, TriesLeft DEF Take, Purge, Release
    <3> QED BY <3>1, <3>2, <3>3, <3>4
  <2>9. CASE Command
    BY <2>9 DEF Command, bridgeVars, webVars
  <2>10. CASE Pick
    <3>1. UNCHANGED <<pc, load, sent, serverClients, blockserial, request,
                      requests>>
      BY <2>10 DEF Pick, printerVars, bridgeVars
    <3>2. count' \in 0..MAX_TRY
      <4>1. count < MAX_TRY /\ count' \in {Try, MAX_TRY, 1}
        BY <2>10 DEF Pick
      <4> QED BY <4>1, TriesLeft DEF Try
    <3>3. \/ UNCHANGED by
          \/ by' = TakenBy(requests)
      BY <2>10 DEF Pick
    <3>4. by' \in Seq(Nat) /\ Len(by') <= Len(sent)
      BY <3>3, Taken
    <3> QED BY <3>1, <3>2, <3>4
  <2>11. CASE UNCHANGED vars
    BY <2>11 DEF vars, printerVars, bridgeVars, webVars
  <2> QED BY <2>1, <2>2, <2>3, <2>4, <2>5, <2>6, <2>7, <2>8, <2>9, <2>10,
             <2>11
          DEF Next, Module
<1> QED BY <1>1, <1>2, PTL DEF Spec

(* Every variable of the line keeps its type; a web request is in hand     *)
(* exactly while blockserial is set, and loop() never begins with the line *)
(* blocked.                                                                *)
THEOREM TypeCorrect == Spec => []TypeOK
<1>1. TypeInv => TypeOK
  BY DEF TypeInv
<1> QED BY <1>1, TypeInvKept, PTL

(* Among natural numbers there is a least one.                             *)
LEMMA Least ==
  ASSUME NEW S \in SUBSET Nat, S # {}
  PROVE  \E x \in S : \A y \in S : x <= y
<1> DEFINE R == OpToRel(<, Nat)
<1>1. IsWellFoundedOn(R, Nat)
  BY NatLessThanWellFounded
<1>2. \A x, y \in Nat : y < x => <<y, x>> \in R
  BY DEF OpToRel
<1> HIDE DEF R
<1>3. \E x \in S : \A y \in S : ~ (<<y, x>> \in R)
  BY <1>1, WFMin, Zenon
<1>4. PICK x \in S : \A y \in S : ~ (<<y, x>> \in R)
  BY <1>3
<1>5. \A y \in S : x <= y
  <2> TAKE y \in S
  <2>1. x \in Nat /\ y \in Nat /\ ~ (y < x)
    BY <1>2, <1>4
  <2> QED BY <2>1
<1> QED BY <1>5

(* Min() is that one.                                                      *)
LEMMA LeastIs ==
  ASSUME NEW S \in SUBSET Nat, S # {}
  PROVE  Min(S) \in S /\ \A k \in S : Min(S) <= k
<1>1. \E x \in S : \A y \in S : x <= y
  BY Least
<1> QED BY <1>1, Zenon DEF Min

(* And, when they are bounded, a greatest one.                             *)
LEMMA Greatest ==
  ASSUME NEW S \in SUBSET Nat, S # {}, NEW b \in Nat, \A k \in S : k <= b
  PROVE  Max(S) \in S /\ \A k \in S : k <= Max(S)
<1> DEFINE T == {t \in Nat : t <= b /\ b - t \in S}
<1>1. T \in SUBSET Nat /\ T # {}
  <2>1. PICK k \in S : TRUE
    OBVIOUS
  <2>2. b - k \in T
    BY <2>1
  <2> QED BY <2>2
<1> HIDE DEF T
<1>2. PICK t \in T : \A u \in T : t <= u
  BY <1>1, Least
<1>3. b - t \in S /\ t \in Nat
  BY DEF T
<1>4. \A k \in S : k <= b - t
  <2> TAKE k \in S
  <2>1. b - k \in T
    BY DEF T
  <2> QED BY <1>2, <1>3, <2>1
<1>5. \E x \in S : \A y \in S : x >= y
  <2>1. \A y \in S : b - t >= y
    BY <1>3, <1>4
  <2> QED BY <1>3, <2>1
<1> DEFINE m == Max(S)
<1>6. m \in S /\ \A y \in S : m >= y
  BY <1>5 DEF Max
<1> HIDE DEF m
<1>7. m \in S /\ \A k \in S : k <= m
  BY <1>6
<1> QED BY <1>7 DEF m

-----------------------------------------------------------------------------
(* While a web command holds the line that was emptied when nothing was    *)
(* owed: the printer owes nothing else, and every "ok" that is or will be  *)
(* in hand is the answer to this command.                                  *)
OwnIfOk(k) == sent[k] = "ok" => cause[k] = "web"

OnlyOwn ==
  /\ pc = "command" => owed = <<>>
  /\ pc = "read" => owed \in {<<"web">>, <<>>}
  /\ \A k \in Len(by) + 1..Len(sent) : OwnIfOk(k)
  /\ \A i \in DOMAIN current_buffer : OwnIfOk(current_buffer[i])

AckInv ==
  /\ owed \in Seq({"web", "other"})
  /\ cause \in Seq({"web", "other", None}) /\ Len(cause) = Len(sent)
  /\ current_buffer \in Seq(Nat)
  /\ \A i \in DOMAIN current_buffer : current_buffer[i] \in 1..Len(sent)
  /\ pc \in {"purge", "command"} => current_buffer = <<>>
  /\ pc \in {"command", "read"} /\ ~outstanding => OnlyOwn

(* What Pick() puts together: what was left over and what has come.        *)
Come == [i \in 1..(Len(sent) - Len(by)) |-> Len(by) + i]
Hand == current_buffer \o Come

(* Each place in hand was in hand before or is that of a piece not read.   *)
LEMMA HandIs ==
  ASSUME Bounds, AckInv
  PROVE  /\ Hand \in Seq(Nat)
         /\ \A i \in 1..Len(Hand) :
              \/ \E j \in DOMAIN current_buffer : Hand[i] = current_buffer[j]
              \/ Hand[i] \in Len(by) + 1..Len(sent)
<1> DEFINE n == Len(sent) - Len(by)
           t == Come
           h == Hand
<1>1. n \in Nat /\ Len(by) \in Nat /\ Len(sent) \in Nat
      /\ n + Len(by) = Len(sent)
  BY DEF Bounds
<1>2. t \in Seq(Nat) /\ Len(t) = n /\ \A i \in 1..n : t[i] = Len(by) + i
  BY <1>1 DEF Come
<1>3. current_buffer \in Seq(Nat) /\ h = current_buffer \o t
  BY DEF Hand, AckInv
<1> HIDE DEF n, t, h
<1>4. /\ h \in Seq(Nat) /\ Len(h) = Len(current_buffer) + Len(t)
      /\ \A i \in 1..Len(current_buffer) + Len(t) :
           h[i] = IF i <= Len(current_buffer) THEN current_buffer[i]
                  ELSE t[i - Len(current_buffer)]
  BY <1>2, <1>3, ConcatProperties
<1>5. ASSUME NEW i \in 1..Len(h)
      PROVE  \/ \E j \in DOMAIN current_buffer : h[i] = current_buffer[j]
             \/ h[i] \in Len(by) + 1..Len(sent)
  <2>1. Len(current_buffer) \in Nat
        /\ DOMAIN current_buffer = 1..Len(current_buffer)
    BY <1>3
  <2>2. CASE i <= Len(current_buffer)
    <3>1. i \in DOMAIN current_buffer /\ h[i] = current_buffer[i]
      BY <1>4, <2>1, <2>2
    <3> QED BY <3>1
  <2>3. CASE ~ (i <= Len(current_buffer))
    <3>1. i - Len(current_buffer) \in 1..n
      BY <1>2, <1>4, <2>1, <2>3
    <3>2. h[i] = Len(by) + (i - Len(current_buffer))
      BY <1>2, <1>4, <2>3, <3>1
    <3> QED BY <1>1, <3>1, <3>2
  <2> QED BY <2>2, <2>3
<1> QED BY <1>4, <1>5 DEF h

(* What a turn leaves in hand begins after the last line it passed on.     *)
LEMMA RestIs ==
  ASSUME NEW h \in Seq(Nat)
  PROVE  \E e \in 0..Len(h) :
           /\ IF Passed(h) = {} THEN e = 0
              ELSE e \in Passed(h) /\ \A k \in Passed(h) : k <= e
           /\ Rest(h) \in Seq(Nat) /\ Len(Rest(h)) = Len(h) - e
           /\ \A i \in 1..Len(h) - e : Rest(h)[i] = h[e + i]
<1>1. /\ Len(h) \in Nat /\ DOMAIN h = 1..Len(h)
      /\ Passed(h) \subseteq 1..Len(h)
  BY DEF Passed, Ends
<1>2. CASE Passed(h) = {}
  <2>1. Rest(h) = h
    BY <1>2 DEF Rest
  <2>2. 0 \in 0..Len(h) /\ Len(h) = Len(h) - 0
        /\ \A i \in 1..Len(h) - 0 : h[i] = h[0 + i]
    BY <1>1
  <2> QED BY <1>2, <2>1, <2>2
<1>3. CASE Passed(h) # {}
  <2> DEFINE m == Max(Passed(h))
  <2>1. m \in Passed(h) /\ \A k \in Passed(h) : k <= m
    <3>1. Passed(h) \in SUBSET Nat /\ \A k \in Passed(h) : k <= Len(h)
      BY <1>1
    <3> QED BY <1>1, <1>3, <3>1, Greatest
  <2>2. Rest(h) = SubSeq(h, m + 1, Len(h))
    BY <1>3 DEF Rest
  <2> HIDE DEF m
  <2>3. m \in 1..Len(h) /\ m + 1 \in 1..Len(h) + 1 /\ m \in 0..Len(h)
    BY <1>1, <2>1
  <2>4. PICK y : y = Rest(h)
    OBVIOUS
  <2>5. /\ y \in Seq(Nat)
        /\ Len(y) = IF m + 1 <= Len(h) THEN Len(h) - (m + 1) + 1 ELSE 0
        /\ \A i \in 1..Len(y) : y[i] = h[m + 1 + i - 1]
    BY <1>1, <2>2, <2>3, <2>4, SubSeqProperties, SMTT(30)
  <2>a. y \in Seq(Nat)
    BY <2>5, Zenon
  <2>b. PICK l \in Nat : l = Len(y)
    BY <2>a
  <2>c. PICK n \in Nat : n = Len(h)
    BY <1>1
  <2>6. l = Len(y) /\ n = Len(h)
    BY <2>b, <2>c
  <2>7. l = n - m
    <3>1. l = IF m + 1 <= n THEN n - (m + 1) + 1 ELSE 0
      BY <2>5, <2>6, Zenon
    <3> QED BY <2>3, <2>6, <3>1
  <2>8. \A i \in 1..l : m + 1 + i - 1 = m + i
    BY <2>3
  <2>9. /\ Rest(h) \in Seq(Nat) /\ Len(Rest(h)) = Len(h) - m
        /\ \A i \in 1..Len(h) - m : Rest(h)[i] = h[m + i]
    BY <2>4, <2>5, <2>6, <2>7, <2>8
  <2> QED BY <1>3, <2>1, <2>3, <2>9
<1> QED BY <1>2, <1>3

(* What Pick() takes in hand is among what was in hand and what has come.  *)
LEMMA Picked ==
  ASSUME Bounds, AckInv, Pick
  PROVE  /\ current_buffer' \in Seq(Nat)
         /\ \A i \in DOMAIN current_buffer' :
              \/ \E j \in DOMAIN current_buffer :
                   current_buffer'[i] = current_buffer[j]
              \/ current_buffer'[i] \in Len(by) + 1..Len(sent)
<1> DEFINE h == Hand
           new == current_buffer'
<1>1. new = current_buffer \/ new = Rest(h)
  BY DEF Pick, Hand, Come
<1>2. /\ h \in Seq(Nat)
      /\ \A i \in 1..Len(h) :
           \/ \E j \in DOMAIN current_buffer : h[i] = current_buffer[j]
           \/ h[i] \in Len(by) + 1..Len(sent)
  BY HandIs
<1> HIDE DEF h, new
<1>3. CASE new = current_buffer
  BY <1>3 DEF AckInv, new
<1>4. CASE new = Rest(h)
  <2>1. PICK e \in 0..Len(h) :
          /\ Rest(h) \in Seq(Nat) /\ Len(Rest(h)) = Len(h) - e
          /\ \A i \in 1..Len(h) - e : Rest(h)[i] = h[e + i]
    BY <1>2, RestIs
  <2>2. \A i \in 1..Len(new) : e + i \in 1..Len(h) /\ new[i] = h[e + i]
    BY <1>2, <1>4, <2>1
  <2>3. DOMAIN new = 1..Len(new)
    BY <1>4, <2>1
  <2> QED BY <1>2, <1>4, <2>1, <2>2, <2>3 DEF new
<1> QED BY <1>1, <1>3, <1>4

(* What is in hand, and what the printer owes, while a web command waits   *)
(* for its answer.                                                         *)
LEMMA AckInvKept == Spec => [](TypeInv /\ AckInv)
<1>1. Init => AckInv
  BY DEF Init, AckInv
<1>2. TypeInv /\ TypeInv' /\ AckInv /\ [Next]_vars => AckInv'
  <2> SUFFICES ASSUME TypeInv, TypeInv', AckInv, [Next]_vars PROVE AckInv'
    OBVIOUS
  <2>0. /\ Len(sent) \in Nat /\ Len(by) \in Nat /\ Len(by) <= Len(sent)
        /\ current_buffer \in Seq(Nat)
        /\ DOMAIN current_buffer = 1..Len(current_buffer)
        /\ owed \in Seq({"web", "other"})
        /\ cause \in Seq({"web", "other", None}) /\ Len(cause) = Len(sent)
        /\ pc \in {"loop", "reject", "tcp", "serial", "web"} \cup Holding
        /\ requests \in Nat
    BY DEF TypeInv, Bounds, AckInv
  <2>1. CASE PrinterSends
    <3>1. PICK b \in load.pieces :
            /\ sent' = Append(sent, b)
            /\ b = "ok" => owed # <<>>
            /\ cause' = Append(cause, IF b = "ok" THEN Head(owed) ELSE None)
            /\ owed' = IF b = "ok" THEN Tail(owed) ELSE owed
      BY <2>1, Zenon DEF PrinterSends
    <3>2. UNCHANGED <<pc, by, current_buffer, outstanding>>
      BY <2>1 DEF PrinterSends, webVars
    <3> DEFINE c == IF b = "ok" THEN Head(owed) ELSE None
    <3>3. c \in {"web", "other", None} /\ owed' \in Seq({"web", "other"})
      BY <2>0, <3>1
    <3>4. /\ Len(sent') = Len(sent) + 1 /\ sent'[Len(sent) + 1] = b
          /\ \A k \in 1..Len(sent) : sent'[k] = sent[k]
      BY <3>1 DEF TypeInv, Bounds
    <3>5. /\ cause' \in Seq({"web", "other", None})
          /\ Len(cause') = Len(sent) + 1
          /\ cause'[Len(sent) + 1] = c
          /\ \A k \in 1..Len(sent) : cause'[k] = cause[k]
      BY <2>0, <3>1, <3>3
    <3>6. ASSUME pc \in {"command", "read"}, ~outstanding PROVE OnlyOwn'
      <4>1. OnlyOwn
        BY <3>6 DEF AckInv
      <4>2. owed' = <<>> \/ (pc = "read" /\ owed' = <<"web">>)
        <5>1. owed \in {<<"web">>, <<>>} /\ (pc = "command" => owed = <<>>)
          BY <3>6, <4>1 DEF OnlyOwn
        <5>2. CASE b = "ok"
          <6>1. owed = <<"web">>
            BY <3>1, <5>1, <5>2
          <6>2. Tail(<<"web">>) = <<>>
            OBVIOUS
          <6> QED BY <3>1, <5>2, <6>1, <6>2
        <5>3. CASE b # "ok"
          BY <3>1, <3>6, <5>1, <5>3
        <5> QED BY <5>2, <5>3
      <4>3. b = "ok" => c = "web"
        BY <3>1, <3>6, <4>1 DEF OnlyOwn
      <4>4. \A k \in 1..Len(sent) : OwnIfOk(k) => OwnIfOk(k)'
        BY <3>4, <3>5 DEF OwnIfOk
      <4>5. \A k \in Len(by) + 1..Len(sent') : OwnIfOk(k)'
        <5> SUFFICES ASSUME NEW k \in Len(by) + 1..Len(sent) + 1
                     PROVE  OwnIfOk(k)'
          BY <3>4
        <5>1. CASE k = Len(sent) + 1
          BY <3>4, <3>5, <4>3, <5>1 DEF OwnIfOk
        <5>2. CASE k # Len(sent) + 1
          <6>1. k \in 1..Len(sent) /\ k \in Len(by) + 1..Len(sent)
            BY <2>0, <5>2
          <6> QED BY <4>1, <4>4, <6>1 DEF OnlyOwn
        <5> QED BY <5>1, <5>2
      <4>6. \A i \in DOMAIN current_buffer : OwnIfOk(current_buffer[i])'
        BY <4>1, <4>4, <3>2 DEF OnlyOwn, AckInv
      <4> QED BY <3>2, <4>2, <4>5, <4>6 DEF OnlyOwn
    <3>7. \A i \in DOMAIN current_buffer : current_buffer[i] \in 1..Len(sent')
      BY <2>0, <3>4 DEF AckInv
    <3> QED BY <2>0, <3>2, <3>3, <3>4, <3>5, <3>6, <3>7 DEF AckInv
  <2>2. ASSUME UNCHANGED <<sent, cause, current_buffer>>,
               owed' \in Seq({"web", "other"}), pc' \notin Holding
        PROVE  AckInv'
    BY <2>2 DEF AckInv, Holding
  <2>3. CASE FillSlots \/ Reject \/ NoClient \/ FromSerial2TCP \/ NoRequest
    <3>1. UNCHANGED <<sent, cause, current_buffer, owed>>
          /\ pc' \notin Holding
      BY <2>3 DEF FillSlots, Reject, NoClient, FromSerial2TCP, NoRequest,
         printerVars, webVars, Holding
    <3> QED BY <2>0, <2>2, <3>1
  <2>4. CASE FromTCP \/ Silent
    <3>1. UNCHANGED <<sent, cause, current_buffer>> /\ pc' \notin Holding
          /\ owed' \in {owed, Append(owed, "other")}
      BY <2>4 DEF FromTCP, Silent, webVars, Holding
    <3> QED BY <2>0, <2>2, <3>1, SMTT(30)
  <2>5. CASE Take
    <3>1. UNCHANGED <<sent, cause, owed>> /\ current_buffer' = <<>>
          /\ pc' = "purge"
      BY <2>5 DEF Take, printerVars
    <3> QED BY <2>0, <3>1 DEF AckInv
  <2>6. CASE Purge
    <3>1. /\ UNCHANGED <<sent, cause, owed, current_buffer>>
          /\ pc = "purge" /\ pc' = "command" /\ outstanding' = (owed # <<>>)
          /\ by' = TakenBy(0)
      BY <2>6 DEF Purge, Purged, FromSerial, printerVars
    <3>2. current_buffer' = <<>> /\ Len(by') = Len(sent)
      BY <3>1, Taken DEF AckInv, TypeInv
    <3>3. ~outstanding' => OnlyOwn'
      <4>1. ~outstanding' => owed' = <<>>
        BY <3>1
      <4>2. DOMAIN current_buffer' = {}
        BY <3>2
      <4>3. Len(by') + 1..Len(sent') = {}
        BY <2>0, <3>1, <3>2
      <4> QED BY <3>1, <4>1, <4>2, <4>3, Zenon DEF OnlyOwn
    <3> QED BY <2>0, <3>1, <3>2, <3>3 DEF AckInv
  <2>7. CASE Command
    <3>1. /\ UNCHANGED <<sent, cause, by, current_buffer, outstanding>>
          /\ pc = "command" /\ pc' = "read" /\ owed' = Append(owed, "web")
      BY <2>7 DEF Command, webVars
    <3>2. ~outstanding => OnlyOwn'
      <4> SUFFICES ASSUME ~outstanding PROVE OnlyOwn'
        OBVIOUS
      <4>1. OnlyOwn /\ owed' = <<"web">>
        BY <3>1 DEF AckInv, OnlyOwn
      <4> QED BY <3>1, <4>1 DEF OnlyOwn, OwnIfOk
    <3> QED BY <2>0, <3>1, <3>2 DEF AckInv
  <2>8. CASE Pick
    <3>1. /\ UNCHANGED <<pc, sent, cause, owed, outstanding>> /\ pc = "read"
          /\ UNCHANGED by \/ by' = TakenBy(requests)
      BY <2>8 DEF Pick, printerVars
    <3>2. Len(by') \in Nat /\ Len(by) <= Len(by')
      BY <2>0, <3>1, Taken DEF TypeInv
    <3>3. /\ current_buffer' \in Seq(Nat)
          /\ \A i \in DOMAIN current_buffer' :
              \/ \E j \in DOMAIN current_buffer :
                   current_buffer'[i] = current_buffer[j]
              \/ current_buffer'[i] \in Len(by) + 1..Len(sent)
      BY <2>8, Picked DEF TypeInv
    <3>4. \A i \in DOMAIN current_buffer' : current_buffer'[i] \in 1..Len(sent)
      BY <2>0, <3>3 DEF AckInv
    <3>5. ~outstanding => OnlyOwn'
      <4> SUFFICES ASSUME ~outstanding PROVE OnlyOwn'
        OBVIOUS
      <4>1. OnlyOwn
        BY <3>1 DEF AckInv
      <4>2. \A i \in DOMAIN current_buffer' : OwnIfOk(current_buffer'[i])
        BY <3>3, <4>1 DEF OnlyOwn
      <4>3. \A k \in Len(by') + 1..Len(sent) : k \in Len(by) + 1..Len(sent)
        BY <2>0, <3>2
      <4> QED BY <3>1, <4>1, <4>2, <4>3 DEF OnlyOwn, OwnIfOk
    <3> QED BY <2>0, <3>1, <3>3, <3>4, <3>5 DEF AckInv
  <2>9. CASE Release
    <3>1. UNCHANGED <<sent, cause, owed>> /\ current_buffer' = <<>>
          /\ pc' = "loop"
      BY <2>9 DEF Release, printerVars
    <3> QED BY <2>0, <3>1 DEF AckInv
  <2>10. CASE UNCHANGED vars \/ ClientMoves
    <3>1. UNCHANGED <<pc, by, sent, cause, owed, current_buffer, outstanding>>
      BY <2>10 DEF vars, ClientMoves, printerVars, webVars
    <3> QED BY <3>1 DEF AckInv, OnlyOwn, OwnIfOk
  <2> QED BY <2>1, <2>3, <2>4, <2>5, <2>6, <2>7, <2>8, <2>9, <2>10
          DEF Next, Module
<1> QED BY <1>1, <1>2, TypeInvKept, PTL DEF Spec

(* The "ok" that ends the answer to a web command is its own, unless       *)
(* another command was unanswered when the line was emptied for it         *)
(* (webinterface.cpp:1335).                                                *)
THEOREM AckIsOwnAlways == Spec => []AckIsOwn
<1>1. TypeInv /\ AckInv => AckIsOwn
  <2> SUFFICES ASSUME AckInv, pc = "read", Len(current_buffer) > 1,
                      sent[current_buffer[1]] = "ok", ~outstanding
               PROVE  cause[current_buffer[1]] = "web"
    BY DEF AckIsOwn
  <2>1. 1 \in DOMAIN current_buffer
    BY DEF AckInv
  <2>2. OwnIfOk(current_buffer[1])
    BY <2>1 DEF AckInv, OnlyOwn
  <2> QED BY <2>2 DEF OwnIfOk
<1> QED BY <1>1, AckInvKept, PTL

-----------------------------------------------------------------------------
(* Induction, for a set: what holds at 0 and of every next number holds of *)
(* all.                                                                    *)
LEMMA SetInduction ==
  ASSUME NEW S, 0 \in S, \A n \in Nat : n \in S => n + 1 \in S
  PROVE  Nat \subseteq S
<1> DEFINE T == Nat \ S
<1> SUFFICES ASSUME T # {} PROVE FALSE
  OBVIOUS
<1>1. T \in SUBSET Nat
  OBVIOUS
<1>2. PICK x \in T : \A y \in T : x <= y
  BY <1>1, Least
<1>3. x \in Nat /\ x # 0 /\ x \notin S
  BY <1>2
<1>4. x - 1 \in Nat /\ x - 1 \in S
  <2>1. x - 1 \in Nat /\ ~ (x <= x - 1)
    BY <1>3
  <2> QED BY <1>2, <2>1
<1> QED BY <1>3, <1>4

(* One turn of the interpreter, for the piece at place k.                  *)
Turn(a, k) ==
  LET rd == Read(a.reader, sent[k], k)
  IN  [reader |-> rd,
       cmd |-> IF Found(rd, sent[k]) THEN [text |-> rd.buffer, end |-> k]
               ELSE a.cmd]

Begun == [reader |-> serial, cmd |-> executed]

(* Turns can be made one after another, as long as one likes ...           *)
LEMMA TurnsExist ==
  ASSUME NEW b \in Nat, NEW n \in Nat
  PROVE  \E f :
           f = [k \in b..b + n |-> IF k = b THEN Begun ELSE Turn(f[k - 1], k)]
<1> DEFINE Is(f, m) == f = [k \in b..b + m |-> IF k = b THEN Begun
                                               ELSE Turn(f[k - 1], k)]
           S == {m \in Nat : \E f : Is(f, m)}
<1>1. 0 \in S
  <2> DEFINE g == [k \in b..b + 0 |-> Begun]
  <2>1. \A k \in b..b + 0 : k = b
    OBVIOUS
  <2>2. g = [k \in b..b + 0 |-> IF k = b THEN Begun ELSE Turn(g[k - 1], k)]
    BY <2>1, Zenon
  <2> QED BY <2>2
<1>2. ASSUME NEW m \in Nat, m \in S PROVE m + 1 \in S
  <2>1. PICK f : Is(f, m)
    BY <1>2
  <2> DEFINE g == [k \in b..b + (m + 1) |->
                    IF k = b + (m + 1) THEN Turn(f[b + m], k) ELSE f[k]]
             h == [k \in b..b + (m + 1) |->
                    IF k = b THEN Begun ELSE Turn(g[k - 1], k)]
  <2>2. ASSUME NEW k \in b..b + (m + 1) PROVE g[k] = h[k]
    <3>1. CASE k = b + (m + 1)
      <4>1. k # b /\ k - 1 = b + m /\ b + m \in b..b + (m + 1)
            /\ b + m # b + (m + 1)
        BY <3>1
      <4>2. g[k - 1] = f[b + m]
        BY <4>1
      <4> QED BY <3>1, <4>1, <4>2
    <3>2. CASE k # b + (m + 1) /\ k # b
      <4>1. k - 1 # b + (m + 1) /\ k - 1 \in b..b + (m + 1) /\ k \in b..b + m
        BY <3>2
      <4>2. g[k - 1] = f[k - 1] /\ g[k] = f[k]
        BY <3>2, <4>1
      <4>3. f[k] = Turn(f[k - 1], k)
        BY <2>1, <3>2, <4>1, Zenon
      <4> QED BY <3>2, <4>2, <4>3
    <3>3. CASE k = b
      <4>1. k \in b..b + m /\ k # b + (m + 1)
        BY <3>3
      <4>2. f[k] = Begun
        BY <2>1, <3>3, <4>1, Zenon
      <4> QED BY <3>3, <4>1, <4>2
    <3> QED BY <3>1, <3>2, <3>3
  <2>3. g = h
    BY <2>2, Zenon
  <2>4. Is(g, m + 1)
    BY <2>3
  <2> HIDE DEF Is
  <2> QED BY <2>4
<1> HIDE DEF S
<1>3. Nat \subseteq S
  BY <1>1, <1>2, SetInduction
<1> QED BY <1>3 DEF S

(* ... which is what read_buffer_serial(sbuf, len) does.                   *)
LEMMA InterpretedIs ==
  ASSUME Bounds
  PROVE  \E f : /\ f[Len(by)] = Begun /\ Interpreted = f[Len(sent)]
                /\ \A k \in Len(by) + 1..Len(sent) : f[k] = Turn(f[k - 1], k)
<1>0. Len(by) \in Nat /\ Len(sent) \in Nat /\ Len(by) <= Len(sent)
  BY DEF Bounds
<1> DEFINE D == Len(by)..Len(sent)
           after == CHOOSE f : f = [k \in D |->
                      IF k = Len(by) THEN Begun ELSE Turn(f[k - 1], k)]
<1>1. Interpreted = after[Len(sent)]
  BY Zenon DEF Interpreted, Turn, Begun
<1>2. \E f :
        f = [k \in D |-> IF k = Len(by) THEN Begun ELSE Turn(f[k - 1], k)]
  <2>1. PICK b \in Nat, n \in Nat : b = Len(by) /\ b + n = Len(sent)
    <3>1. Len(sent) - Len(by) \in Nat
          /\ Len(by) + (Len(sent) - Len(by)) = Len(sent)
      BY <1>0
    <3> QED BY <1>0, <3>1
  <2>2. \E f :
          f = [k \in b..b + n |-> IF k = b THEN Begun ELSE Turn(f[k - 1], k)]
    BY TurnsExist
  <2> QED BY <2>1, <2>2
<1>3. after =
        [k \in D |-> IF k = Len(by) THEN Begun ELSE Turn(after[k - 1], k)]
  BY <1>2, Zenon
<1> HIDE DEF after
<1>4. Len(by) \in D
      /\ \A k \in Len(by) + 1..Len(sent) : k \in D /\ k # Len(by)
  BY <1>0
<1> HIDE DEF D
<1>5. after[Len(by)] = Begun
  BY <1>3, <1>4, Zenon
<1>6. \A k \in Len(by) + 1..Len(sent) : after[k] = Turn(after[k - 1], k)
  BY <1>3, <1>4, Zenon
<1> QED BY <1>1, <1>5, <1>6

-----------------------------------------------------------------------------
(* Where the text begins that ends at place n, and which of its places are *)
(* before a comment.                                                       *)
Begins(t, s, n) ==
  /\ s \in 1..n + 1
  /\ \A k \in s..n : Printable(t[k])
  /\ s > 1 => ~Printable(t[s - 1])

Uncommented(t, s, n) == {k \in s..n : \A j \in s..k : t[j] # ";"}
Commented(t, s, n)   == \E j \in s..n : t[j] = ";"

Places(x) == {x[j].at : j \in DOMAIN x}

(* A piece went to a web command since the text, or what the buffer holds  *)
(* of it, began.                                                           *)
WebSince(r, s, places, n) ==
  \E k \in 1..n : r[k] # 0 /\ (s <= k \/ \E p \in places : p <= k)

(* The reader rd, after n pieces of t, read by r: it holds the text so far *)
(* up to a comment, unless a web command came between.                     *)
BufferOk(t, r, rd, s, n) ==
  /\ rd.buffer # <<>> \/ rd.iscomment
  /\ \/ rd.buffer = <<>>
     \/ WebSince(r, s, Places(rd.buffer), n)
     \/ /\ s <= n /\ Places(rd.buffer) = Uncommented(t, s, n)
        /\ rd.iscomment <=> Commented(t, s, n)

ReaderOk(t, r, rd, n) ==
  /\ Places(rd.buffer) \subseteq 1..n
  /\ \E s \in 1..n + 1 :
       /\ Begins(t, s, n)
       /\ rd.previous_was_char => BufferOk(t, r, rd, s, n)
       /\ ~rd.previous_was_char => s = n + 1 \/ \E k \in s..n : r[k] # 0

(* Where the line begins that goes on to place n.                          *)
LineBegins(t, s, n) ==
  /\ s \in 1..n + 1
  /\ \A k \in s..n : t[k] # "nl"
  /\ s > 1 => t[s - 1] = "nl"

(* The text x, looked at among the first n pieces: the interpreter found   *)
(* it at the newline that ends it, or a web command had collected it.      *)
FoundAt(t, r, x, s) ==
  /\ Begins(t, s, x.end - 1)
  /\ \/ Places(x.text) = Uncommented(t, s, x.end - 1)
     \/ WebSince(r, s, Places(x.text), x.end)

CollectedAt(t, r, x, s) ==
  /\ LineBegins(t, s, x.end - 1)
  /\ Places(x.text) = {k \in s..x.end - 1 : r[k] = r[x.end]}

ExecutedOk(t, r, x, n) ==
  x # Nothing =>
    /\ x.end \in 1..n
    /\ r[x.end] = 0 => \E s \in 1..x.end : FoundAt(t, r, x, s)
    /\ r[x.end] # 0 => \E s \in 1..x.end : CollectedAt(t, r, x, s)

Char   == [text : Pieces, at : Nat]
Reader == [buffer : Seq(Char), previous_was_char : BOOLEAN,
           iscomment : BOOLEAN]
Looks  == [text : Seq(Char), end : Nat]

(* There is such a beginning, and only one.                                *)
LEMMA BeginsOnce ==
  ASSUME NEW t, NEW n \in Nat
  PROVE  /\ \E s \in 1..n + 1 : Begins(t, s, n)
         /\ \A s, u : Begins(t, s, n) /\ Begins(t, u, n) => s = u
         /\ Begins(t, Max({0} \cup {k \in 1..n : ~Printable(t[k])}) + 1, n)
<1> DEFINE S == {0} \cup {k \in 1..n : ~Printable(t[k])}
           m == Max(S)
<1>1. S \in SUBSET Nat /\ S # {} /\ \A k \in S : k <= n
  OBVIOUS
<1>2. m \in S /\ \A k \in S : k <= m
  BY <1>1, Greatest
<1> HIDE DEF m
<1>3. Begins(t, m + 1, n)
  <2>1. m \in Nat /\ m <= n /\ m + 1 \in 1..n + 1 /\ m + 1 - 1 = m
    BY <1>1, <1>2
  <2>2. ASSUME NEW k \in m + 1..n PROVE Printable(t[k])
    <3>1. k \in 1..n /\ ~ (k <= m)
      BY <2>1
    <3> QED BY <1>2, <3>1
  <2>3. m + 1 > 1 => ~Printable(t[m + 1 - 1])
    BY <1>2, <2>1
  <2> QED BY <2>1, <2>2, <2>3 DEF Begins
<1>4. \A s, u : Begins(t, s, n) /\ Begins(t, u, n) => s = u
  <2>1. ASSUME NEW s, NEW u, Begins(t, s, n), Begins(t, u, n), s < u
        PROVE  FALSE
    <3>1. s \in Nat /\ u \in Nat /\ u > 1 /\ u - 1 \in s..n
      BY <2>1 DEF Begins
    <3> QED BY <2>1, <3>1 DEF Begins
  <2>2. ASSUME NEW s, NEW u, Begins(t, s, n), Begins(t, u, n) PROVE s = u
    <3>1. s \in Nat /\ u \in Nat /\ ~ (s < u) /\ ~ (u < s)
      BY <2>1, <2>2 DEF Begins
    <3> QED BY <3>1
  <2> QED BY <2>2
<1>5. m + 1 \in 1..n + 1
  BY <1>3 DEF Begins
<1> QED BY <1>3, <1>4, <1>5 DEF m

(* A piece more, behind the others.                                        *)
LEMMA PlacesAppended ==
  ASSUME NEW x \in Seq(Char), NEW c \in Char
  PROVE  /\ Append(x, c) \in Seq(Char) /\ Append(x, c) # <<>>
         /\ Places(Append(x, c)) = Places(x) \cup {c.at}
<1> DEFINE y == Append(x, c)
<1>1. /\ y \in Seq(Char) /\ Len(y) = Len(x) + 1 /\ Len(x) \in Nat
      /\ y[Len(x) + 1] = c /\ \A i \in 1..Len(x) : y[i] = x[i]
      /\ DOMAIN x = 1..Len(x) /\ DOMAIN y = 1..Len(x) + 1
  OBVIOUS
<1> HIDE DEF y
<1>2. y # <<>>
  BY <1>1
<1>3. Places(y) \subseteq Places(x) \cup {c.at}
  BY <1>1 DEF Places
<1>4. Places(x) \subseteq Places(y)
  BY <1>1 DEF Places
<1>5. c.at \in Places(y)
  <2>1. Len(x) + 1 \in DOMAIN y
    BY <1>1
  <2> QED BY <1>1, <2>1 DEF Places
<1> QED BY <1>1, <1>2, <1>3, <1>4, <1>5 DEF y

(* Only what is read and who read it matters, not what comes later.        *)
LEMMA ReaderFrame ==
  ASSUME NEW t, NEW r, NEW u, NEW q, NEW n \in Nat, NEW rd, NEW x,
         \A k \in 1..n : t[k] = u[k] /\ r[k] = q[k]
  PROVE  /\ ReaderOk(t, r, rd, n) => ReaderOk(u, q, rd, n)
         /\ \A m \in Nat : m >= n =>
              (ExecutedOk(t, r, x, n) => ExecutedOk(u, q, x, m))
<1>1. \A s \in 1..n + 1 : \A e \in 0..n : Begins(t, s, e) => Begins(u, s, e)
  <2> SUFFICES ASSUME NEW s \in 1..n + 1, NEW e \in 0..n, Begins(t, s, e)
               PROVE  Begins(u, s, e)
    OBVIOUS
  <2>1. s > 1 => s - 1 \in 1..n
    OBVIOUS
  <2>2. \A k \in s..e : k \in 1..n
    OBVIOUS
  <2> QED BY <2>1, <2>2 DEF Begins
<1>2. \A s \in 1..n + 1 : \A e \in 0..n :
        /\ Uncommented(t, s, e) = Uncommented(u, s, e)
        /\ Commented(t, s, e) <=> Commented(u, s, e)
  <2> TAKE s \in 1..n + 1
  <2> TAKE e \in 0..n
  <2>1. \A k \in s..e : k \in 1..n /\ \A j \in s..k : j \in 1..n
    OBVIOUS
  <2>2. Uncommented(t, s, e) = Uncommented(u, s, e)
    BY <2>1 DEF Uncommented
  <2> QED BY <2>1, <2>2 DEF Commented
<1>3. \A s, P : \A e \in 0..n : WebSince(r, s, P, e) => WebSince(q, s, P, e)
  BY DEF WebSince
<1>4. n \in 0..n
  OBVIOUS
<1>5. ASSUME NEW s \in 1..n + 1, BufferOk(t, r, rd, s, n)
      PROVE  BufferOk(u, q, rd, s, n)
  BY <1>2, <1>3, <1>4, <1>5 DEF BufferOk
<1>6. ReaderOk(t, r, rd, n) => ReaderOk(u, q, rd, n)
  <2> SUFFICES ASSUME ReaderOk(t, r, rd, n) PROVE ReaderOk(u, q, rd, n)
    OBVIOUS
  <2>1. PICK s \in 1..n + 1 :
          /\ Begins(t, s, n)
          /\ rd.previous_was_char => BufferOk(t, r, rd, s, n)
          /\ ~rd.previous_was_char => s = n + 1 \/ \E k \in s..n : r[k] # 0
    BY DEF ReaderOk
  <2>2. \A k \in s..n : k \in 1..n
    OBVIOUS
  <2> QED BY <1>1, <1>4, <1>5, <2>1, <2>2 DEF ReaderOk
<1>7. ASSUME NEW m \in Nat, m >= n, ExecutedOk(t, r, x, n)
      PROVE  ExecutedOk(u, q, x, m)
  <2> SUFFICES ASSUME x # Nothing
               PROVE  /\ x.end \in 1..m
                      /\ q[x.end] = 0 =>
                           \E s \in 1..x.end : FoundAt(u, q, x, s)
                      /\ q[x.end] # 0 =>
                           \E s \in 1..x.end : CollectedAt(u, q, x, s)
    BY DEF ExecutedOk
  <2>0. PICK e : e = x.end
    OBVIOUS
  <2>1. /\ e \in 1..n
        /\ r[e] = 0 => \E s \in 1..e : FoundAt(t, r, x, s)
        /\ r[e] # 0 => \E s \in 1..e : CollectedAt(t, r, x, s)
    BY <1>7, <2>0 DEF ExecutedOk
  <2>2. /\ e \in 1..m /\ e \in 1..n /\ e - 1 \in 0..n /\ e \in 0..n
        /\ \A s \in 1..e : s \in 1..n + 1
        /\ q[e] = r[e]
    BY <1>7, <2>1
  <2>3. \A s \in 1..e : FoundAt(t, r, x, s) => FoundAt(u, q, x, s)
    <3> TAKE s \in 1..e
    <3> QED BY <1>1, <1>2, <1>3, <2>0, <2>2 DEF FoundAt
  <2>4. \A s \in 1..e : CollectedAt(t, r, x, s) => CollectedAt(u, q, x, s)
    <3> SUFFICES ASSUME NEW s \in 1..e, CollectedAt(t, r, x, s)
                 PROVE  CollectedAt(u, q, x, s)
      OBVIOUS
    <3>1. /\ LineBegins(t, s, e - 1)
          /\ Places(x.text) = {k \in s..e - 1 : r[k] = r[e]}
      BY <2>0 DEF CollectedAt
    <3>2. \A k \in s..e - 1 : k \in 1..n
      BY <2>2
    <3>3. s > 1 => s - 1 \in 1..n
      BY <2>2
    <3>4. LineBegins(u, s, e - 1)
      BY <3>1, <3>2, <3>3 DEF LineBegins
    <3>5. {k \in s..e - 1 : r[k] = r[e]} = {k \in s..e - 1 : q[k] = q[e]}
      BY <2>2, <3>2
    <3> QED BY <2>0, <3>1, <3>4, <3>5 DEF CollectedAt
  <2> QED BY <2>0, <2>1, <2>2, <2>3, <2>4
<1> QED BY <1>6, <1>7

(* Characters that the buffer holds have places.                           *)
LEMMA SomePlace ==
  ASSUME NEW x \in Seq(Char)
  PROVE  /\ Places(x) \in SUBSET Nat
         /\ x # <<>> <=> Places(x) # {}
<1>1. DOMAIN x = 1..Len(x) /\ Len(x) \in Nat
  OBVIOUS
<1>2. \A j \in DOMAIN x : x[j] \in Char
  BY <1>1
<1>3. Places(x) \in SUBSET Nat
  BY <1>2 DEF Places, Char
<1>4. ASSUME x # <<>> PROVE Places(x) # {}
  <2>1. 1 \in DOMAIN x
    BY <1>1, <1>4
  <2> QED BY <2>1 DEF Places
<1>5. ASSUME x = <<>> PROVE Places(x) = {}
  BY <1>5 DEF Places
<1> QED BY <1>3, <1>4, <1>5

(* Pieces that a web command takes pass the interpreter by.                *)
LEMMA TakenByWeb ==
  ASSUME NEW t, NEW r, NEW rd \in Reader, NEW n \in Nat, NEW m \in Nat,
         n <= m, \A k \in n + 1..m : r[k] # 0, ReaderOk(t, r, rd, n)
  PROVE  ReaderOk(t, r, rd, m)
<1>1. CASE n = m
  BY <1>1
<1>2. CASE n < m
  <2>1. PICK s \in 1..n + 1 :
          /\ Begins(t, s, n)
          /\ rd.previous_was_char => BufferOk(t, r, rd, s, n)
    BY DEF ReaderOk
  <2>2. PICK u \in 1..m + 1 : Begins(t, u, m)
    BY BeginsOnce
  <2>3. r[m] # 0 /\ m \in 1..m /\ m \in n + 1..m
    BY <1>2
  <2>4. Places(rd.buffer) \subseteq 1..m
    BY <1>2 DEF ReaderOk
  <2>5. ASSUME rd.previous_was_char PROVE BufferOk(t, r, rd, u, m)
    <3>1. BufferOk(t, r, rd, s, n)
      BY <2>1, <2>5
    <3>2. ASSUME rd.buffer # <<>> PROVE WebSince(r, u, Places(rd.buffer), m)
      <4>1. PICK p \in Places(rd.buffer) : TRUE
        BY <3>2, SomePlace DEF Reader
      <4>2. p <= m
        BY <2>4
      <4> QED BY <2>3, <4>2 DEF WebSince
    <3> QED BY <3>1, <3>2 DEF BufferOk
  <2>6. u = m + 1 \/ \E k \in u..m : r[k] # 0
    BY <2>3
  <2> QED BY <2>2, <2>4, <2>5, <2>6 DEF ReaderOk
<1> QED BY <1>1, <1>2

(* What a piece does to the reader.                                        *)
LEMMA ReadIs ==
  ASSUME NEW rd \in Reader, NEW b \in Pieces, NEW n \in Nat
  PROVE  /\ Read(rd, b, n) \in Reader
         /\ Read(rd, b, n).previous_was_char <=> Printable(b)
         /\ rd.previous_was_char =>
              /\ Read(rd, b, n).buffer =
                   IF Printable(b) /\ ~rd.iscomment /\ b # ";"
                     THEN Append(rd.buffer, [text |-> b, at |-> n])
                     ELSE rd.buffer
              /\ Printable(b) =>
                   (Read(rd, b, n).iscomment <=> rd.iscomment \/ b = ";")
         /\ ~rd.previous_was_char =>
              /\ Read(rd, b, n).buffer =
                   IF Printable(b) /\ b # ";"
                     THEN Append(<<>>, [text |-> b, at |-> n]) ELSE <<>>
              /\ Printable(b) => (Read(rd, b, n).iscomment <=> b = ";")
<1> DEFINE c == [text |-> b, at |-> n]
<1>1. c \in Char /\ <<>> \in Seq(Char)
  BY DEF Char
<1>2. Fresh \in Reader
  BY <1>1 DEF Fresh, Reader
<1>3. Started(rd) \in Reader
  BY <1>2 DEF Started
<1> DEFINE s == Started(rd)
           i == s.iscomment \/ b = ";"
<1>4. Read(rd, b, n) =
        [buffer |-> IF Printable(b) /\ ~i THEN Append(s.buffer, c)
                    ELSE s.buffer,
         previous_was_char |-> Printable(b),
         iscomment |-> i /\ b # "nl"]
  BY Zenon DEF Read
<1>5. s.buffer \in Seq(Char) /\ Append(s.buffer, c) \in Seq(Char)
      /\ Printable(b) \in BOOLEAN /\ s.iscomment \in BOOLEAN
  <2>1. s.buffer \in Seq(Char) /\ s.iscomment \in BOOLEAN
    BY <1>3 DEF Reader
  <2> HIDE DEF s, c
  <2> QED BY <1>1, <2>1 DEF Printable
<1> DEFINE o == Read(rd, b, n)
           x == IF Printable(b) /\ ~i THEN Append(s.buffer, c) ELSE s.buffer
           y == i /\ b # "nl"
           z == Printable(b)
<1>a. x \in Seq(Char) /\ y \in BOOLEAN /\ z \in BOOLEAN
  BY <1>5, Zenon
<1>b. o = [buffer |-> x, previous_was_char |-> z, iscomment |-> y]
  BY <1>4, Zenon
<1>c. o \in Reader /\ o.buffer = x /\ o.previous_was_char = z
      /\ o.iscomment = y
  <2> HIDE DEF o, x, y, z
  <2> QED BY <1>a, <1>b DEF Reader
<1>6. /\ o.buffer = IF Printable(b) /\ ~i THEN Append(s.buffer, c)
                    ELSE s.buffer
      /\ o.previous_was_char = Printable(b)
      /\ o.iscomment = (i /\ b # "nl")
  BY <1>c, Zenon
<1>7. o \in Reader
  BY <1>c
<1>8. Printable(b) => b # "nl"
  BY DEF Printable
<1> HIDE DEF o
<1>9. CASE rd.previous_was_char
  <2>1. s = rd
    BY <1>9 DEF Started
  <2> HIDE DEF s, c
  <2>2. /\ o.buffer = IF Printable(b) /\ ~rd.iscomment /\ b # ";"
                       THEN Append(rd.buffer, c) ELSE rd.buffer
        /\ Printable(b) => (o.iscomment <=> rd.iscomment \/ b = ";")
    BY <1>6, <1>8, <2>1, Zenon
  <2> QED BY <1>6, <1>7, <1>9, <2>2, Zenon DEF o, c
<1>10. CASE ~rd.previous_was_char
  <2>1. s.buffer = <<>> /\ s.iscomment = FALSE
    BY <1>10 DEF Started, Fresh
  <2> HIDE DEF s, c
  <2>2. /\ o.buffer = IF Printable(b) /\ b # ";" THEN Append(<<>>, c)
                      ELSE <<>>
        /\ Printable(b) => (o.iscomment <=> b = ";")
    BY <1>6, <1>8, <2>1, Zenon
  <2> QED BY <1>6, <1>7, <1>10, <2>2, Zenon DEF o, c
<1> QED BY <1>9, <1>10

(* Places so far and one more, in a text that goes on.                     *)
LEMMA TextGoesOn ==
  ASSUME NEW t, NEW n \in Nat, NEW s \in 1..n + 1, Begins(t, s, n),
         Printable(t[n + 1])
  PROVE  /\ Begins(t, s, n + 1)
         /\ Commented(t, s, n + 1) <=> Commented(t, s, n) \/ t[n + 1] = ";"
         /\ Uncommented(t, s, n + 1) =
              IF Commented(t, s, n) \/ t[n + 1] = ";"
                THEN Uncommented(t, s, n)
              ELSE Uncommented(t, s, n) \cup {n + 1}
<1>1. /\ s \in 1..n + 1 + 1 /\ n + 1 \in s..n + 1
      /\ \A k \in s..n + 1 : k \in s..n \/ k = n + 1
      /\ \A k \in s..n : k \in s..n + 1 /\ k # n + 1
  OBVIOUS
<1>2. Begins(t, s, n + 1)
  BY <1>1 DEF Begins
<1>3. Commented(t, s, n + 1) <=> Commented(t, s, n) \/ t[n + 1] = ";"
  BY <1>1 DEF Commented
<1>4. n + 1 \in Uncommented(t, s, n + 1) <=> ~Commented(t, s, n + 1)
  BY <1>1 DEF Uncommented, Commented
<1>5. \A k \in s..n :
        k \in Uncommented(t, s, n + 1) <=> k \in Uncommented(t, s, n)
  BY <1>1 DEF Uncommented
<1>6. /\ Uncommented(t, s, n + 1) \subseteq s..n + 1
      /\ Uncommented(t, s, n) \subseteq s..n
  BY DEF Uncommented
<1>7. CASE Commented(t, s, n + 1)
  <2>1. Uncommented(t, s, n + 1) = Uncommented(t, s, n)
    BY <1>1, <1>4, <1>5, <1>6, <1>7
  <2>2. Commented(t, s, n) \/ t[n + 1] = ";"
    BY <1>3, <1>7
  <2> QED BY <1>2, <1>3, <2>1, <2>2
<1>8. CASE ~Commented(t, s, n + 1)
  <2>1. Uncommented(t, s, n + 1) = Uncommented(t, s, n) \cup {n + 1}
    BY <1>1, <1>4, <1>5, <1>6, <1>8
  <2>2. ~ (Commented(t, s, n) \/ t[n + 1] = ";")
    BY <1>3, <1>8
  <2> QED BY <1>2, <1>3, <2>1, <2>2
<1> QED BY <1>7, <1>8

(* What the interpreter reads of a text is that text.                      *)
LEMMA ReadByBridge ==
  ASSUME NEW t, NEW r, NEW rd \in Reader, NEW n \in Nat,
         t[n + 1] \in Pieces, ReaderOk(t, r, rd, n)
  PROVE  ReaderOk(t, r, Read(rd, t[n + 1], n + 1), n + 1)
<1> DEFINE b == t[n + 1]
           c == [text |-> b, at |-> n + 1]
<1>1. PICK s \in 1..n + 1 :
        /\ Begins(t, s, n)
        /\ rd.previous_was_char => BufferOk(t, r, rd, s, n)
        /\ ~rd.previous_was_char => s = n + 1 \/ \E k \in s..n : r[k] # 0
  BY DEF ReaderOk
<1>a. PICK m \in Nat : m = n + 1
  OBVIOUS
<1>2. PICK o \in Reader : o = Read(rd, b, n + 1)
  BY <1>a, ReadIs
<1>3. /\ o.previous_was_char <=> Printable(b)
      /\ rd.previous_was_char =>
           /\ o.buffer = IF Printable(b) /\ ~rd.iscomment /\ b # ";"
                           THEN Append(rd.buffer, c) ELSE rd.buffer
           /\ Printable(b) => (o.iscomment <=> rd.iscomment \/ b = ";")
      /\ ~rd.previous_was_char =>
           /\ o.buffer = IF Printable(b) /\ b # ";" THEN Append(<<>>, c)
                         ELSE <<>>
           /\ Printable(b) => (o.iscomment <=> b = ";")
  BY <1>2, <1>a, ReadIs, ZenonT(30)
<1>4. /\ c \in Char /\ c.at = n + 1 /\ rd.buffer \in Seq(Char)
      /\ <<>> \in Seq(Char) /\ Places(<<>>) = {}
      /\ rd.previous_was_char \in BOOLEAN /\ rd.iscomment \in BOOLEAN
  BY DEF Char, Reader, Places
<1> HIDE DEF c
<1>5. Places(o.buffer) \subseteq Places(rd.buffer) \cup {n + 1}
  BY <1>3, <1>4, PlacesAppended
<1>6. Places(o.buffer) \subseteq 1..n + 1
  BY <1>5 DEF ReaderOk
<1>7. CASE ~Printable(b)
  <2>1. n + 2 \in 1..n + 1 + 1 /\ Begins(t, n + 2, n + 1)
    <3>1. n + 2 \in 1..n + 1 + 1 /\ n + 2 - 1 = n + 1 /\ (n + 2)..n + 1 = {}
      OBVIOUS
    <3> QED BY <1>7, <3>1 DEF Begins
  <2>a. ~o.previous_was_char
    BY <1>3, <1>7, Zenon
  <2>2. ~o.previous_was_char /\ n + 2 = n + 1 + 1
    BY <2>a
  <2> QED BY <1>2, <1>6, <2>1, <2>2 DEF ReaderOk
<1>8. CASE Printable(b)
  <2>0. s \in 1..n + 1 + 1 /\ s <= n + 1
    OBVIOUS
  <2>1. /\ Begins(t, s, n + 1) /\ s \in 1..n + 1 + 1 /\ s <= n + 1
        /\ Commented(t, s, n + 1) <=> Commented(t, s, n) \/ b = ";"
        /\ Uncommented(t, s, n + 1) =
              IF Commented(t, s, n) \/ b = ";" THEN Uncommented(t, s, n)
              ELSE Uncommented(t, s, n) \cup {n + 1}
    BY <1>1, <1>8, <2>0, TextGoesOn, Zenon
  <2>2. b # "nl" /\ \A k \in 1..n + 1 : k \in 1..n \/ k = n + 1
    BY <1>8 DEF Printable
  <2>3. BufferOk(t, r, o, s, n + 1)
    <3>1. CASE rd.previous_was_char
      <4>1. /\ o.buffer = IF ~rd.iscomment /\ b # ";"
                          THEN Append(rd.buffer, c)
                          ELSE rd.buffer
            /\ o.iscomment <=> rd.iscomment \/ b = ";"
            /\ BufferOk(t, r, rd, s, n)
        BY <1>1, <1>3, <1>8, <3>1
      <4>2. /\ Append(rd.buffer, c) # <<>>
            /\ Places(Append(rd.buffer, c)) = Places(rd.buffer) \cup {n + 1}
        BY <1>4, PlacesAppended
      <4>3. o.buffer # <<>> \/ o.iscomment
        BY <4>1, <4>2 DEF BufferOk
      <4>5. \/ o.buffer = <<>>
            \/ WebSince(r, s, Places(o.buffer), n + 1)
            \/ /\ s <= n + 1 /\ Places(o.buffer) = Uncommented(t, s, n + 1)
               /\ o.iscomment <=> Commented(t, s, n + 1)
        <5>1. CASE rd.buffer = <<>>
          <6>1. rd.iscomment
            BY <4>1, <5>1 DEF BufferOk
          <6> QED BY <4>1, <5>1, <6>1
        <5>2. CASE WebSince(r, s, Places(rd.buffer), n)
          <6>1. Places(rd.buffer) \subseteq Places(o.buffer)
            BY <4>1, <4>2
          <6>2. \A k \in 1..n : k \in 1..n + 1
            OBVIOUS
          <6> QED BY <5>2, <6>1, <6>2 DEF WebSince
        <5>3. CASE /\ Places(rd.buffer) = Uncommented(t, s, n)
                   /\ rd.iscomment <=> Commented(t, s, n)
          BY <2>1, <4>1, <4>2, <5>3
        <5> QED BY <4>1, <5>1, <5>2, <5>3 DEF BufferOk
      <4> QED BY <4>3, <4>5 DEF BufferOk
    <3>2. CASE ~rd.previous_was_char
      <4>1. /\ o.buffer = IF b # ";" THEN Append(<<>>, c) ELSE <<>>
            /\ o.iscomment <=> b = ";"
        BY <1>3, <1>8, <3>2
      <4>2. Append(<<>>, c) # <<>> /\ Places(Append(<<>>, c)) = {n + 1}
        BY <1>4, PlacesAppended
      <4>4. CASE s = n + 1
        <5>0. s..n = {}
          BY <4>4
        <5>1. /\ Uncommented(t, s, n) = {} /\ ~Commented(t, s, n)
          BY <5>0 DEF Uncommented, Commented
        <5>2. /\ Places(o.buffer) = Uncommented(t, s, n + 1)
              /\ o.iscomment <=> Commented(t, s, n + 1)
          BY <1>4, <2>1, <4>1, <4>2, <5>1
        <5> QED BY <2>1, <4>1, <4>2, <5>2 DEF BufferOk
      <4>5. CASE \E k \in s..n : r[k] # 0
        <5>1. \A k \in s..n : k \in 1..n + 1 /\ s <= k
          OBVIOUS
        <5>2. WebSince(r, s, Places(o.buffer), n + 1)
          BY <4>5, <5>1 DEF WebSince
        <5> QED BY <4>1, <4>2, <5>2 DEF BufferOk
      <4> QED BY <1>1, <3>2, <4>4, <4>5
    <3> QED BY <1>4, <3>1, <3>2
  <2> QED BY <1>2, <1>3, <1>6, <1>8, <2>1, <2>3 DEF ReaderOk
<1> QED BY <1>7, <1>8

(* A command that is found is the text that the newline ends.              *)
LEMMA FoundByBridge ==
  ASSUME NEW t, NEW r, NEW rd \in Reader, NEW n \in Nat,
         t[n + 1] \in Pieces, ReaderOk(t, r, rd, n),
         Found(Read(rd, t[n + 1], n + 1), t[n + 1]), r[n + 1] = 0
  PROVE  ExecutedOk(t, r, [text |-> Read(rd, t[n + 1], n + 1).buffer,
                           end |-> n + 1], n + 1)
<1> DEFINE x == rd.buffer
           P == Places(x)
<1>1. t[n + 1] = "nl" /\ ~Printable(t[n + 1])
  BY DEF Found, Printable
<1>2. Read(rd, t[n + 1], n + 1).buffer # <<>>
  <2>1. PICK y : y = Read(rd, t[n + 1], n + 1)
    OBVIOUS
  <2>2. DOMAIN <<>> = {} /\ \E j \in DOMAIN y.buffer : TRUE
    BY <2>1 DEF Found
  <2> QED BY <2>1, <2>2
<1>3. /\ Read(rd, t[n + 1], n + 1).buffer =
           IF rd.previous_was_char THEN x ELSE <<>>
      /\ rd.previous_was_char \in BOOLEAN /\ x \in Seq(Char)
  <2>1. PICK m \in Nat : m = n + 1
    OBVIOUS
  <2>2. ASSUME rd.previous_was_char
        PROVE  Read(rd, t[n + 1], n + 1).buffer = x
    <3> DEFINE b == t[n + 1]
    <3>1. Read(rd, b, m).buffer =
            IF Printable(b) /\ ~rd.iscomment /\ b # ";"
              THEN Append(rd.buffer, [text |-> b, at |-> m]) ELSE rd.buffer
      <4>1. b \in Pieces
        OBVIOUS
      <4> HIDE DEF b
      <4> QED BY <2>2, <4>1, ReadIs
    <3>2. Read(rd, b, m).buffer = rd.buffer
      BY <1>1, <3>1
    <3> QED BY <2>1, <3>2, Zenon
  <2>3. ~rd.previous_was_char =>
          Read(rd, t[n + 1], n + 1).buffer = <<>>
    BY <1>1, <2>1, ReadIs, Zenon
  <2>4. rd.previous_was_char \in BOOLEAN /\ x \in Seq(Char)
    BY DEF Reader
  <2> QED BY <2>2, <2>3, <2>4
<1>4. rd.previous_was_char /\ x # <<>> /\ Read(rd, t[n + 1], n + 1).buffer = x
  BY <1>2, <1>3
<1>5. PICK s \in 1..n + 1 : Begins(t, s, n) /\ BufferOk(t, r, rd, s, n)
  BY <1>4 DEF ReaderOk
<1>6. PICK e : e = n + 1
  OBVIOUS
<1>7. e \in 1..n + 1 /\ e - 1 = n /\ s \in 1..e /\ \A k \in 1..n : k \in 1..e
  BY <1>6
<1>8. P = Uncommented(t, s, n) \/ WebSince(r, s, P, e)
  <2>1. WebSince(r, s, P, n) => WebSince(r, s, P, e)
    BY <1>7 DEF WebSince
  <2> QED BY <1>4, <1>5, <2>1 DEF BufferOk
<1>9. PICK y : y = [text |-> x, end |-> e]
  OBVIOUS
<1>10. y.text = x /\ y.end = e
  BY <1>9
<1>11. FoundAt(t, r, y, s)
  BY <1>5, <1>7, <1>8, <1>10 DEF FoundAt
<1>12. ExecutedOk(t, r, y, n + 1)
  BY <1>6, <1>7, <1>10, <1>11 DEF ExecutedOk
<1> QED BY <1>4, <1>6, <1>9, <1>12

(* The interpreter, or what it last executed, after n pieces.              *)
Keeps(t, r, a, n) ==
  /\ a.reader \in Reader /\ a.cmd \in Looks
  /\ ReaderOk(t, r, a.reader, n) /\ ExecutedOk(t, r, a.cmd, n)

(* One turn keeps both as they should be.                                  *)
LEMMA TurnKeeps ==
  ASSUME NEW t, NEW r, NEW a, NEW n \in Nat, NEW b \in Pieces,
         t[n + 1] = b, r[n + 1] = 0, Keeps(t, r, a, n), NEW rd,
         rd = Read(a.reader, b, n + 1), NEW x,
         x = IF Found(rd, b) THEN [text |-> rd.buffer, end |-> n + 1]
             ELSE a.cmd
  PROVE  Keeps(t, r, [reader |-> rd, cmd |-> x], n + 1)
<1>1. PICK m \in Nat : m = n + 1
  OBVIOUS
<1>2. a.reader \in Reader /\ a.cmd \in Looks
  BY DEF Keeps
<1>3. rd \in Reader
  BY <1>1, <1>2, ReadIs, Zenon
<1>4. ReaderOk(t, r, rd, n + 1)
  BY <1>2, ReadByBridge, Zenon DEF Keeps
<1>5. x \in Looks /\ ExecutedOk(t, r, x, n + 1)
  <2>1. CASE Found(rd, b)
    <3>1. x = [text |-> rd.buffer, end |-> n + 1]
      BY <2>1
    <3>2. ExecutedOk(t, r, x, n + 1)
      BY <1>2, <2>1, <3>1, FoundByBridge, Zenon DEF Keeps
    <3>3. rd.buffer \in Seq(Char)
      BY <1>3 DEF Reader
    <3>4. x \in Looks
      BY <1>1, <3>1, <3>3 DEF Looks
    <3> QED BY <3>2, <3>4
  <2>2. CASE ~Found(rd, b)
    <3>1. n + 1 \in Nat /\ n + 1 >= n
          /\ \A k \in 1..n : t[k] = t[k] /\ r[k] = r[k]
      OBVIOUS
    <3>2. x = a.cmd /\ ExecutedOk(t, r, x, n)
      BY <2>2 DEF Keeps
    <3>3. ExecutedOk(t, r, x, n + 1)
      BY <3>1, <3>2, ReaderFrame
    <3> QED BY <1>2, <3>2, <3>3
  <2> QED BY <2>1, <2>2
<1>6. PICK o : o = [reader |-> rd, cmd |-> x]
  OBVIOUS
<1>7. o.reader = rd /\ o.cmd = x
  BY <1>6
<1>8. Keeps(t, r, o, n + 1)
  BY <1>3, <1>4, <1>5, <1>7, Zenon DEF Keeps
<1> QED BY <1>6, <1>8

(* The invariant: the interpreter is as it should be after the pieces that *)
(* have been read.                                                         *)
LineInv == Keeps(sent, by, Begun, Len(by))

(* The printer sends nothing but pieces.                                   *)
LEMMA PiecesSent ==
  ASSUME Bounds
  PROVE  \A k \in 1..Len(sent) : sent[k] \in Pieces
<1>1. load.pieces \in SUBSET Pieces
  <2>1. load \in [repetier : BOOLEAN, pieces : SUBSET Pieces, sent : Nat,
                  clients : SUBSET Clients, typed : Nat, requests : Nat]
    BY Zenon, PrinterLineAssumption DEF Bounds
  <2> QED BY <2>1
<1>2. sent \in Seq(load.pieces)
  BY DEF Bounds
<1> QED BY <1>1, <1>2

(* The bridge reads all that has come.                                     *)
LEMMA BridgeKeeps ==
  ASSUME Bounds, LineInv, FromSerial, UNCHANGED sent
  PROVE  LineInv'
<1>1. PICK f : /\ f[Len(by)] = Begun /\ Interpreted = f[Len(sent)]
               /\ \A k \in Len(by) + 1..Len(sent) : f[k] = Turn(f[k - 1], k)
  BY InterpretedIs
<1>a. PICK r, t : r = by' /\ t = sent
  OBVIOUS
<1>b. PICK b \in Nat : b = Len(by)
  BY DEF Bounds
<1>c. PICK n \in Nat : b + n = Len(sent)
  <2>1. Len(sent) - b \in Nat /\ b + (Len(sent) - b) = Len(sent)
    BY <1>b DEF Bounds
  <2> QED BY <2>1
<1>2. r = by' /\ t = sent /\ b = Len(by) /\ b + n = Len(sent)
  BY <1>a, <1>b, <1>c
<1>3. /\ Len(by') = b + n /\ \A k \in 1..b : r[k] = by[k]
      /\ \A k \in 1..b + n : t[k] \in Pieces
      /\ \A k \in b + 1..b + n : r[k] = 0
  <2>1. \A k \in 1..b : k \in 1..Len(sent) /\ k <= Len(by)
    BY <1>2
  <2>2. /\ Len(by') = Len(sent)
        /\ \A k \in 1..Len(sent) :
              by'[k] = IF k <= Len(by) THEN by[k] ELSE 0
    BY Taken DEF FromSerial
  <2>3. \A k \in b + 1..b + n : k \in 1..Len(sent) /\ ~ (k <= Len(by))
    BY <1>2
  <2> QED BY <1>2, <2>1, <2>2, <2>3, PiecesSent
<1> DEFINE S == {m \in Nat : m <= n => Keeps(t, r, f[b + m], b + m)}
<1>4. 0 \in S
  <2>1. Keeps(t, by, Begun, b)
    BY <1>2 DEF LineInv
  <2>2. \A k \in 1..b : t[k] = t[k] /\ by[k] = r[k]
    BY <1>3
  <2>3. b >= b
    OBVIOUS
  <2>4. Keeps(t, r, Begun, b)
    BY <2>1, <2>2, <2>3, ReaderFrame DEF Keeps
  <2> QED BY <1>1, <1>2, <2>4
<1>5. ASSUME NEW m \in Nat, m \in S PROVE m + 1 \in S
  <2> SUFFICES ASSUME m + 1 <= n
               PROVE  Keeps(t, r, f[b + (m + 1)], b + (m + 1))
    OBVIOUS
  <2>1. PICK k \in Nat : k = b + m
    OBVIOUS
  <2>2. k + 1 = b + (m + 1) /\ k + 1 \in 1..b + n /\ k + 1 - 1 = k
        /\ k + 1 \in b + 1..b + n
    BY <2>1
  <2>3. Keeps(t, r, f[k], k)
    BY <1>5, <2>1
  <2>4. PICK p \in Pieces : p = t[k + 1]
    BY <1>3, <2>2
  <2>5. f[k + 1] = Turn(f[k], k + 1)
    BY <1>1, <1>2, <2>2
  <2>6. PICK rd : rd = Read(f[k].reader, p, k + 1)
    OBVIOUS
  <2>a. PICK x : x = IF Found(rd, p) THEN [text |-> rd.buffer, end |-> k + 1]
                     ELSE f[k].cmd
    OBVIOUS
  <2>7. f[k + 1] = [reader |-> rd, cmd |-> x]
    BY <1>2, <2>4, <2>5, <2>6, <2>a, Zenon DEF Turn
  <2>b. r[k + 1] = 0
    BY <1>3, <2>2
  <2>8. Keeps(t, r, f[k + 1], k + 1)
    BY <2>3, <2>4, <2>6, <2>7, <2>a, <2>b, TurnKeeps
  <2> QED BY <2>2, <2>8
<1> HIDE DEF S
<1>6. Nat \subseteq S
  BY <1>4, <1>5, SetInduction
<1>7. Keeps(t, r, f[b + n], b + n)
  <2>1. n \in S
    BY <1>6
  <2> QED BY <2>1 DEF S
<1>8. Begun' = [reader |-> Interpreted.reader, cmd |-> Interpreted.cmd]
  BY DEF Begun, FromSerial
<1>9. Keeps(t, r, Begun', b + n)
  <2>1. PICK o : o = f[b + n]
    OBVIOUS
  <2>2. Interpreted = o
    BY <1>1, <1>2, <2>1
  <2>3. PICK x, y : x = o.reader /\ y = o.cmd
    OBVIOUS
  <2>4. PICK g : g = [reader |-> x, cmd |-> y]
    OBVIOUS
  <2>5. g.reader = x /\ g.cmd = y
    BY <2>4
  <2>6. Begun' = g
    BY <1>8, <2>2, <2>3, <2>4, Zenon
  <2>7. Keeps(t, r, g, b + n)
    BY <1>7, <2>1, <2>3, <2>5, Zenon DEF Keeps
  <2> QED BY <2>6, <2>7
<1> QED BY <1>2, <1>3, <1>9 DEF LineInv

-----------------------------------------------------------------------------
(* What a web command collects.  The pieces it has read are those after    *)
(* place b; those up to place o were passed on, which is the end of a      *)
(* line, and those after it are in hand.                                   *)

(* As Withheld(), of the pieces t that r have read.                        *)
Held(t, r, repetier, k) ==
  /\ repetier
  /\ \E j \in DOMAIN r :
       /\ j <= k /\ r[j] = r[k] /\ t[j] = "ok"
       /\ \A i \in j..(k - 1) : t[i] # "nl"
       /\ j > 1 => t[j - 1] = "nl" \/ r[j - 1] # r[j]

Collecting(b, o) ==
  /\ b <= o /\ o <= Len(by)
  /\ \A k \in 1..Len(by) : by[k] = requests <=> k > b
  /\ o > b => sent[o] = "nl"
  /\ Len(current_buffer) = Len(by) - o
  /\ \A i \in 1..Len(by) - o : current_buffer[i] = o + i
  /\ told \subseteq b + 1..o
  /\ \A k \in b + 1..o : k \in told \/ Held(sent, by, load.repetier, k)

AnswerInv ==
  /\ \A k \in 1..Len(by) : by[k] <= requests
  /\ pc \in {"purge", "command"} =>
       told = {} /\ \A k \in 1..Len(by) : by[k] < requests
  /\ pc = "read" => \E b, o \in Nat : Collecting(b, o)

(* What comes later changes nothing for a piece that was read.             *)
LEMMA HeldStays ==
  ASSUME NEW t, NEW u, NEW r \in Seq(Nat), NEW q \in Seq(Nat), NEW c,
         Len(r) <= Len(q), \A k \in 1..Len(r) : t[k] = u[k] /\ r[k] = q[k],
         NEW k \in 1..Len(r), Held(t, r, c, k)
  PROVE  Held(u, q, c, k)
<1>1. PICK j \in DOMAIN r :
         /\ j <= k /\ r[j] = r[k] /\ t[j] = "ok"
         /\ \A i \in j..(k - 1) : t[i] # "nl"
         /\ j > 1 => t[j - 1] = "nl" \/ r[j - 1] # r[j]
  BY DEF Held
<1>2. /\ j \in 1..Len(r) /\ j \in DOMAIN q
      /\ \A i \in j..(k - 1) : i \in 1..Len(r)
      /\ j > 1 => j - 1 \in 1..Len(r)
  OBVIOUS
<1> QED BY <1>1, <1>2 DEF Held

(* The places h are those after o, as far as the printer has sent.         *)
Run(h, o) ==
  /\ h \in Seq(Nat) /\ o + Len(h) = Len(sent)
  /\ \A i \in 1..Len(h) : h[i] = o + i

(* Of all that was sent, q has read what follows place b, and has passed   *)
(* on whole lines as far as place o.                                       *)
Follows(r, q, b, o) ==
  /\ b <= o /\ Len(r) = Len(sent)
  /\ \A k \in 1..Len(sent) : r[k] = q <=> k > b
  /\ o > b => sent[o] = "nl"

(* The pieces in hand, with those that have come, are consecutive.         *)
LEMMA HandFollows ==
  ASSUME Bounds, AckInv, NEW b \in Nat, NEW o \in Nat, Collecting(b, o)
  PROVE  Run(Hand, o)
<1> DEFINE n == Len(sent) - Len(by)
           t == Come
           h == Hand
<1>1. n \in Nat /\ Len(by) \in Nat /\ Len(sent) \in Nat
      /\ n + Len(by) = Len(sent)
  BY DEF Bounds
<1>2. t \in Seq(Nat) /\ Len(t) = n /\ \A i \in 1..n : t[i] = Len(by) + i
  BY <1>1 DEF Come
<1>3. current_buffer \in Seq(Nat) /\ h = current_buffer \o t
  BY DEF Hand, AckInv
<1> HIDE DEF n, t, h
<1>4. /\ h \in Seq(Nat) /\ Len(h) = Len(current_buffer) + Len(t)
      /\ \A i \in 1..Len(current_buffer) + Len(t) :
           h[i] = IF i <= Len(current_buffer) THEN current_buffer[i]
                  ELSE t[i - Len(current_buffer)]
  BY <1>2, <1>3, ConcatProperties
<1>5. PICK l \in Nat : l = Len(current_buffer)
  BY <1>3
<1>6. l = Len(by) - o /\ \A i \in 1..l : current_buffer[i] = o + i
  BY <1>5 DEF Collecting
<1>7. o + Len(h) = Len(sent)
  BY <1>1, <1>2, <1>4, <1>5, <1>6
<1>8. \A i \in 1..l + n :
        h[i] = IF i <= l THEN current_buffer[i] ELSE t[i - l]
  BY <1>2, <1>4, <1>5
<1>9. ASSUME NEW i \in 1..l + n PROVE h[i] = o + i
  <2>1. CASE i <= l
    <3>1. i \in 1..l /\ h[i] = current_buffer[i]
      BY <1>1, <1>8, <2>1
    <3> QED BY <1>6, <3>1
  <2>2. CASE ~ (i <= l)
    <3>1. i - l \in 1..n /\ Len(by) + (i - l) = o + i
      BY <1>1, <1>5, <1>6, <2>2
    <3>2. h[i] = t[i - l]
      BY <1>8, <2>2
    <3> QED BY <1>2, <3>1, <3>2
  <2> QED BY <2>1, <2>2
<1> QED BY <1>2, <1>4, <1>5, <1>7, <1>9 DEF h, Run

(* Of these, the line that begins at the s-th and ends at the e-th.        *)
LineAt(h, o, s, e) ==
  /\ Begin(h, e) = s
  /\ \A i \in s..e - 1 : sent[o + i] # "nl"
  /\ s > 1 => sent[o + s - 1] = "nl"
  /\ Line(h, e) \in Seq(Char)
  /\ Places(Line(h, e)) = (o + s)..(o + e - 1)
  /\ Hidden(Line(h, e)) => load.repetier /\ s < e /\ sent[o + s] = "ok"

LEMMA LineIs ==
  ASSUME Bounds, NEW o \in Nat, NEW h, Run(h, o), NEW e \in Ends(h)
  PROVE  \E s \in 1..e : LineAt(h, o, s, e)
<1>0. /\ h \in Seq(Nat) /\ o + Len(h) = Len(sent)
      /\ \A i \in 1..Len(h) : h[i] = o + i
  BY DEF Run
<1>1. e \in 1..Len(h) /\ sent[o + e] = "nl" /\ DOMAIN h = 1..Len(h)
      /\ Len(h) \in Nat
  BY <1>0 DEF Ends
<1>2. \A i \in 1..Len(h) : i \in Ends(h) <=> sent[o + i] = "nl"
  BY <1>0, <1>1 DEF Ends
<1> DEFINE before == {k \in Ends(h) : k < e}
<1>3. before \in SUBSET Nat /\ \A k \in before : k <= e
  BY <1>1 DEF Ends
<1>4. PICK s \in 1..e : /\ Begin(h, e) = s
                        /\ \A k \in before : k < s
                        /\ s > 1 => s - 1 \in before
  <2>1. CASE before = {}
    <3>1. Begin(h, e) = 1
      BY <2>1, Zenon DEF Begin
    <3> QED BY <1>1, <2>1, <3>1
  <2>2. CASE before # {}
    <3>0. PICK d \in Nat : d = e
      BY <1>1
    <3>1. Max(before) \in before /\ \A k \in before : k <= Max(before)
      <4>1. before \in SUBSET Nat /\ \A k \in before : k <= d
        BY <1>3, <3>0
      <4> HIDE DEF before
      <4> QED BY <2>2, <4>1, Greatest
    <3>2. Begin(h, e) = Max(before) + 1
      BY <2>2, Zenon DEF Begin
    <3>3. PICK m : m = Max(before)
      OBVIOUS
    <3>4. m \in Nat /\ m < e
      BY <1>3, <3>1, <3>3
    <3> HIDE DEF before
    <3>5. \A k \in before : k \in Nat /\ k < m + 1
      BY <1>3, <3>1, <3>3, <3>4
    <3>6. m + 1 \in 1..e /\ m + 1 - 1 = m
      BY <1>1, <3>4
    <3> QED BY <3>1, <3>2, <3>3, <3>5, <3>6
  <2> QED BY <2>1, <2>2
<1>5. \A i \in s..e - 1 : sent[o + i] # "nl"
  <2> TAKE i \in s..e - 1
  <2>1. i \in 1..Len(h) /\ i < e /\ ~ (i < s)
    BY <1>1
  <2> QED BY <1>2, <1>4, <2>1
<1>6. s > 1 => sent[o + s - 1] = "nl"
  <2> SUFFICES ASSUME s > 1 PROVE sent[o + s - 1] = "nl"
    OBVIOUS
  <2>1. s - 1 \in Ends(h) /\ s - 1 \in 1..Len(h)
    BY <1>1, <1>4
  <2>2. o + (s - 1) = o + s - 1
    BY <1>1
  <2> QED BY <1>2, <2>1, <2>2
<1> HIDE DEF before
<1> DEFINE p == SubSeq(h, s, e - 1)
           c(i) == [text |-> sent[p[i]], at |-> p[i]]
           l == [i \in DOMAIN p |-> c(i)]
<1>7. Line(h, e) = l
  BY <1>4, Zenon DEF Line
<1>8. /\ p \in Seq(Nat) /\ Len(p) = e - s
      /\ \A i \in 1..e - s : p[i] = o + (s + i - 1)
  <2>1. PICK y : y = p
    OBVIOUS
  <2>2. PICK n \in Nat : n = Len(h)
    BY <1>1
  <2>3. e - 1 \in s - 1..n /\ s \in 1..n + 1
    BY <1>1, <2>2
  <2>4. /\ y \in Seq(Nat)
        /\ Len(y) = IF s <= e - 1 THEN e - 1 - s + 1 ELSE 0
        /\ \A i \in 1..Len(y) : y[i] = h[s + i - 1]
    BY <1>0, <2>1, <2>2, <2>3, SubSeqProperties, SMTT(30)
  <2>5. Len(y) = e - s
    <3>1. PICK m : m = Len(y)
      OBVIOUS
    <3>2. m = IF s <= e - 1 THEN e - 1 - s + 1 ELSE 0
      BY <2>4, <3>1, Zenon
    <3>3. m = e - s
      BY <1>1, <3>2
    <3> QED BY <3>1, <3>3
  <2>6. \A i \in 1..e - s : s + i - 1 \in 1..Len(h)
    BY <1>1
  <2> QED BY <1>0, <2>1, <2>4, <2>5, <2>6
<1> HIDE DEF p
<1>9. DOMAIN p = 1..e - s /\ e - s \in Nat
  BY <1>1, <1>8
<1>10. ASSUME NEW i \in 1..e - s
       PROVE  /\ c(i) \in Char /\ c(i).at = o + (s + i - 1)
              /\ c(i).text = sent[o + (s + i - 1)]
  <2>1. PICK k : k = o + (s + i - 1)
    OBVIOUS
  <2>2. k \in 1..Len(sent) /\ k \in Nat
    BY <1>0, <1>1, <2>1
  <2>3. sent[k] \in Pieces
    BY <2>2, PiecesSent
  <2>4. PICK x : x = [text |-> sent[k], at |-> k]
    OBVIOUS
  <2>5. x \in Char /\ x.at = k /\ x.text = sent[k]
    BY <2>2, <2>3, <2>4 DEF Char
  <2>6. c(i) = x
    BY <1>8, <2>1, <2>4
  <2> HIDE DEF c
  <2> QED BY <2>1, <2>5, <2>6
<1> HIDE DEF c
<1>11. DOMAIN l = 1..e - s /\ \A i \in 1..e - s : l[i] = c(i)
  BY <1>9
<1>12. l \in Seq(Char)
  <2>1. l \in [1..e - s -> Char]
    BY <1>9, <1>10
  <2> HIDE DEF l
  <2> QED BY <1>9, <2>1
<1> HIDE DEF l
<1>13. Places(l) = (o + s)..(o + e - 1)
  <2>1. Places(l) \subseteq (o + s)..(o + e - 1)
    <3>1. \A i \in 1..e - s : o + (s + i - 1) \in (o + s)..(o + e - 1)
      BY <1>1
    <3> QED BY <1>10, <1>11, <3>1 DEF Places
  <2>2. ASSUME NEW k \in (o + s)..(o + e - 1) PROVE k \in Places(l)
    <3>1. k - o - s + 1 \in 1..e - s
          /\ o + (s + (k - o - s + 1) - 1) = k
      BY <1>1
    <3> QED BY <1>10, <1>11, <3>1 DEF Places
  <2> QED BY <2>1, <2>2
<1>14. ASSUME Hidden(l) PROVE load.repetier /\ s < e /\ sent[o + s] = "ok"
  <2>1. load.repetier /\ \E i \in 1..e - s : i = 1 /\ l[i].text = "ok"
    BY <1>11, <1>14 DEF Hidden
  <2>2. 1 \in 1..e - s /\ l[1].text = "ok"
    BY <2>1
  <2>3. s < e /\ o + (s + 1 - 1) = o + s
    BY <1>1, <2>2
  <2> QED BY <1>10, <1>11, <2>1, <2>2, <2>3
<1> QED BY <1>4, <1>5, <1>6, <1>7, <1>12, <1>13, <1>14, Zenon DEF LineAt

(* Where a line begins is found by looking back for a newline.             *)
LEMMA LineBeginsOnce ==
  ASSUME NEW t, NEW n \in Nat
  PROVE  /\ \E s \in 1..n + 1 : LineBegins(t, s, n)
         /\ \A s : LineBegins(t, s, n) =>
              Max({0} \cup {k \in 1..n : t[k] = "nl"}) + 1 = s
<1> DEFINE S == {0} \cup {k \in 1..n : t[k] = "nl"}
           m == Max(S)
<1>1. m \in S /\ \A k \in S : k <= m
  <2>1. S \in SUBSET Nat /\ S # {} /\ \A k \in S : k <= n
    OBVIOUS
  <2> QED BY <2>1, Greatest
<1> HIDE DEF m
<1>2. m \in Nat /\ m <= n /\ m + 1 \in 1..n + 1 /\ m + 1 - 1 = m
  BY <1>1
<1>3. LineBegins(t, m + 1, n)
  <2>1. ASSUME NEW k \in m + 1..n PROVE t[k] # "nl"
    <3>1. k \in 1..n /\ ~ (k <= m)
      BY <1>2
    <3> QED BY <1>1, <3>1
  <2>2. m + 1 > 1 => t[m + 1 - 1] = "nl"
    BY <1>1, <1>2
  <2> QED BY <1>2, <2>1, <2>2 DEF LineBegins
<1>4. ASSUME NEW s, LineBegins(t, s, n) PROVE m + 1 = s
  <2>1. /\ s \in 1..n + 1 /\ \A k \in s..n : t[k] # "nl"
        /\ s > 1 => t[s - 1] = "nl"
    BY <1>4 DEF LineBegins
  <2>2. ~ (m >= s)
    <3> SUFFICES ASSUME m >= s PROVE FALSE
      OBVIOUS
    <3>1. m \in s..n /\ m # 0
      BY <1>2, <2>1
    <3> QED BY <1>1, <2>1, <3>1
  <2>3. s - 1 <= m
    <3>1. CASE s > 1
      <4>1. s - 1 \in S
        BY <2>1, <3>1
      <4> QED BY <1>1, <4>1
    <3>2. CASE ~ (s > 1)
      BY <1>2, <2>1, <3>2
    <3> QED BY <3>1, <3>2
  <2> QED BY <1>2, <2>1, <2>2, <2>3
<1> QED BY <1>2, <1>3, <1>4 DEF m

(* Of consecutive pieces after place o, read by a web command: the text    *)
(* that was looked at last is a line as it was collected.                  *)
LEMMA CheckedIs ==
  ASSUME Bounds, NEW o \in Nat, NEW h, Run(h, o), NEW r,
         NEW q \in Nat \ {0}, NEW b \in Nat, Follows(r, q, b, o),
         Checked(h) # executed
  PROVE  Checked(h) \in Looks /\ ExecutedOk(sent, r, Checked(h), Len(sent))
<1> DEFINE looked == {e \in Looked(h) :
                        Line(h, e) # <<>> /\ ~Skipped(Line(h, e))}
<1>0. /\ b <= o
      /\ \A k \in 1..Len(sent) : r[k] = q <=> k > b
      /\ o > b => sent[o] = "nl"
  BY DEF Follows
<1>1. /\ looked # {}
      /\ Checked(h) = [text |-> Line(h, Max(looked)),
                       end |-> h[Max(looked)]]
  <2>1. Checked(h) = IF looked = {} THEN executed
                     ELSE [text |-> Line(h, Max(looked)),
                           end |-> h[Max(looked)]]
    BY Zenon DEF Checked
  <2> HIDE DEF looked
  <2> QED BY <2>1
<1>2. PICK n \in Nat : /\ n = Len(h) /\ DOMAIN h = 1..n /\ o + n = Len(sent)
                       /\ \A i \in 1..n : h[i] = o + i
  BY DEF Run
<1>3. looked \subseteq Ends(h) /\ Ends(h) \subseteq 1..n
  BY <1>2 DEF Looked, Ends
<1> HIDE DEF looked
<1>4. PICK m \in Ends(h) : m = Max(looked)
  <2>1. looked \in SUBSET Nat /\ \A k \in looked : k <= n
    BY <1>3
  <2>2. Max(looked) \in looked
    BY <1>1, <2>1, Greatest
  <2> QED BY <1>3, <2>2
<1>5. PICK s \in 1..m :
        /\ \A i \in s..m - 1 : sent[o + i] # "nl"
        /\ s > 1 => sent[o + s - 1] = "nl"
        /\ Line(h, m) \in Seq(Char)
        /\ Places(Line(h, m)) = (o + s)..(o + m - 1)
  <2>1. PICK s \in 1..m : LineAt(h, o, s, m)
    BY LineIs
  <2> QED BY <2>1, Zenon DEF LineAt
<1>6. m \in 1..n /\ h[m] = o + m
  BY <1>2, <1>3
<1>7. PICK e \in Nat : e = o + m
  BY <1>6
<1>8. PICK x : x = Checked(h)
  OBVIOUS
<1>9. x \in Looks /\ x.text = Line(h, m) /\ x.end = e
  <2>1. PICK l \in Seq(Char) : l = Line(h, m)
    BY <1>5
  <2>2. x = [text |-> l, end |-> e]
    BY <1>1, <1>4, <1>6, <1>7, <1>8, <2>1
  <2> QED BY <2>1, <2>2 DEF Looks
<1>10. /\ e \in 1..Len(sent) /\ e > b /\ r[e] = q
       /\ \A k \in 1..e : r[k] = q <=> k > b
  <2>1. e \in 1..Len(sent) /\ e > b /\ \A k \in 1..e : k \in 1..Len(sent)
    BY <1>0, <1>2, <1>6, <1>7
  <2> QED BY <1>0, <2>1
<1>11. \A k \in o + s..e - 1 : sent[k] # "nl"
  <2> TAKE k \in o + s..e - 1
  <2>1. k - o \in s..m - 1 /\ o + (k - o) = k
    BY <1>6, <1>7
  <2> QED BY <1>5, <2>1
<1>12. \E u \in 1..e : CollectedAt(sent, r, x, u)
  <2>1. CASE s > 1 \/ o > b
    <3>1. o + s \in 1..e - 1 + 1 /\ o + s \in 1..e
      BY <1>6, <1>7
    <3>2. o + s > 1 => sent[o + s - 1] = "nl"
      <4>1. CASE s > 1
        BY <1>5, <4>1
      <4>2. CASE ~ (s > 1) /\ o > b
        <5>1. o + s - 1 = o
          BY <1>6, <4>2
        <5> QED BY <1>0, <4>2, <5>1
      <4> QED BY <2>1, <4>1, <4>2
    <3>3. LineBegins(sent, o + s, e - 1)
      BY <1>11, <3>1, <3>2 DEF LineBegins
    <3>4. \A k \in o + s..e - 1 : k \in 1..e /\ k > b
      BY <1>0, <1>6, <1>7
    <3>5. {k \in o + s..e - 1 : r[k] = r[e]} = o + s..e - 1
      BY <1>10, <3>4
    <3>6. o + m - 1 = e - 1
      BY <1>6, <1>7
    <3> QED BY <1>5, <1>9, <3>1, <3>3, <3>5, <3>6 DEF CollectedAt
  <2>2. CASE s = 1 /\ o = b
    <3>1. PICK d \in Nat : d + 1 = e
      BY <1>6, <1>7
    <3>2. PICK u \in 1..d + 1 : LineBegins(sent, u, d)
      BY LineBeginsOnce
    <3>3. u <= o + 1
      <4> SUFFICES ASSUME u > o + 1 PROVE FALSE
        BY <3>1
      <4>1. u - 1 \in o + s..e - 1 /\ u > 1
        BY <2>2, <3>1
      <4> QED BY <1>11, <3>2, <4>1 DEF LineBegins
    <3>4. d = e - 1 /\ u \in 1..e /\ o + m - 1 = d
      BY <1>6, <1>7, <3>1
    <3>5. {k \in u..d : r[k] = r[e]} = o + s..d
      <4>1. \A k \in u..d : k \in 1..e
        BY <3>4
      <4>2. \A k \in o + s..d : k \in u..d /\ k > b
        BY <2>2, <3>3, <3>4
      <4>3. \A k \in u..d : k > b => k \in o + s..d
        BY <2>2, <3>4
      <4> QED BY <1>10, <4>1, <4>2, <4>3
    <3> QED BY <1>5, <1>9, <3>2, <3>4, <3>5 DEF CollectedAt
  <2>3. s = 1 \/ s > 1
    BY <1>6
  <2> QED BY <1>0, <1>6, <2>1, <2>2, <2>3
<1>13. ExecutedOk(sent, r, x, Len(sent))
  BY <1>9, <1>10, <1>12 DEF ExecutedOk
<1> QED BY <1>8, <1>9, <1>13

(* Pieces after place o and up to u have reached the browser, but for      *)
(* those that are held back.                                               *)
Reached(h, r, o, u) ==
  /\ sent[u] = "nl" /\ Given(h) \subseteq o + 1..u
  /\ \A k \in o + 1..u :
       k \in Given(h) \/ Held(sent, r, load.repetier, k)

(* And the lines that were passed on have reached the browser, but for     *)
(* those that are held back.                                               *)
LEMMA GivenIs ==
  ASSUME Bounds, NEW o \in Nat, NEW h, Run(h, o), NEW r \in Seq(Nat),
         NEW q, NEW b \in Nat, Follows(r, q, b, o), NEW m \in Passed(h),
         \A k \in Passed(h) : k <= m
  PROVE  Reached(h, r, o, o + m)
<1>0. /\ b <= o /\ Len(r) = Len(sent)
      /\ \A k \in 1..Len(sent) : r[k] = q <=> k > b
      /\ o > b => sent[o] = "nl"
  BY DEF Follows
<1>1. PICK n \in Nat : /\ n = Len(h) /\ DOMAIN h = 1..n /\ o + n = Len(sent)
                       /\ \A i \in 1..n : h[i] = o + i
  BY DEF Run
<1>2. /\ Ends(h) \subseteq 1..n /\ Passed(h) \subseteq Ends(h)
      /\ \A e \in 1..n : e \in Ends(h) <=> sent[o + e] = "nl"
  BY <1>1 DEF Passed, Ends
<1>3. m \in 1..n /\ sent[o + m] = "nl"
  BY <1>2
<1>4. ASSUME NEW e \in Ends(h), e <= m PROVE e \in Passed(h)
  <2>1. e \in Nat /\ m \in Nat
    BY <1>2, <1>3
  <2>2. ASSUME NEW k \in Stops(h) PROVE e < k
    <3>1. m < k /\ k \in Nat
      BY <1>2, <2>2 DEF Passed, Stops
    <3> QED BY <1>4, <2>1, <3>1
  <2> QED BY <2>2 DEF Passed
<1>5. Given(h) \subseteq o + 1..o + m
  <2> SUFFICES ASSUME NEW k \in Given(h) PROVE k \in o + 1..o + m
    OBVIOUS
  <2>1. PICK e \in Passed(h) : k \in {h[i] : i \in Begin(h, e)..e}
    BY DEF Given
  <2>2. e \in Ends(h) /\ e <= m /\ e \in 1..n
    BY <1>2
  <2>3. Begin(h, e) \in 1..e
    <3>1. PICK s \in 1..e : LineAt(h, o, s, e)
      BY <2>2, LineIs
    <3> QED BY <3>1 DEF LineAt
  <2>4. PICK i \in Begin(h, e)..e : k = h[i]
    BY <2>1
  <2>5. i \in 1..n /\ i <= m
    BY <1>3, <2>2, <2>3
  <2> QED BY <1>1, <1>3, <2>4, <2>5
<1>6. ASSUME NEW k \in o + 1..o + m
      PROVE  k \in Given(h) \/ Held(sent, r, load.repetier, k)
  <2>1. PICK i \in 1..m : k = o + i
    <3>1. k - o \in 1..m /\ k = o + (k - o)
      BY <1>3
    <3> QED BY <3>1
  <2> DEFINE S == {e \in Ends(h) : e >= i}
  <2>2. S \in SUBSET Nat /\ m \in S
    BY <1>2, <1>3
  <2>3. PICK e \in S : \A y \in S : e <= y
    BY <2>2, Least
  <2>4. e \in Ends(h) /\ e \in 1..n /\ i <= e /\ e <= m
    BY <1>2, <2>2, <2>3
  <2>5. e \in Passed(h)
    BY <1>4, <2>4
  <2>6. PICK s \in 1..e :
          /\ Begin(h, e) = s
          /\ \A j \in s..e - 1 : sent[o + j] # "nl"
          /\ s > 1 => sent[o + s - 1] = "nl"
          /\ Hidden(Line(h, e)) =>
               load.repetier /\ s < e /\ sent[o + s] = "ok"
    <3>1. PICK s \in 1..e : LineAt(h, o, s, e)
      BY <2>4, LineIs
    <3> QED BY <3>1, Zenon DEF LineAt
  <2>7. s <= i
    <3> SUFFICES ASSUME s > i PROVE FALSE
      BY <2>4
    <3>1. s > 1 /\ s - 1 \in 1..n /\ s - 1 >= i /\ s - 1 < e
      BY <2>4
    <3>2. o + (s - 1) = o + s - 1
      BY <2>4
    <3>3. s - 1 \in S
      BY <1>2, <2>6, <3>1, <3>2
    <3> QED BY <2>3, <2>4, <3>1, <3>3
  <2> HIDE DEF S
  <2>8. CASE ~Hidden(Line(h, e))
    <3>1. i \in Begin(h, e)..e /\ k = h[i]
      BY <1>1, <2>1, <2>4, <2>6, <2>7
    <3>2. e \in {x \in Passed(h) : ~Hidden(Line(h, x))}
      BY <2>5, <2>8
    <3> QED BY <3>1, <3>2 DEF Given
  <2>9. CASE Hidden(Line(h, e))
    <3>1. PICK j \in Nat : j = o + s
      BY <2>4
    <3>2. /\ j \in 1..Len(sent) /\ k \in 1..Len(sent) /\ j <= k
          /\ j > b /\ k > b
      <4>1. i \in 1..n /\ s <= i
        BY <1>3, <2>7
      <4>2. s \in 1..n
        BY <4>1, <2>4
      <4>3. b <= o /\ o + n = Len(sent)
        BY <1>0, <1>1
      <4> QED BY <2>1, <3>1, <4>1, <4>2, <4>3
    <3>3. j \in DOMAIN r /\ r[j] = q /\ r[k] = q /\ sent[j] = "ok"
      BY <1>0, <2>6, <2>9, <3>1, <3>2
    <3>4. \A x \in j..(k - 1) : sent[x] # "nl"
      <4> TAKE x \in j..(k - 1)
      <4>1. x - o \in s..e - 1 /\ o + (x - o) = x
        BY <2>1, <2>4, <3>1
      <4> QED BY <2>6, <4>1
    <3>5. j > 1 => sent[j - 1] = "nl" \/ r[j - 1] # r[j]
      <4> SUFFICES ASSUME j > 1 PROVE sent[j - 1] = "nl" \/ r[j - 1] # r[j]
        OBVIOUS
      <4>1. CASE s > 1
        BY <2>6, <3>1, <4>1
      <4>2. CASE ~ (s > 1)
        <5>1. j - 1 = o
          BY <3>1, <4>2
        <5>2. CASE o > b
          BY <1>0, <5>1, <5>2
        <5>3. CASE ~ (o > b)
          <6>1. j - 1 \in 1..Len(sent) /\ ~ (j - 1 > b)
            BY <3>2, <5>1, <5>3
          <6> QED BY <1>0, <3>3, <6>1
        <5> QED BY <5>2, <5>3
      <4> QED BY <4>1, <4>2
    <3> QED BY <2>6, <2>9, <3>2, <3>3, <3>4, <3>5 DEF Held
  <2> QED BY <2>8, <2>9
<1> QED BY <1>3, <1>5, <1>6 DEF Reached

(* A turn passes lines on, and keeps the rest in hand.                     *)
LEMMA PickCollects ==
  ASSUME TypeInv, TypeInv', AckInv, NEW b \in Nat, NEW o \in Nat,
         Collecting(b, o), Pick, Len(by) # Len(sent)
  PROVE  \E u \in Nat : Collecting(b, u)'
<1>1. /\ UNCHANGED <<sent, load, requests>> /\ by' = TakenBy(requests)
      /\ told' = told \cup Given(Hand) /\ current_buffer' = Rest(Hand)
  BY DEF Pick, Hand, Come, printerVars
<1>2. PICK h : h = Hand /\ Run(h, o)
  BY HandFollows DEF TypeInv
<1>3. PICK n \in Nat : n = Len(sent) /\ o <= Len(by) /\ Len(by) <= n
                       /\ Len(by) \in Nat
  BY DEF TypeInv, Bounds, Collecting
<1>4. PICK r \in Seq(Nat) :
        /\ r = by' /\ Len(r) = n
        /\ \A k \in 1..n : r[k] = IF k <= Len(by) THEN by[k] ELSE requests
  BY <1>1, <1>3, Taken DEF TypeInv, Bounds
<1>5. /\ \A k \in 1..Len(by) : by[k] = requests <=> k > b
      /\ told \subseteq b + 1..o
      /\ \A k \in b + 1..o : k \in told \/ Held(sent, by, load.repetier, k)
  BY DEF Collecting
<1>6. b <= o /\ (o > b => sent[o] = "nl")
  BY DEF Collecting
<1>7. \A k \in 1..n : r[k] = requests <=> k > b
  <2> TAKE k \in 1..n
  <2>1. CASE k <= Len(by)
    <3>1. k \in 1..Len(by) /\ r[k] = by[k]
      BY <1>3, <1>4, <2>1
    <3> QED BY <1>5, <3>1
  <2>2. CASE ~ (k <= Len(by))
    <3>1. r[k] = requests /\ k > b
      BY <1>3, <1>4, <1>6, <2>2
    <3> QED BY <3>1
  <2> QED BY <2>1, <2>2
<1>8. \A k \in b + 1..o : k \in told \/ Held(sent, r, load.repetier, k)
  <2> SUFFICES ASSUME NEW k \in b + 1..o, k \notin told
               PROVE  Held(sent, r, load.repetier, k)
    OBVIOUS
  <2>1. Held(sent, by, load.repetier, k) /\ k \in 1..Len(by)
    BY <1>3, <1>5
  <2>2. \A i \in 1..Len(by) : i \in 1..n /\ i <= Len(by)
    BY <1>3
  <2>3. /\ by \in Seq(Nat) /\ Len(by) <= Len(r)
        /\ \A i \in 1..Len(by) : sent[i] = sent[i] /\ by[i] = r[i]
    BY <1>3, <1>4, <2>2 DEF TypeInv, Bounds
  <2> QED BY <2>1, <2>3, HeldStays
<1>9. PICK m \in 0..Len(h) :
        /\ IF Passed(h) = {} THEN m = 0
           ELSE m \in Passed(h) /\ \A k \in Passed(h) : k <= m
        /\ Rest(h) \in Seq(Nat) /\ Len(Rest(h)) = Len(h) - m
        /\ \A i \in 1..Len(h) - m : Rest(h)[i] = h[m + i]
  BY <1>2, RestIs DEF Run
<1>10. PICK l \in Nat : /\ l = Len(h) /\ o + l = n
                        /\ \A i \in 1..l : h[i] = o + i
  BY <1>2, <1>3 DEF Run
<1>11. PICK u \in Nat : u = o + m
  BY <1>9, <1>10
<1>12. /\ Given(h) \subseteq o + 1..u
       /\ \A k \in o + 1..u :
            k \in Given(h) \/ Held(sent, r, load.repetier, k)
       /\ u > o => sent[u] = "nl"
  <2>1. CASE Passed(h) = {}
    <3>1. Given(h) = {}
      BY <2>1 DEF Given
    <3>2. m = 0
      BY <1>9, <2>1
    <3>3. u = o /\ o + 1..u = {}
      BY <1>11, <3>2
    <3> QED BY <3>1, <3>3
  <2>2. CASE Passed(h) # {}
    <3>1. m \in Passed(h) /\ \A k \in Passed(h) : k <= m
      BY <1>9, <2>2
    <3>2. Bounds /\ Len(r) = Len(sent)
          /\ \A k \in 1..Len(sent) : r[k] = requests <=> k > b
      BY <1>3, <1>4, <1>7 DEF TypeInv
    <3>3. /\ sent[o + m] = "nl" /\ Given(h) \subseteq o + 1..o + m
          /\ \A k \in o + 1..o + m :
               k \in Given(h) \/ Held(sent, r, load.repetier, k)
      <4>1. PICK q : q = requests
        OBVIOUS
      <4>2. Follows(r, q, b, o)
        BY <1>6, <3>2, <4>1 DEF Follows
      <4>3. Reached(h, r, o, o + m)
        BY <1>2, <3>1, <3>2, <4>2, GivenIs
      <4> QED BY <4>3 DEF Reached
    <3> QED BY <1>11, <3>3
  <2> QED BY <2>1, <2>2
<1>13. b <= u /\ u <= n /\ o <= u
  BY <1>6, <1>9, <1>10, <1>11
<1>14. told' \subseteq b + 1..u
  <2>1. b + 1..o \subseteq b + 1..u /\ o + 1..u \subseteq b + 1..u
    BY <1>6, <1>13
  <2> QED BY <1>1, <1>2, <1>5, <1>12, <2>1
<1>15. \A k \in b + 1..u : k \in told' \/ Held(sent, r, load.repetier, k)
  <2> TAKE k \in b + 1..u
  <2>1. k \in b + 1..o \/ k \in o + 1..u
    BY <1>6, <1>13
  <2> QED BY <1>1, <1>2, <1>8, <1>12, <2>1
<1>16. u > b => sent[u] = "nl"
  <2>1. CASE u > o
    BY <1>12, <2>1
  <2>2. CASE ~ (u > o)
    <3>1. u = o
      BY <1>13, <2>2
    <3> QED BY <1>6, <3>1
  <2> QED BY <2>1, <2>2
<1>17. Len(Rest(h)) = n - u /\ \A i \in 1..n - u : Rest(h)[i] = u + i
  <2>1. n - u = l - m
    BY <1>9, <1>10, <1>11
  <2>2. \A i \in 1..l - m : m + i \in 1..l /\ o + (m + i) = u + i
    BY <1>9, <1>10, <1>11
  <2> QED BY <1>9, <1>10, <2>1, <2>2
<1> QED BY <1>1, <1>2, <1>4, <1>7, <1>13, <1>14, <1>15, <1>16, <1>17
        DEF Collecting

(* What a web command has given the browser and what it has in hand.       *)
LEMMA AnswerInvKept == Spec => [](TypeInv /\ AckInv /\ AnswerInv)
<1>1. Init => AnswerInv
  BY DEF Init, AnswerInv
<1>2. TypeInv /\ TypeInv' /\ AckInv /\ AckInv' /\ AnswerInv /\ [Next]_vars
        => AnswerInv'
  <2> SUFFICES ASSUME TypeInv, TypeInv', AckInv, AckInv', AnswerInv,
                      [Next]_vars
               PROVE  AnswerInv'
    OBVIOUS
  <2>0. /\ Bounds /\ Bounds' /\ requests \in Nat
        /\ Len(by) \in Nat /\ Len(sent) \in Nat /\ Len(by) <= Len(sent)
        /\ by \in Seq(Nat) /\ \A k \in 1..Len(by) : by[k] \in Nat
    BY DEF TypeInv, Bounds
  <2>1. ASSUME by' = TakenBy(0) PROVE \A k \in 1..Len(by') : by'[k] <= requests
    <3>1. /\ Len(by') = Len(sent)
          /\ \A k \in 1..Len(sent) :
               by'[k] = IF k <= Len(by) THEN by[k] ELSE 0
      BY <2>0, <2>1, Taken
    <3> SUFFICES ASSUME NEW k \in 1..Len(sent) PROVE by'[k] <= requests
      BY <3>1
    <3>2. CASE k <= Len(by)
      <4>1. k \in 1..Len(by) /\ by'[k] = by[k]
        BY <2>0, <3>1, <3>2
      <4> QED BY <4>1 DEF AnswerInv
    <3>3. CASE ~ (k <= Len(by))
      BY <2>0, <3>1, <3>3
    <3> QED BY <3>2, <3>3
  <2>2. ASSUME by' = TakenBy(0), pc' \notin Holding, requests' = requests
        PROVE  AnswerInv'
    BY <2>1, <2>2 DEF AnswerInv, Holding
  <2>3. ASSUME UNCHANGED by, pc' \notin Holding,
               requests' \in {requests, requests + 1}
        PROVE  AnswerInv'
    <3>1. \A k \in 1..Len(by) : by[k] <= requests'
      BY <2>0, <2>3 DEF AnswerInv
    <3> QED BY <2>3, <3>1 DEF AnswerInv, Holding
  <2>4. ASSUME UNCHANGED <<pc, by, requests, told, load, current_buffer>>,
               \A k \in 1..Len(by) : sent'[k] = sent[k]
        PROVE  AnswerInv'
    <3>1. ASSUME NEW b \in Nat, NEW o \in Nat, Collecting(b, o)
          PROVE  Collecting(b, o)'
      <4>1. o > b => o \in 1..Len(by)
        BY <3>1 DEF Collecting
      <4>2. ASSUME NEW k \in b + 1..o, Held(sent, by, load.repetier, k)
            PROVE  Held(sent', by, load.repetier, k)
        <5>1. k \in 1..Len(by) /\ Len(by) <= Len(by)
          BY <2>0, <3>1 DEF Collecting
        <5>2. PICK t, u : t = sent /\ u = sent'
          OBVIOUS
        <5>3. \A i \in 1..Len(by) : t[i] = u[i] /\ by[i] = by[i]
          BY <2>4, <5>2
        <5>4. Held(u, by, load.repetier, k)
          BY <2>0, <4>2, <5>1, <5>2, <5>3, HeldStays
        <5> QED BY <5>2, <5>4
      <4> QED BY <2>4, <3>1, <4>1, <4>2 DEF Collecting
    <3> QED BY <2>4, <3>1 DEF AnswerInv
  <2>5. CASE PrinterSends
    <3>1. UNCHANGED <<pc, by, requests, told, load, current_buffer>>
          /\ \E b \in load.pieces : sent' = Append(sent, b)
      BY <2>5 DEF PrinterSends, webVars
    <3>2. \A k \in 1..Len(by) : sent'[k] = sent[k]
      BY <2>0, <3>1 DEF Bounds
    <3> QED BY <2>4, <3>1, <3>2
  <2>6. CASE UNCHANGED vars \/ ClientMoves
    <3>1. UNCHANGED <<pc, by, sent, requests, told, load, current_buffer>>
      BY <2>6 DEF vars, ClientMoves, printerVars, webVars
    <3> QED BY <2>4, <3>1
  <2>7. CASE FillSlots \/ Reject \/ NoClient \/ FromTCP \/ NoRequest \/ Silent
    <3>1. UNCHANGED by /\ pc' \notin Holding
          /\ requests' \in {requests, requests + 1}
      BY <2>7 DEF FillSlots, Reject, NoClient, FromTCP, NoRequest, Silent,
         webVars, bridgeVars, Holding
    <3> QED BY <2>3, <3>1
  <2>8. CASE FromSerial2TCP \/ Release
    <3>1. by' = TakenBy(0) /\ pc' \notin Holding /\ requests' = requests
      BY <2>8 DEF FromSerial2TCP, Release, FromSerial, webVars, Holding
    <3> QED BY <2>2, <3>1
  <2>9. CASE Take
    <3>1. by' = TakenBy(0) /\ requests' = requests + 1 /\ told' = {}
          /\ pc' = "purge"
      BY <2>9 DEF Take, FromSerial
    <3>2. \A k \in 1..Len(by') : by'[k] <= requests
      BY <2>1, <3>1
    <3>3. by' \in Seq(Nat)
      BY <2>0 DEF Bounds
    <3>4. \A k \in 1..Len(by') : by'[k] <= requests' /\ by'[k] < requests'
      <4> TAKE k \in 1..Len(by')
      <4>1. by'[k] \in Nat /\ by'[k] <= requests
        BY <3>2, <3>3
      <4> QED BY <2>0, <3>1, <4>1
    <3> QED BY <3>1, <3>4 DEF AnswerInv
  <2>10. CASE Purge
    <3>1. by' = TakenBy(0) /\ UNCHANGED <<requests, told>> /\ pc = "purge"
          /\ pc' = "command"
      BY <2>10 DEF Purge, Purged, FromSerial
    <3>2. \A k \in 1..Len(by') : by'[k] <= requests
      BY <2>1, <3>1
    <3>3. \A k \in 1..Len(by') : by'[k] < requests
      <4>1. /\ Len(by') = Len(sent)
            /\ \A k \in 1..Len(sent) :
                 by'[k] = IF k <= Len(by) THEN by[k] ELSE 0
        BY <2>0, <3>1, Taken
      <4>2. requests # 0
        BY <3>1 DEF TypeInv, Bounds, Holding
      <4> SUFFICES ASSUME NEW k \in 1..Len(sent) PROVE by'[k] < requests
        BY <4>1
      <4>3. CASE k <= Len(by)
        <5>1. k \in 1..Len(by) /\ by'[k] = by[k]
          BY <2>0, <4>1, <4>3
        <5> QED BY <3>1, <5>1 DEF AnswerInv
      <4>4. CASE ~ (k <= Len(by))
        BY <2>0, <4>1, <4>2, <4>4
      <4> QED BY <4>3, <4>4
    <3> QED BY <3>1, <3>2, <3>3 DEF AnswerInv
  <2>11. CASE Command
    <3>1. UNCHANGED <<by, sent, load, requests, told, current_buffer>>
          /\ pc = "command" /\ pc' = "read"
      BY <2>11 DEF Command, webVars
    <3>2. told = {} /\ current_buffer = <<>>
          /\ \A k \in 1..Len(by) : by[k] < requests
      BY <3>1 DEF AnswerInv, AckInv
    <3>3. PICK b \in Nat : b = Len(by)
      BY <2>0
    <3>4. /\ Len(current_buffer) = Len(by) - b /\ 1..Len(by) - b = {}
          /\ b + 1..b = {} /\ ~ (b > b) /\ b <= b /\ b <= Len(by)
          /\ \A k \in 1..Len(by) : by[k] # requests /\ ~ (k > b)
      BY <2>0, <3>2, <3>3
    <3>5. Collecting(b, b)'
      BY <3>1, <3>2, <3>4 DEF Collecting
    <3> QED BY <3>1, <3>5 DEF AnswerInv
  <2>12. CASE Pick
    <3>1. UNCHANGED <<pc, requests>> /\ pc = "read"
      BY <2>12 DEF Pick
    <3>2. PICK b, o \in Nat : Collecting(b, o)
      BY <3>1 DEF AnswerInv
    <3>3. CASE Len(by) = Len(sent)
      <4>1. UNCHANGED <<pc, by, sent, requests, told, load, current_buffer>>
        BY <2>12, <3>3 DEF Pick, printerVars
      <4> QED BY <2>4, <4>1
    <3>4. CASE Len(by) # Len(sent)
      <4>1. \E u \in Nat : Collecting(b, u)'
        BY <2>12, <3>2, <3>4, PickCollects
      <4>2. by' = TakenBy(requests)
        BY <2>12, <3>4 DEF Pick
      <4>3. \A k \in 1..Len(by') : by'[k] <= requests
        <5>1. /\ Len(by') = Len(sent)
              /\ \A k \in 1..Len(sent) :
                   by'[k] = IF k <= Len(by) THEN by[k] ELSE requests
          BY <2>0, <4>2, Taken
        <5> SUFFICES ASSUME NEW k \in 1..Len(sent) PROVE by'[k] <= requests
          BY <5>1
        <5>2. CASE k <= Len(by)
          <6>1. k \in 1..Len(by) /\ by'[k] = by[k]
            BY <2>0, <5>1, <5>2
          <6> QED BY <6>1 DEF AnswerInv
        <5>3. CASE ~ (k <= Len(by))
          BY <2>0, <5>1, <5>3
        <5> QED BY <5>2, <5>3
      <4> QED BY <3>1, <4>1, <4>3 DEF AnswerInv
    <3> QED BY <3>3, <3>4
  <2> QED BY <2>5, <2>6, <2>7, <2>8, <2>9, <2>10, <2>11, <2>12
          DEF Next, Module
<1> QED BY <1>1, <1>2, AckInvKept, PTL DEF Spec

(* Each piece of the printer's answer to a web command is given to the     *)
(* browser once, in a whole line, or is in hand, or belongs to a line that *)
(* is never given, however the answer is cut by the reads                  *)
(* (webinterface.cpp:1320).                                                *)
THEOREM AnswerWholeAlways == Spec => []AnswerWhole
<1>1. TypeInv /\ AckInv /\ AnswerInv => AnswerWhole
  <2> SUFFICES ASSUME TypeInv, AckInv, AnswerInv, pc = "read"
               PROVE  AnswerWhole
    BY DEF AnswerWhole
  <2> DEFINE inHand == {current_buffer[i] : i \in DOMAIN current_buffer}
  <2>1. PICK b, o \in Nat : Collecting(b, o)
    BY DEF AnswerInv
  <2>2. /\ b <= o /\ o <= Len(by) /\ DOMAIN by = 1..Len(by)
        /\ Len(by) \in Nat
        /\ \A k \in 1..Len(by) : by[k] = requests <=> k > b
        /\ told \subseteq b + 1..o
        /\ \A k \in b + 1..o : k \in told \/ Held(sent, by, load.repetier, k)
    BY <2>1 DEF Collecting, TypeInv, Bounds
  <2>3. inHand = o + 1..Len(by)
    <3>1. /\ DOMAIN current_buffer = 1..Len(by) - o
          /\ \A i \in 1..Len(by) - o : current_buffer[i] = o + i
      BY <2>1 DEF Collecting, AckInv
    <3>2. \A i \in 1..Len(by) - o : o + i \in o + 1..Len(by)
      BY <2>2
    <3>3. \A k \in o + 1..Len(by) : k - o \in 1..Len(by) - o /\ o + (k - o) = k
      BY <2>2
    <3>4. inHand \subseteq o + 1..Len(by)
      BY <3>1, <3>2
    <3>5. o + 1..Len(by) \subseteq inHand
      BY <3>1, <3>3
    <3> QED BY <3>4, <3>5
  <2> HIDE DEF inHand
  <2>4. told \cap inHand = {}
    <3>1. (b + 1..o) \cap (o + 1..Len(by)) = {}
      BY <2>2
    <3> QED BY <2>2, <2>3, <3>1
  <2>5. told \cup inHand \subseteq {k \in DOMAIN by : by[k] = requests}
    <3>1. \A k \in told \cup inHand : k \in 1..Len(by) /\ k > b
      BY <2>2, <2>3
    <3> QED BY <2>2, <3>1
  <2>6. ASSUME NEW k \in DOMAIN by, by[k] = requests
        PROVE  k \in told \cup inHand \/ Withheld(k)
    <3>1. k \in b + 1..o \/ k \in o + 1..Len(by)
      BY <2>2, <2>6
    <3>2. Held(sent, by, load.repetier, k) => Withheld(k)
      BY DEF Held, Withheld
    <3> QED BY <2>2, <2>3, <3>1, <3>2
  <2> QED BY <2>4, <2>5, <2>6 DEF AnswerWhole, inHand
<1> QED BY <1>1, AnswerInvKept, PTL

(* What the serial line's reader holds, and what it executed last.         *)
LEMMA LineInvKept == Spec => [](TypeInv /\ LineInv)
<1>1. Init => LineInv
  <2> SUFFICES ASSUME Init PROVE LineInv
    OBVIOUS
  <2>1. /\ sent = <<>> /\ by = <<>> /\ Len(by) = 0 /\ serial = Fresh
        /\ executed = Nothing
    BY DEF Init
  <2>a. Nothing \in Looks
    BY DEF Nothing, Looks
  <2>2. /\ Fresh \in Reader /\ Fresh.buffer = <<>> /\ Places(<<>>) = {}
        /\ ~Fresh.previous_was_char
    BY DEF Fresh, Reader, Places
  <2>3. ExecutedOk(sent, by, executed, 0)
    BY <2>1 DEF ExecutedOk
  <2>4. ReaderOk(sent, by, Fresh, 0)
    <3>1. 1 \in 1..0 + 1 /\ 1 = 0 + 1 /\ 1..0 = {}
      OBVIOUS
    <3>2. Begins(sent, 1, 0)
      BY <3>1 DEF Begins
    <3> QED BY <2>2, <3>1, <3>2 DEF ReaderOk
  <2>5. Begun.reader = serial /\ Begun.cmd = executed
    BY DEF Begun
  <2> QED BY <2>1, <2>2, <2>3, <2>4, <2>5, <2>a, Zenon DEF LineInv, Keeps
<1>2. TypeInv /\ TypeInv' /\ AckInv /\ AnswerInv /\ LineInv /\ [Next]_vars
        => LineInv'
  <2> SUFFICES ASSUME TypeInv, TypeInv', AckInv, AnswerInv, LineInv,
                      [Next]_vars
               PROVE  LineInv'
    OBVIOUS
  <2>0. Bounds /\ Bounds' /\ Len(by) \in Nat /\ Len(sent) \in Nat
        /\ Len(by) <= Len(sent) /\ Len(by') \in Nat
    BY DEF TypeInv, Bounds
  <2>1. ASSUME UNCHANGED <<sent, by, serial, executed>> PROVE LineInv'
    <3>1. Begun' = Begun
      BY <2>1 DEF Begun
    <3> QED BY <2>1, <3>1 DEF LineInv
  <2>2. ASSUME FromSerial, UNCHANGED sent PROVE LineInv'
    BY <2>0, <2>2, BridgeKeeps
  <2>3. CASE PrinterSends
    <3>1. /\ UNCHANGED <<by, serial, executed>>
          /\ \E b \in load.pieces : sent' = Append(sent, b)
      BY <2>3 DEF PrinterSends, bridgeVars
    <3>2. PICK b \in Nat : b = Len(by)
      BY <2>0
    <3>3. PICK t, u, r, a : t = sent /\ u = sent' /\ r = by /\ a = Begun
      OBVIOUS
    <3>4. \A k \in 1..b : t[k] = u[k] /\ r[k] = r[k]
      BY <2>0, <3>1, <3>2, <3>3 DEF Bounds
    <3>5. b >= b
      OBVIOUS
    <3>6. Keeps(u, r, a, b)
      BY <3>2, <3>3, <3>4, <3>5, ReaderFrame DEF LineInv, Keeps
    <3>7. Begun' = a
      BY <3>1, <3>3 DEF Begun
    <3> QED BY <3>1, <3>2, <3>3, <3>6, <3>7 DEF LineInv
  <2>4. CASE Pick
    <3>1. UNCHANGED <<sent, serial>> /\ pc = "read"
      BY <2>4 DEF Pick, printerVars
    <3>2. CASE Len(by) = Len(sent)
      <4>1. UNCHANGED <<by, executed>>
        BY <2>4, <3>2 DEF Pick
      <4> QED BY <2>1, <3>1, <4>1
    <3>3. CASE Len(by) # Len(sent)
      <4>0. by' = TakenBy(requests) /\ executed' = Checked(Hand)
        BY <2>4, <3>3 DEF Pick, Hand, Come
      <4>1. PICK b \in Nat : b = Len(by)
        BY <2>0
      <4>2. PICK m \in Nat : m = Len(sent)
        BY <2>0
      <4>3. PICK t, q, r, a : t = sent /\ q = by /\ r = by' /\ a = Begun
        OBVIOUS
      <4>w. PICK w \in Nat \ {0} : w = requests
        BY <2>0, <3>1 DEF Bounds, Holding
      <4>4. /\ Len(by') = m /\ b <= m
            /\ \A k \in 1..m : r[k] = IF k <= b THEN q[k] ELSE w
        BY <2>0, <4>0, <4>1, <4>2, <4>3, <4>w, Taken
      <4>5. /\ \A k \in 1..b : t[k] = t[k] /\ q[k] = r[k]
            /\ \A k \in b + 1..m : r[k] # 0
            /\ m >= b /\ b >= b
        BY <4>4
      <4>6. Keeps(t, q, a, b)
        BY <4>1, <4>3 DEF LineInv
      <4>7. ReaderOk(t, r, a.reader, b) /\ ExecutedOk(t, r, a.cmd, m)
        BY <4>4, <4>5, <4>6, ReaderFrame DEF Keeps
      <4>8. ReaderOk(t, r, a.reader, m)
        BY <4>4, <4>5, <4>6, <4>7, TakenByWeb DEF Keeps
      <4>9. PICK x : x = Checked(Hand)
        OBVIOUS
      <4>10. x \in Looks /\ ExecutedOk(t, r, x, m)
        <5>1. CASE x = executed
          <6>1. a.cmd = executed
            BY <4>3 DEF Begun
          <6> QED BY <4>6, <4>7, <5>1, <6>1 DEF Keeps
        <5>2. CASE x # executed
          <6>1. PICK d, o \in Nat : Collecting(d, o)
            BY <3>1 DEF AnswerInv
          <6>2. PICK h : h = Hand /\ Run(h, o)
            BY <2>0, <6>1, HandFollows
          <6>3. Follows(r, w, d, o)
            <7>1. /\ d <= o /\ o <= b
                  /\ \A k \in 1..b : q[k] = w <=> k > d
              BY <4>1, <4>3, <4>w, <6>1 DEF Collecting
            <7>2. o > d => sent[o] = "nl"
              BY <6>1 DEF Collecting
            <7>3. \A k \in 1..m : r[k] = w <=> k > d
              <8> TAKE k \in 1..m
              <8>1. CASE k <= b
                <9>1. k \in 1..b /\ r[k] = q[k]
                  BY <4>4, <8>1
                <9> QED BY <7>1, <9>1
              <8>2. CASE ~ (k <= b)
                <9>1. k > d /\ r[k] = w
                  BY <4>4, <7>1, <8>2
                <9> QED BY <9>1
              <8> QED BY <8>1, <8>2
            <7>4. Len(r) = Len(sent)
              BY <4>2, <4>3, <4>4
            <7> QED BY <4>2, <7>1, <7>2, <7>3, <7>4 DEF Follows
          <6>4. Checked(h) # executed
            BY <4>9, <5>2, <6>2
          <6>5. Checked(h) \in Looks
                /\ ExecutedOk(sent, r, Checked(h), Len(sent))
            BY <2>0, <6>2, <6>3, <6>4, CheckedIs
          <6> QED BY <4>2, <4>3, <4>9, <6>2, <6>5
        <5> QED BY <5>1, <5>2
      <4>11. PICK g : g = [reader |-> serial, cmd |-> x]
        OBVIOUS
      <4>12. g.reader = serial /\ g.cmd = x /\ a.reader = serial
        BY <4>3, <4>11 DEF Begun
      <4>13. Keeps(t, r, g, m)
        BY <4>6, <4>8, <4>10, <4>12, Zenon DEF Keeps
      <4>14. Begun' = g
        BY <3>1, <4>0, <4>9, <4>11 DEF Begun
      <4> QED BY <3>1, <4>3, <4>4, <4>13, <4>14 DEF LineInv
    <3> QED BY <3>2, <3>3
  <2>5. CASE FromSerial2TCP \/ Take \/ Purge \/ Release
    <3>1. FromSerial /\ UNCHANGED sent
      BY <2>5 DEF FromSerial2TCP, Take, Purge, Purged, Release, printerVars
    <3> QED BY <2>2, <3>1
  <2>6. CASE \/ ClientMoves \/ FillSlots \/ Reject \/ NoClient \/ FromTCP
             \/ NoRequest \/ Silent \/ Command \/ UNCHANGED vars
    <3>1. UNCHANGED <<sent, by, serial, executed>>
      BY <2>6 DEF ClientMoves, FillSlots, Reject, NoClient, FromTCP,
         NoRequest, Silent, Command, vars, printerVars, bridgeVars
    <3> QED BY <2>1, <3>1
  <2> QED BY <2>3, <2>4, <2>5, <2>6 DEF Next, Module
<1> QED BY <1>1, <1>2, AnswerInvKept, PTL DEF Spec

(* What the interpreter was given of the serial line last is the end of    *)
(* one line of the printer, from the last control character in it and up   *)
(* to a comment, unless a web command took a part of that line or of the   *)
(* line before (command.cpp:1693); what a web command gave it is a line as *)
(* it was collected (webinterface.cpp:1349).                               *)
THEOREM WholeLinesAlways == Spec => []WholeLines
<1>1. TypeInv /\ LineInv => WholeLines
  <2> SUFFICES ASSUME TypeInv, LineInv, executed # Nothing PROVE WholeLines
    BY DEF WholeLines
  <2> DEFINE places == {executed.text[j].at : j \in DOMAIN executed.text}
             e == executed.end
  <2>1. PICK n \in Nat : n = Len(by)
    BY DEF TypeInv, Bounds
  <2>2. /\ executed \in Looks /\ ExecutedOk(sent, by, executed, n)
        /\ places = Places(executed.text)
    <3>1. Begun.cmd = executed
      BY DEF Begun
    <3> QED BY <2>1, <3>1 DEF LineInv, Keeps, Places
  <2>3. places \in SUBSET Nat
    BY <2>2, SomePlace DEF Looks
  <2>4. /\ e \in 1..n
        /\ by[e] = 0 => \E s \in 1..e : FoundAt(sent, by, executed, s)
        /\ by[e] # 0 => \E s \in 1..e : CollectedAt(sent, by, executed, s)
    BY <2>2 DEF ExecutedOk
  <2>5. PICK d \in Nat : d = e - 1
    BY <2>4
  <2>6. CASE by[e] # 0
    <3>1. PICK s \in 1..e : CollectedAt(sent, by, executed, s)
      BY <2>4, <2>6
    <3>2. LineBegins(sent, s, d) /\ places = {k \in s..d : by[k] = by[e]}
      BY <2>2, <2>5, <3>1 DEF CollectedAt
    <3>3. Max({0} \cup {k \in 1..d : sent[k] = "nl"}) + 1 = s
      BY <3>2, LineBeginsOnce
    <3>4. places = Collected(e)
      BY <2>5, <3>2, <3>3, Zenon DEF Collected
    <3> QED BY <2>6, <3>4, Zenon DEF WholeLines
  <2>7. CASE by[e] = 0
    <3>1. PICK s \in 1..e : FoundAt(sent, by, executed, s)
      BY <2>4, <2>7
    <3>2. Begins(sent, s, d)
      BY <2>5, <3>1 DEF FoundAt
    <3>3. Start(e) = s
      <4>1. Begins(sent, Start(e), d)
        BY <2>5, BeginsOnce DEF Start
      <4> QED BY <3>2, <4>1, BeginsOnce
    <3>4. places = Uncommented(sent, s, d) \/ WebSince(by, s, places, e)
      BY <2>2, <2>5, <3>1 DEF FoundAt
    <3>5. Meant(e) = Uncommented(sent, s, d)
      BY <2>5, <3>3 DEF Meant, Uncommented
    <3>6. CASE WebSince(by, s, places, e)
      <4> HIDE DEF places
      <4>1. PICK k \in 1..e :
              by[k] # 0 /\ (s <= k \/ \E p \in places : p <= k)
        BY <3>6 DEF WebSince
      <4> DEFINE Q == places \cup {s}
      <4>2. Q \in SUBSET Nat /\ Q # {}
        BY <2>3, <2>4
      <4>3. Min(Q) \in Q /\ \A q \in Q : Min(Q) <= q
        <5> HIDE DEF Q
        <5> QED BY <4>2, LeastIs
      <4>4. PICK q \in Q : q <= k
        BY <4>1
      <4>5. Min(Q) \in Nat /\ q \in Nat /\ Min(Q) <= q
        BY <4>2, <4>3
      <4> HIDE DEF Q
      <4>6. k \in Min(Q)..e
        BY <2>4, <4>4, <4>5
      <4>7. \E i \in Min(Q)..e : by[i] # 0
        BY <4>1, <4>6
      <4> QED BY <2>7, <3>3, <4>7, Zenon DEF WholeLines, places, Q
    <3>7. CASE places = Uncommented(sent, s, d)
      <4>1. places = Meant(e)
        BY <3>5, <3>7
      <4> QED BY <2>7, <4>1, Zenon DEF WholeLines
    <3> QED BY <3>4, <3>6, <3>7
  <2> QED BY <2>6, <2>7
<1> QED BY <1>1, LineInvKept, PTL
=============================================================================
