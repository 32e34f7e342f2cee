------------------------ MODULE MessageStore_proofs ------------------------
(***************************************************************************)
(* For every store size, text length, heap and set of texts:               *)
(*   - the fields of the list keep their types;                            *)
(*   - the nodes linked from root are those allocated (Linked);            *)
(*   - the cache names the node at its index (CacheInPlace);               *)
(*   - the store implements the rolling log (IsRollingLog).                *)
(* The invariant says that the list represents some sequence of nodes.     *)
(* Each operation of the list is a lemma on what it does to that sequence; *)
(* the steps of the store, and of the log, follow from the lemmas.  What   *)
(* is recursive in the model (the walk along the list, reading in order,   *)
(* popping until nothing is left) is shown by induction over a set of      *)
(* numbers, which rests on < being well-founded.                           *)
(***************************************************************************)
EXTENDS MessageStore, FiniteSetTheorems, SequenceTheorems,
        WellFoundedInduction, TLAPS

(* What the assumption says of numbers.                                    *)
LEMMA Sizes ==
  /\ _maxsize \in Nat /\ _maxsize > 0 /\ MaxNodes \in Nat
  /\ MaxNodes >= _maxsize
BY MessageStoreAssumption

(* Among natural numbers there is a least one.                             *)
LEMMA Least ==
  ASSUME NEW S \in SUBSET Nat, S # {}
  PROVE  \E x \in S : \A y \in S : x <= y
<1> DEFINE R == OpToRel(<, Nat)
<1>1. IsWellFoundedOn(R, Nat)
  BY NatLessThanWellFounded
<1>2. \A x, y \in Nat : y < x => <<y, x>> \in R
  BY DEF OpToRel
<1> HIDE DEF R
<1>3. \E x \in S : \A y \in S : ~ (<<y, x>> \in R)
  BY <1>1, WFMin, Zenon
<1>4. PICK x \in S : \A y \in S : ~ (<<y, x>> \in R)
  BY <1>3
<1>5. \A y \in S : x <= y
  <2> TAKE y \in S
  <2>1. x \in Nat /\ y \in Nat /\ ~ (y < x)
    BY <1>2, <1>4
  <2> QED BY <2>1
<1> QED BY <1>5

(* Induction, for a set: what holds at 0 and of every next number holds of *)
(* all.                                                                    *)
LEMMA SetInduction ==
  ASSUME NEW S, 0 \in S, \A n \in Nat : n \in S => n + 1 \in S
  PROVE  Nat \subseteq S
<1> DEFINE T == Nat \ S
<1> SUFFICES ASSUME T # {} PROVE FALSE
  OBVIOUS
<1>1. T \in SUBSET Nat
  OBVIOUS
<1>2. PICK x \in T : \A y \in T : x <= y
  BY <1>1, Least
<1>3. x \in Nat /\ x # 0 /\ x \notin S
  BY <1>2
<1>4. x - 1 \in Nat /\ x - 1 \in S
  <2>1. x - 1 \in Nat /\ ~ (x <= x - 1)
    BY <1>3
  <2> QED BY <1>2, <2>1
<1> QED BY <1>3, <1>4

-----------------------------------------------------------------------------
(* What a list is.  Its nodes, in order, are the sequence p; the fields of *)
(* the list say what p says, and the cache, in use, names the node at its  *)
(* index, or NULL just past the end.                                       *)
NodeOrNull == Node \cup {Null}

Stored == {Kept(t) : t \in Texts} \cup {<<>>}

List == [_size : Nat, root : NodeOrNull, last : NodeOrNull,
         lastNodeGot : NodeOrNull, lastIndexGot : Nat, isCached : BOOLEAN,
         live : SUBSET Node, data : [Node -> Stored],
         next : [Node -> NodeOrNull]]

Nth(p, i) == IF i \in 1..Len(p) THEN p[i] ELSE Null

Nodes(p) == {p[i] : i \in 1..Len(p)}

Links(l, p) ==
  /\ p \in Seq(Node)
  /\ \A i, j \in 1..Len(p) : p[i] = p[j] => i = j
  /\ l.live = Nodes(p) /\ l._size = Len(p)
  /\ l.root = Nth(p, 1) /\ l.last = Nth(p, Len(p))
  /\ \A i \in 1..Len(p) : l.next[p[i]] = Nth(p, i + 1)

Cache(l, p) ==
  l.isCached => /\ l.lastIndexGot \in 0..Len(p)
                /\ l.lastNodeGot = Nth(p, l.lastIndexGot + 1)

IsList(l, p) == l \in List /\ Links(l, p) /\ Cache(l, p)

Held(l, p) == [i \in 1..Len(p) |-> l.data[p[i]]]

(* Nodes are not NULL; the nth is a node or there is none.                 *)
LEMMA NthIs ==
  ASSUME NEW p \in Seq(Node)
  PROVE  /\ Len(p) \in Nat /\ DOMAIN p = 1..Len(p)
         /\ \A i \in 1..Len(p) : p[i] \in Node /\ p[i] # Null
                                /\ Nth(p, i) = p[i]
         /\ \A i : Nth(p, i) \in NodeOrNull
         /\ \A i : Nth(p, i) = Null <=> i \notin 1..Len(p)
<1>1. Len(p) \in Nat /\ DOMAIN p = 1..Len(p)
  OBVIOUS
<1>2. \A n \in Node : n # Null
  BY Sizes DEF Node, Null
<1>3. \A i \in 1..Len(p) : p[i] \in Node
  OBVIOUS
<1> QED BY <1>1, <1>2, <1>3 DEF Nth, NodeOrNull

After(l, x) == IF x = Null THEN Null ELSE l.next[x]

IsWalk(f, l, n, k) ==
  f = [j \in 0..k |-> IF j = 0 THEN n ELSE After(l, f[j - 1])]

(* What it holds is as long.                                               *)
LEMMA HeldIs ==
  ASSUME NEW l \in List, NEW p \in Seq(Node)
  PROVE  /\ Held(l, p) \in Seq(Stored) /\ Len(Held(l, p)) = Len(p)
         /\ \A i \in 1..Len(p) : Held(l, p)[i] = l.data[p[i]]
<1>1. \A i \in 1..Len(p) : l.data[p[i]] \in Stored
  BY DEF List
<1> QED BY <1>1 DEF Held

(* A walk is defined at each of its steps ...                              *)
LEMMA WalkExists ==
  ASSUME NEW l, NEW n, NEW k \in Nat
  PROVE  \E f : IsWalk(f, l, n, k)
<1> DEFINE Is(f, m) == IsWalk(f, l, n, m)
           S == {m \in Nat : \E f : Is(f, m)}
<1>1. 0 \in S
  <2> DEFINE g == [j \in 0..0 |-> n]
  <2>1. \A j \in 0..0 : j = 0
    OBVIOUS
  <2>2. g = [j \in 0..0 |-> IF j = 0 THEN n ELSE After(l, g[j - 1])]
    BY <2>1, Zenon
  <2> QED BY <2>2 DEF IsWalk
<1>2. ASSUME NEW m \in Nat, m \in S PROVE m + 1 \in S
  <2>1. PICK f : Is(f, m)
    BY <1>2
  <2> DEFINE g == [j \in 0..m + 1 |-> IF j = m + 1 THEN After(l, f[m])
                                      ELSE f[j]]
             h == [j \in 0..m + 1 |-> IF j = 0 THEN n ELSE After(l, g[j - 1])]
  <2>2. ASSUME NEW j \in 0..m + 1 PROVE g[j] = h[j]
    <3>1. CASE j = m + 1
      <4>1. j # 0 /\ j - 1 = m /\ m \in 0..m + 1 /\ m # m + 1
        BY <3>1
      <4>2. g[j - 1] = f[m]
        BY <4>1
      <4> QED BY <3>1, <4>1, <4>2
    <3>2. CASE j # m + 1 /\ j # 0
      <4>1. j - 1 # m + 1 /\ j - 1 \in 0..m + 1 /\ j \in 0..m
        BY <3>2
      <4>2. g[j - 1] = f[j - 1] /\ g[j] = f[j]
        BY <3>2, <4>1
      <4>3. f[j] = After(l, f[j - 1])
        BY <2>1, <3>2, <4>1, Zenon DEF IsWalk
      <4> QED BY <3>2, <4>2, <4>3
    <3>3. CASE j = 0
      <4>1. j \in 0..m /\ j # m + 1
        BY <3>3
      <4>2. f[j] = n
        BY <2>1, <3>3, <4>1, Zenon DEF IsWalk
      <4> QED BY <3>3, <4>1, <4>2
    <3> QED BY <3>1, <3>2, <3>3
  <2>3. g = h
    BY <2>2, Zenon
  <2>4. Is(g, m + 1)
    BY <2>3 DEF IsWalk
  <2> HIDE DEF Is
  <2> QED BY <2>4
<1> HIDE DEF S
<1>3. Nat \subseteq S
  BY <1>1, <1>2, SetInduction
<1> QED BY <1>3 DEF S

(* ... and each step goes to the next node.                                *)
LEMMA StepsAre ==
  ASSUME NEW l, NEW n, NEW k \in Nat
  PROVE  /\ Steps(l, n, k)[0] = n
         /\ \A j \in 1..k : Steps(l, n, k)[j] =
              IF Steps(l, n, k)[j - 1] = Null THEN Null
              ELSE l.next[Steps(l, n, k)[j - 1]]
<1> DEFINE at == CHOOSE f : IsWalk(f, l, n, k)
<1>1. Steps(l, n, k) = at
  BY Zenon DEF Steps, After, IsWalk
<1>2. \E f : IsWalk(f, l, n, k)
  BY WalkExists
<1>3. at = [j \in 0..k |-> IF j = 0 THEN n ELSE After(l, at[j - 1])]
  <2>1. IsWalk(at, l, n, k)
    BY <1>2, Zenon
  <2> QED BY <2>1, Zenon DEF IsWalk
<1> HIDE DEF at
<1>4. 0 \in 0..k /\ \A j \in 1..k : j \in 0..k /\ j # 0
  OBVIOUS
<1>5. at[0] = n /\ \A j \in 1..k : at[j] = After(l, at[j - 1])
  BY <1>3, <1>4, Zenon
<1> QED BY <1>1, <1>5 DEF After

(* A walk along the list.                                                  *)
LEMMA Walk ==
  ASSUME NEW l, NEW p, Links(l, p), NEW i \in 1..Len(p) + 1, NEW k \in Nat
  PROVE  \A j \in 0..k : Steps(l, Nth(p, i), k)[j] = Nth(p, i + j)
<1> DEFINE at == Steps(l, Nth(p, i), k)
           S  == {j \in Nat : j <= k => at[j] = Nth(p, i + j)}
<1>1. p \in Seq(Node) /\ Len(p) \in Nat
  BY DEF Links
<1>2. /\ at[0] = Nth(p, i)
      /\ \A j \in 1..k : at[j] = IF at[j - 1] = Null THEN Null
                                 ELSE l.next[at[j - 1]]
  BY StepsAre
<1> HIDE DEF at
<1>3. 0 \in S
  BY <1>1, <1>2
<1>4. ASSUME NEW j \in Nat, j \in S, j + 1 <= k
      PROVE  at[j + 1] = Nth(p, i + (j + 1))
  <2>1. j + 1 \in 1..k /\ j + 1 - 1 = j /\ i + (j + 1) = i + j + 1
        /\ i + j \in Nat
    BY <1>1, <1>4
  <2>2. at[j] = Nth(p, i + j)
    BY <1>4, <2>1
  <2>3. at[j + 1] = IF at[j] = Null THEN Null ELSE l.next[at[j]]
    BY <1>2, <2>1
  <2>4. CASE i + j \in 1..Len(p)
    <3>1. at[j] = p[i + j] /\ at[j] # Null
      BY <1>1, <2>2, <2>4, NthIs
    <3>2. l.next[p[i + j]] = Nth(p, i + j + 1)
      BY <2>4 DEF Links
    <3> QED BY <2>1, <2>3, <3>1, <3>2
  <2>5. CASE i + j \notin 1..Len(p)
    <3>1. i + j + 1 \notin 1..Len(p)
      BY <1>1, <2>5
    <3> QED BY <1>1, <2>1, <2>2, <2>3, <2>5, <3>1, NthIs
  <2> QED BY <2>4, <2>5
<1> HIDE DEF S
<1>5. Nat \subseteq S
  <2>1. \A j \in Nat : j \in S => j + 1 \in S
    BY <1>4 DEF S
  <2> QED BY <1>3, <2>1, SetInduction
<1>6. \A j \in 0..k : at[j] = Nth(p, i + j)
  BY <1>5 DEF S
<1> QED BY <1>6 DEF at

-----------------------------------------------------------------------------
(* getNode(index) finds the node at index, or NULL just past the end, and  *)
(* remembers it; elsewhere it finds nothing and remembers nothing.         *)
Marked(l, i, n) ==
  [l EXCEPT !.isCached = TRUE, !.lastIndexGot = i, !.lastNodeGot = n]

(* The node that getNode() returns, and the list it leaves.                *)
LEMMA GetNodeIs ==
  ASSUME NEW l, NEW p, IsList(l, p), NEW index \in Int
  PROVE  getNode(l, index) =
           IF index \in 0..Len(p)
           THEN [list |-> Marked(l, index, Nth(p, index + 1)),
                 node |-> Nth(p, index + 1)]
           ELSE [list |-> l, node |-> Null]
<1> DEFINE cached == l.isCached /\ l.lastIndexGot <= index
           _pos   == IF cached THEN l.lastIndexGot ELSE 0
           first  == IF cached THEN l.lastNodeGot ELSE l.root
           at     == Steps(l, first, index - _pos)
           Found  == index >= _pos
           /\ \A j \in 0..(index - _pos - 1) : at[j] # Null
<1>1. /\ p \in Seq(Node) /\ Len(p) \in Nat /\ Links(l, p)
      /\ l.root = Nth(p, 1) /\ l.isCached \in BOOLEAN
      /\ l.lastIndexGot \in Nat
  BY DEF IsList, Links, List
<1>2. getNode(l, index) =
        IF Found THEN [list |-> Marked(l, index, at[index - _pos]),
                       node |-> at[index - _pos]]
        ELSE [list |-> l, node |-> Null]
  BY Zenon DEF getNode, Marked
<1>3. /\ _pos \in 0..Len(p) /\ first = Nth(p, _pos + 1)
      /\ index < _pos => index < 0
  <2>1. CASE cached
    <3>1. l.lastIndexGot \in 0..Len(p)
          /\ l.lastNodeGot = Nth(p, l.lastIndexGot + 1)
      BY <2>1 DEF IsList, Cache
    <3> QED BY <2>1, <3>1, <1>1
  <2>2. CASE ~cached
    <3>1. _pos = 0 /\ first = l.root /\ 0 + 1 = 1
      BY <2>2
    <3> QED BY <1>1, <3>1
  <2> QED BY <2>1, <2>2
<1> HIDE DEF _pos, first
<1>4. CASE index >= _pos
  <2>1. PICK k \in Nat : k = index - _pos
    BY <1>3, <1>4
  <2>2. PICK i \in 1..Len(p) + 1 : i = _pos + 1
    BY <1>1, <1>3
  <2>3. \A j \in 0..k : at[j] = Nth(p, i + j)
    <3>1. at = Steps(l, Nth(p, i), k)
      BY <1>3, <2>1, <2>2, Zenon
    <3>2. \A j \in 0..k : Steps(l, Nth(p, i), k)[j] = Nth(p, i + j)
      BY <1>1, <2>1, <2>2, Walk
    <3> HIDE DEF at
    <3> QED BY <3>1, <3>2, Zenon
  <2> HIDE DEF at
  <2>4. at[index - _pos] = Nth(p, index + 1)
    <3>1. i + k = index + 1 /\ k \in 0..k
      BY <1>1, <1>3, <2>1, <2>2
    <3> QED BY <2>1, <2>3, <3>1
  <2>5. CASE index <= Len(p)
    <3>1. ASSUME NEW j \in 0..(index - _pos - 1) PROVE at[j] # Null
      <4>1. i + j \in 1..Len(p) /\ j \in 0..k
        BY <1>1, <1>3, <2>1, <2>2, <2>5
      <4> QED BY <1>1, <2>3, <4>1, NthIs
    <3>2. index \in 0..Len(p)
      BY <1>3, <1>4, <2>5
    <3> QED BY <1>2, <1>4, <2>4, <3>1, <3>2
  <2>6. CASE index > Len(p)
    <3>1. PICK j \in Nat : j = Len(p) - _pos
      BY <1>1, <1>3
    <3>2. j \in 0..(index - _pos - 1) /\ j \in 0..k /\ i + j \notin 1..Len(p)
      BY <1>1, <1>3, <2>1, <2>2, <2>6, <3>1
    <3>3. at[j] = Null
      BY <1>1, <2>3, <3>2, NthIs
    <3>4. index \notin 0..Len(p)
      BY <2>6
    <3> QED BY <1>2, <3>2, <3>3, <3>4
  <2> QED BY <1>1, <2>5, <2>6
<1>5. CASE index < _pos
  <2>1. ~Found /\ index \notin 0..Len(p)
    BY <1>3, <1>5
  <2> HIDE DEF Found
  <2> QED BY <1>2, <2>1
<1> QED BY <1>3, <1>4, <1>5

(* What it remembers is right.                                             *)
LEMMA MarkedOk ==
  ASSUME NEW l, NEW p, IsList(l, p), NEW i \in 0..Len(p), NEW n,
         n = Nth(p, i + 1)
  PROVE  /\ IsList(Marked(l, i, n), p)
         /\ Held(Marked(l, i, n), p) = Held(l, p)
         /\ Marked(l, i, n).lastIndexGot = i
<1> DEFINE m == Marked(l, i, n)
<1>1. l \in List /\ Links(l, p)
  BY DEF IsList
<1>2. n \in NodeOrNull /\ i \in Nat /\ Len(p) \in Nat
  BY <1>1, NthIs DEF Links
<1>3. /\ m \in List /\ m.isCached /\ m.lastIndexGot = i /\ m.lastNodeGot = n
      /\ m.root = l.root /\ m.last = l.last /\ m._size = l._size
      /\ m.live = l.live /\ m.data = l.data /\ m.next = l.next
  BY <1>1, <1>2 DEF Marked, List
<1> HIDE DEF m
<1>4. Links(m, p)
  BY <1>1, <1>3 DEF Links
<1>5. Cache(m, p)
  BY <1>3 DEF Cache
<1>6. Held(m, p) = Held(l, p)
  BY <1>3 DEF Held
<1> QED BY <1>3, <1>4, <1>5, <1>6 DEF IsList, m

-----------------------------------------------------------------------------
(* The heap has a free node for a list that does not fill it.              *)
LEMMA FreeNode ==
  ASSUME NEW l, NEW p, Links(l, p), Len(p) < MaxNodes
  PROVE  Fresh(l) \in Node \ l.live
<1>1. p \in Seq(Node) /\ Len(p) \in Nat /\ l.live = Nodes(p)
  BY DEF Links
<1>2. Node \ l.live # {}
  <2> SUFFICES ASSUME Node \subseteq l.live PROVE FALSE
    OBVIOUS
  <2>1. p \in Surjection(1..Len(p), Node)
    BY <1>1 DEF Surjection, Nodes
  <2>2. /\ IsFiniteSet(1..Len(p)) /\ Cardinality(1..Len(p)) = Len(p)
        /\ Cardinality(Node) = MaxNodes
    <3>1. PICK n \in Nat : n = Len(p)
      BY <1>1
    <3>2. /\ IsFiniteSet(1..n) /\ Cardinality(1..n) = n
          /\ Cardinality(1..MaxNodes) = MaxNodes
      <4>1. \A k \in Nat : k \in Int /\ 1 \in Int
                         /\ (IF 1 > k THEN 0 ELSE k - 1 + 1) = k
        OBVIOUS
      <4>2. \A k \in Nat : IsFiniteSet(1..k) /\ Cardinality(1..k) = k
        BY <4>1, FS_Interval
      <4> QED BY <4>2, Sizes
    <3> QED BY <3>1, <3>2 DEF Node
  <2>3. Cardinality(Node) <= Cardinality(1..Len(p))
    BY <2>1, <2>2, FS_Surjection, Zenon
  <2> QED BY <1>1, <2>2, <2>3, Sizes
<1>3. Node \ l.live \in SUBSET Nat
  BY Sizes DEF Node
<1>4. \E n \in Node \ l.live : \A k \in Node \ l.live : n <= k
  BY <1>2, <1>3, Least
<1> QED BY <1>4, Zenon DEF Fresh

(* add() puts the text behind the others.                                  *)
LEMMA AddOk ==
  ASSUME NEW l, NEW p, IsList(l, p), Len(p) < MaxNodes, NEW t \in Stored
  PROVE  \E q : /\ IsList(add(l, t), q) /\ Len(q) = Len(p) + 1
                /\ Held(add(l, t), q) = Append(Held(l, p), t)
                /\ add(l, t).lastIndexGot = l.lastIndexGot
<1>1. /\ l \in List /\ Links(l, p) /\ p \in Seq(Node) /\ Len(p) \in Nat
      /\ l.last = Nth(p, Len(p)) /\ l.root = Nth(p, 1)
  BY DEF IsList, Links
<1>2. PICK tmp \in Node \ l.live : tmp = Fresh(l)
  BY <1>1, FreeNode
<1>3. tmp # Null /\ \A i \in 1..Len(p) : p[i] # tmp
  <2>1. \A i \in 1..Len(p) : p[i] \in l.live
    BY <1>1 DEF Links, Nodes
  <2> QED BY <2>1, Sizes DEF Node, Null
<1> DEFINE m == add(l, t)
           q == Append(p, tmp)
<1>4. /\ m \in List /\ ~m.isCached /\ m.lastIndexGot = l.lastIndexGot
      /\ m.live = l.live \cup {tmp} /\ m._size = l._size + 1 /\ m.last = tmp
      /\ m.root = IF l.root = Null THEN tmp ELSE l.root
      /\ \A n \in Node : m.data[n] = IF n = tmp THEN t ELSE l.data[n]
      /\ \A n \in Node : m.next[n] = IF n = tmp THEN Null
                                     ELSE IF n = l.last /\ l.root # Null
                                       THEN tmp
                                     ELSE l.next[n]
  <2>1. l.last # tmp
    BY <1>1, <1>3 DEF Nth
  <2> DEFINE N == IF l.root = Null THEN [l.next EXCEPT ![tmp] = Null]
                  ELSE [l.next EXCEPT ![tmp] = Null, ![l.last] = tmp]
             D == [l.data EXCEPT ![tmp] = t]
             r == IF l.root = Null THEN tmp ELSE l.root
  <2>2. m = [l EXCEPT !.live = l.live \cup {tmp}, !.data = D, !.next = N,
                      !.root = r, !.last = tmp, !._size = l._size + 1,
                      !.isCached = FALSE]
    BY <1>2 DEF add
  <2>3. /\ N \in [Node -> NodeOrNull] /\ tmp \in NodeOrNull
        /\ \A n \in Node : N[n] = IF n = tmp THEN Null
                                  ELSE IF n = l.last /\ l.root # Null THEN tmp
                                  ELSE l.next[n]
    BY <1>1, <1>2, <2>1 DEF List, NodeOrNull
  <2>4. /\ D \in [Node -> Stored] /\ r \in NodeOrNull
        /\ \A n \in Node : D[n] = IF n = tmp THEN t ELSE l.data[n]
    BY <1>1, <2>3 DEF List
  <2> HIDE DEF m, N, D, r
  <2>5. /\ m \in List /\ ~m.isCached /\ m.lastIndexGot = l.lastIndexGot
        /\ m.live = l.live \cup {tmp} /\ m._size = l._size + 1 /\ m.last = tmp
        /\ m.root = r /\ m.data = D /\ m.next = N
    <3> DEFINE v == l.live \cup {tmp}
               z == l._size + 1
    <3>1. v \in SUBSET Node /\ z \in Nat
      BY <1>1, <1>2 DEF List
    <3>2. m = [l EXCEPT !.live = v, !.data = D, !.next = N, !.root = r,
                        !.last = tmp, !._size = z, !.isCached = FALSE]
      BY <2>2
    <3> HIDE DEF v, z
    <3>3. /\ m \in List /\ ~m.isCached /\ m.lastIndexGot = l.lastIndexGot
          /\ m.live = v /\ m._size = z /\ m.last = tmp
          /\ m.root = r /\ m.data = D /\ m.next = N
      BY <1>1, <2>3, <2>4, <3>1, <3>2 DEF List
    <3> QED BY <3>3 DEF v, z
  <2> QED BY <2>3, <2>4, <2>5 DEF r
<1>5. /\ q \in Seq(Node) /\ Len(q) = Len(p) + 1 /\ q[Len(p) + 1] = tmp
      /\ \A i \in 1..Len(p) : q[i] = p[i]
  BY <1>1
<1> HIDE DEF m, q
<1>6. Links(m, q)
  <2>1. \A i, j \in 1..Len(q) : q[i] = q[j] => i = j
    <3> SUFFICES ASSUME NEW i \in 1..Len(q), NEW j \in 1..Len(q), q[i] = q[j]
                 PROVE  i = j
      OBVIOUS
    <3>1. /\ i \in 1..Len(p) \/ i = Len(p) + 1
          /\ j \in 1..Len(p) \/ j = Len(p) + 1
      BY <1>1, <1>5
    <3> QED BY <1>1, <1>3, <1>5, <3>1 DEF Links
  <2>2. m.live = Nodes(q)
    <3>1. 1..Len(q) = 1..Len(p) \cup {Len(p) + 1}
      BY <1>1, <1>5
    <3>2. Nodes(q) = Nodes(p) \cup {tmp}
      BY <1>5, <3>1 DEF Nodes
    <3> QED BY <1>1, <1>4, <3>2 DEF Links
  <2>3. m._size = Len(q) /\ m.last = Nth(q, Len(q))
    BY <1>1, <1>4, <1>5 DEF Links, Nth
  <2>4. m.root = Nth(q, 1)
    BY <1>1, <1>3, <1>4, <1>5, NthIs DEF Nth
  <2>5. ASSUME NEW i \in 1..Len(q) PROVE m.next[q[i]] = Nth(q, i + 1)
    <3>1. CASE i = Len(p) + 1
      <4>1. q[i] = tmp /\ Nth(q, i + 1) = Null
        BY <1>1, <1>5, <3>1 DEF Nth
      <4>2. tmp # l.last
        BY <1>1, <1>3 DEF Nth
      <4> QED BY <1>2, <1>4, <4>1, <4>2
    <3>2. CASE i = Len(p)
      <4>1. /\ i \in 1..Len(p) /\ q[i] = p[i] /\ Nth(q, i + 1) = tmp
            /\ l.last = p[i] /\ l.root # Null
        BY <1>1, <1>5, <3>2, NthIs DEF Nth
      <4>2. p[i] \in Node /\ p[i] # tmp
        BY <1>1, <1>3, <4>1
      <4> QED BY <1>4, <4>1, <4>2
    <3>3. CASE i < Len(p)
      <4>1. i \in 1..Len(p) /\ Len(p) \in 1..Len(p) /\ i # Len(p)
            /\ i + 1 \in 1..Len(p) /\ i + 1 \in 1..Len(q)
        BY <1>1, <1>5, <3>3
      <4>2. p[i] \in Node /\ p[i] # tmp /\ l.last = p[Len(p)]
            /\ p[i] # p[Len(p)]
        BY <1>1, <1>3, <4>1 DEF Links, Nth
      <4>3. m.next[p[i]] = l.next[p[i]] /\ l.next[p[i]] = Nth(p, i + 1)
        BY <1>1, <1>4, <4>1, <4>2 DEF Links
      <4> QED BY <1>5, <4>1, <4>3 DEF Nth
    <3> QED BY <1>1, <1>5, <3>1, <3>2, <3>3
  <2> QED BY <1>5, <2>1, <2>2, <2>3, <2>4, <2>5 DEF Links
<1>7. Held(m, q) = Append(Held(l, p), t)
  <2>1. PICK x \in Seq(Stored) : x = Held(l, p)
    BY <1>1, HeldIs
  <2>2. PICK y \in Seq(Stored) : y = Held(m, q)
    BY <1>4, <1>5, HeldIs
  <2>3. /\ Len(x) = Len(p) /\ \A i \in 1..Len(p) : x[i] = l.data[p[i]]
        /\ Len(y) = Len(p) + 1 /\ \A i \in 1..Len(p) + 1 : y[i] = m.data[q[i]]
    <3>1. Len(x) = Len(p) /\ \A i \in 1..Len(p) : x[i] = l.data[p[i]]
      BY <1>1, <2>1, HeldIs
    <3>2. Len(y) = Len(q) /\ \A i \in 1..Len(q) : y[i] = m.data[q[i]]
      BY <1>4, <1>5, <2>2, HeldIs
    <3> QED BY <1>5, <3>1, <3>2
  <2>4. /\ Append(x, t) \in Seq(Stored) /\ Len(Append(x, t)) = Len(p) + 1
        /\ \A i \in 1..Len(p) : Append(x, t)[i] = x[i]
        /\ Append(x, t)[Len(p) + 1] = t
    BY <2>3
  <2>5. ASSUME NEW i \in 1..Len(p) + 1 PROVE y[i] = Append(x, t)[i]
    <3>1. CASE i = Len(p) + 1
      BY <1>2, <1>4, <1>5, <2>3, <2>4, <3>1
    <3>2. CASE i # Len(p) + 1
      <4>1. i \in 1..Len(p) /\ q[i] = p[i] /\ p[i] \in Node /\ p[i] # tmp
        BY <1>1, <1>3, <1>5, <3>2
      <4> QED BY <1>4, <2>3, <2>4, <4>1
    <3> QED BY <3>1, <3>2
  <2>6. PICK z \in Seq(Stored) : z = Append(x, t)
    BY <2>4
  <2>7. y = z
    BY <2>3, <2>4, <2>5, <2>6, SeqEqual
  <2> QED BY <2>1, <2>2, <2>6, <2>7
<1>8. Cache(m, q)
  BY <1>4 DEF Cache
<1>9. IsList(m, q)
  BY <1>4, <1>6, <1>8 DEF IsList
<1> QED BY <1>4, <1>5, <1>7, <1>9 DEF m

-----------------------------------------------------------------------------
(* A sequence without its ith element.                                     *)
Without(p, i) == [j \in 1..Len(p) - 1 |-> IF j < i THEN p[j] ELSE p[j + 1]]

(* It is one shorter, and has the others in their order.                   *)
LEMMA WithoutIs ==
  ASSUME NEW S, NEW p \in Seq(S), NEW i \in 1..Len(p)
  PROVE  /\ Without(p, i) \in Seq(S) /\ Len(Without(p, i)) = Len(p) - 1
         /\ \A j \in 1..Len(p) - 1 :
              Without(p, i)[j] = IF j < i THEN p[j] ELSE p[j + 1]
<1>1. Len(p) - 1 \in Nat
  OBVIOUS
<1>2. \A j \in 1..Len(p) - 1 : j \in 1..Len(p) /\ j + 1 \in 1..Len(p)
  OBVIOUS
<1>3. \A j \in 1..Len(p) - 1 : (IF j < i THEN p[j] ELSE p[j + 1]) \in S
  BY <1>2
<1> QED BY <1>1, <1>3 DEF Without

(* What a sequence of nodes is without one of them.                        *)
LEMMA NodesWithout ==
  ASSUME NEW p \in Seq(Node), NEW i \in 1..Len(p),
         \A j, k \in 1..Len(p) : p[j] = p[k] => j = k
  PROVE  LET q == Without(p, i)
         IN  /\ \A j, k \in 1..Len(q) : q[j] = q[k] => j = k
             /\ Nodes(q) = Nodes(p) \ {p[i]}
             /\ \A j \in Nat \ {0} :
                  Nth(q, j) = IF j < i THEN Nth(p, j) ELSE Nth(p, j + 1)
<1> DEFINE q == Without(p, i)
<1>1. /\ Len(p) \in Nat /\ Len(q) = Len(p) - 1
      /\ \A j \in 1..Len(q) : q[j] = IF j < i THEN p[j] ELSE p[j + 1]
  <2>1. /\ Len(q) = Len(p) - 1
        /\ \A j \in 1..Len(p) - 1 : q[j] = IF j < i THEN p[j] ELSE p[j + 1]
    BY WithoutIs, Zenon
  <2> QED BY <2>1
<1> HIDE DEF q
<1>2. \A j, k \in 1..Len(q) : q[j] = q[k] => j = k
  <2> SUFFICES ASSUME NEW j \in 1..Len(q), NEW k \in 1..Len(q), q[j] = q[k]
               PROVE  j = k
    OBVIOUS
  <2>1. /\ j \in 1..Len(p) /\ j + 1 \in 1..Len(p)
        /\ k \in 1..Len(p) /\ k + 1 \in 1..Len(p)
    BY <1>1
  <2> QED BY <1>1, <2>1, SMTT(30)
<1>3. ASSUME NEW j \in 1..Len(q)
      PROVE  q[j] \in Nodes(p) \ {p[i]}
  <2>1. j \in 1..Len(p) /\ j + 1 \in 1..Len(p) /\ j + 1 # j
    BY <1>1
  <2>2. CASE j < i
    BY <1>1, <2>1, <2>2 DEF Nodes
  <2>3. CASE ~ (j < i)
    <3>1. j + 1 # i
      BY <2>3
    <3> QED BY <1>1, <2>1, <2>3, <3>1 DEF Nodes
  <2> QED BY <2>2, <2>3
<1>4. ASSUME NEW k \in 1..Len(p), k # i
      PROVE  \E j \in 1..Len(q) : q[j] = p[k]
  <2>1. CASE k < i
    <3>1. k \in 1..Len(q)
      BY <1>1, <2>1
    <3> QED BY <1>1, <2>1, <3>1
  <2>2. CASE k > i
    <3>1. k - 1 \in 1..Len(q) /\ ~ (k - 1 < i) /\ k - 1 + 1 = k
      BY <1>1, <2>2
    <3> QED BY <1>1, <3>1
  <2> QED BY <1>4, <2>1, <2>2
<1>5. Nodes(q) = Nodes(p) \ {p[i]}
  BY <1>3, <1>4 DEF Nodes
<1>6. ASSUME NEW j \in Nat \ {0}
      PROVE  Nth(q, j) = IF j < i THEN Nth(p, j) ELSE Nth(p, j + 1)
  <2>1. j < i => j \in 1..Len(q) /\ j \in 1..Len(p)
    BY <1>1
  <2>2. ~ (j < i) => (j \in 1..Len(q) <=> j + 1 \in 1..Len(p))
    BY <1>1
  <2> QED BY <1>1, <2>1, <2>2 DEF Nth
<1> QED BY <1>2, <1>5, <1>6, Zenon DEF q

(* A list m that is l without its ith node.                                *)
Cut(l, p, m, i) ==
  /\ m \in List /\ m.data = l.data
  /\ m.live = l.live \ {p[i]} /\ m._size = l._size - 1
  /\ m.root = IF i = 1 THEN Nth(p, 2) ELSE l.root
  /\ m.last = IF i = Len(p) THEN Nth(p, Len(p) - 1) ELSE l.last
  /\ \A j \in 1..Len(p) : j # i =>
       m.next[p[j]] = IF j = i - 1 THEN Nth(p, i + 1) ELSE l.next[p[j]]
  /\ Cache(m, Without(p, i))

(* A list without one of its nodes is a list of the others, with their     *)
(* texts.                                                                  *)
LEMMA Removed ==
  ASSUME NEW l, NEW p, IsList(l, p), NEW i \in 1..Len(p), NEW m,
         Cut(l, p, m, i)
  PROVE  /\ IsList(m, Without(p, i)) /\ Len(Without(p, i)) = Len(p) - 1
         /\ Held(m, Without(p, i)) = Without(Held(l, p), i)
<1>1. /\ l \in List /\ Links(l, p) /\ p \in Seq(Node) /\ Len(p) \in Nat
      /\ \A j, k \in 1..Len(p) : p[j] = p[k] => j = k
      /\ l.root = Nth(p, 1) /\ l.last = Nth(p, Len(p))
      /\ \A j \in 1..Len(p) : l.next[p[j]] = Nth(p, j + 1)
  BY DEF IsList, Links
<1>a. /\ m \in List /\ m.data = l.data
      /\ m.live = l.live \ {p[i]} /\ m._size = l._size - 1
      /\ m.root = IF i = 1 THEN Nth(p, 2) ELSE l.root
      /\ m.last = IF i = Len(p) THEN Nth(p, Len(p) - 1) ELSE l.last
      /\ \A j \in 1..Len(p) : j # i =>
           m.next[p[j]] = IF j = i - 1 THEN Nth(p, i + 1) ELSE l.next[p[j]]
      /\ Cache(m, Without(p, i))
  BY DEF Cut
<1>2. PICK q \in Seq(Node) : q = Without(p, i)
  BY <1>1, WithoutIs
<1>3. /\ Len(q) = Len(p) - 1
      /\ \A j \in 1..Len(q) : q[j] = IF j < i THEN p[j] ELSE p[j + 1]
  <2>1. /\ Len(Without(p, i)) = Len(p) - 1
        /\ \A j \in 1..Len(p) - 1 :
             Without(p, i)[j] = IF j < i THEN p[j] ELSE p[j + 1]
    BY <1>1, WithoutIs
  <2> QED BY <1>2, <2>1
<1>4. /\ \A j, k \in 1..Len(q) : q[j] = q[k] => j = k
      /\ Nodes(q) = Nodes(p) \ {p[i]}
      /\ \A j \in Nat \ {0} :
           Nth(q, j) = IF j < i THEN Nth(p, j) ELSE Nth(p, j + 1)
  <2>1. /\ p \in Seq(Node) /\ i \in 1..Len(p)
        /\ \A j, k \in 1..Len(p) : p[j] = p[k] => j = k
    BY <1>1
  <2> DEFINE w == Without(p, i)
  <2>2. /\ \A j, k \in 1..Len(w) : w[j] = w[k] => j = k
        /\ Nodes(w) = Nodes(p) \ {p[i]}
        /\ \A j \in Nat \ {0} :
             Nth(w, j) = IF j < i THEN Nth(p, j) ELSE Nth(p, j + 1)
    BY <2>1, NodesWithout
  <2> HIDE DEF w
  <2>3. q = w
    BY <1>2 DEF w
  <2>4. \A j, k \in 1..Len(q) : q[j] = q[k] => j = k
    BY <2>2, <2>3
  <2>5. Nodes(q) = Nodes(p) \ {p[i]}
    BY <2>2, <2>3
  <2>6. \A j \in Nat \ {0} :
          Nth(q, j) = IF j < i THEN Nth(p, j) ELSE Nth(p, j + 1)
    BY <2>2, <2>3
  <2> QED BY <2>4, <2>5, <2>6
<1>5. m.root = Nth(q, 1)
  <2>1. 1 < i <=> i # 1
    OBVIOUS
  <2>2. Nth(q, 1) = IF 1 < i THEN Nth(p, 1) ELSE Nth(p, 1 + 1)
    BY <1>4
  <2> QED BY <1>a, <1>1, <2>1, <2>2
<1>6. m.last = Nth(q, Len(q))
  <2>0. PICK n \in Nat : n = Len(p)
    BY <1>1
  <2>1. CASE n = 1
    <3>1. i = 1 /\ i = Len(p) /\ Len(p) - 1 = 0 /\ Len(q) = 0
      BY <1>3, <2>0, <2>1
    <3>2. Nth(p, 0) = Null /\ Nth(q, 0) = Null
      BY DEF Nth
    <3> QED BY <1>a, <3>1, <3>2
  <2>2. CASE n # 1
    <3>1. /\ Len(q) \in Nat \ {0} /\ Len(q) + 1 = Len(p)
          /\ Len(q) < i <=> i = Len(p)
      BY <1>1, <1>3, <2>0, <2>2
    <3>2. Nth(q, Len(q)) = IF Len(q) < i THEN Nth(p, Len(q))
                         ELSE Nth(p, Len(q) + 1)
      BY <1>4, <3>1
    <3> QED BY <1>a, <1>1, <1>3, <3>1, <3>2
  <2> QED BY <2>1, <2>2
<1>7. ASSUME NEW j \in 1..Len(q) PROVE m.next[q[j]] = Nth(q, j + 1)
  <2>1. j \in 1..Len(p) /\ j + 1 \in 1..Len(p) /\ j + 1 \in Nat \ {0}
    BY <1>1, <1>3
  <2>2. Nth(q, j + 1) = IF j + 1 < i THEN Nth(p, j + 1) ELSE Nth(p, j + 1 + 1)
    BY <1>4, <2>1
  <2>3. CASE j + 1 < i
    <3>1. j < i /\ j # i /\ j # i - 1
      BY <2>3
    <3> QED BY <1>a, <1>1, <1>3, <2>1, <2>2, <2>3, <3>1
  <2>4. CASE j + 1 = i
    <3>1. j < i /\ j # i /\ j = i - 1 /\ ~ (j + 1 < i)
      BY <2>4
    <3> QED BY <1>a, <1>3, <2>1, <2>2, <2>4, <3>1
  <2>5. CASE j + 1 > i
    <3>1. ~ (j < i) /\ j + 1 # i /\ j + 1 # i - 1 /\ ~ (j + 1 < i)
      BY <2>5
    <3> QED BY <1>a, <1>1, <1>3, <2>1, <2>2, <3>1
  <2> QED BY <2>3, <2>4, <2>5
<1>8. m.live = Nodes(q) /\ m._size = Len(q)
  BY <1>a, <1>1, <1>3, <1>4 DEF Links
<1>9. Links(m, q)
  BY <1>2, <1>4, <1>5, <1>6, <1>7, <1>8 DEF Links
<1>10. Held(m, q) = Without(Held(l, p), i)
  <2>1. PICK x \in Seq(Stored) : x = Held(l, p)
    BY <1>1, HeldIs
  <2>2. PICK y \in Seq(Stored) : y = Held(m, q)
    BY <1>a, <1>2, HeldIs
  <2>3. /\ Len(x) = Len(p) /\ \A j \in 1..Len(p) : x[j] = l.data[p[j]]
        /\ Len(y) = Len(q) /\ \A j \in 1..Len(q) : y[j] = l.data[q[j]]
    BY <1>a, <1>1, <1>2, <2>1, <2>2, HeldIs
  <2>4. PICK z \in Seq(Stored) : z = Without(x, i)
    BY <2>3, WithoutIs
  <2>5. Len(z) = Len(q)
        /\ \A j \in 1..Len(q) : z[j] = IF j < i THEN x[j] ELSE x[j + 1]
    <3>1. i \in 1..Len(x)
      BY <2>3
    <3>2. /\ Len(z) = Len(x) - 1
          /\ \A j \in 1..Len(x) - 1 : z[j] = IF j < i THEN x[j] ELSE x[j + 1]
      <4>1. /\ Len(Without(x, i)) = Len(x) - 1
            /\ \A j \in 1..Len(x) - 1 :
                 Without(x, i)[j] = IF j < i THEN x[j] ELSE x[j + 1]
        BY <3>1, WithoutIs
      <4> QED BY <2>4, <4>1
    <3> QED BY <1>3, <2>3, <3>2
  <2>6. ASSUME NEW j \in 1..Len(q) PROVE y[j] = z[j]
    <3>1. j \in 1..Len(p) /\ j + 1 \in 1..Len(p)
      BY <1>1, <1>3
    <3>2. /\ y[j] = l.data[q[j]]
          /\ q[j] = IF j < i THEN p[j] ELSE p[j + 1]
          /\ z[j] = IF j < i THEN x[j] ELSE x[j + 1]
          /\ x[j] = l.data[p[j]] /\ x[j + 1] = l.data[p[j + 1]]
      BY <1>3, <2>3, <2>5, <3>1
    <3>3. CASE j < i
      BY <3>2, <3>3
    <3>4. CASE ~ (j < i)
      BY <3>2, <3>4
    <3> QED BY <3>3, <3>4
  <2>7. y = z
    BY <2>3, <2>5, <2>6, SeqEqual
  <2> QED BY <2>1, <2>2, <2>4, <2>7
<1> QED BY <1>a, <1>2, <1>3, <1>9, <1>10 DEF IsList

(* What a list remembers of an index, before and after a call.             *)
IndexKept(l, m, p) == m.lastIndexGot \in {l.lastIndexGot} \cup 0..Len(p)

(* What must hold of the list m for it to be l without its ith element.    *)
Shortened(l, p, m, i) ==
  /\ IsList(m, Without(p, i)) /\ Len(Without(p, i)) = Len(p) - 1
  /\ Held(m, Without(p, i)) = Without(Held(l, p), i)
  /\ IndexKept(l, m, p)

(* A list whose cache is dropped is the same list.                         *)
LEMMA Forgotten ==
  ASSUME NEW l, NEW p, IsList(l, p), NEW m, m = [l EXCEPT !.isCached = FALSE]
  PROVE  /\ IsList(m, p) /\ Held(m, p) = Held(l, p) /\ ~m.isCached
         /\ m.lastIndexGot = l.lastIndexGot
<1>1. l \in List /\ Links(l, p)
  BY DEF IsList
<1>2. /\ m \in List /\ ~m.isCached /\ m.root = l.root /\ m.last = l.last
      /\ m._size = l._size /\ m.lastIndexGot = l.lastIndexGot
      /\ m.live = l.live /\ m.data = l.data /\ m.next = l.next
  BY <1>1 DEF List
<1>3. Links(m, p)
  BY <1>1, <1>2 DEF Links
<1>4. Cache(m, p) /\ Held(m, p) = Held(l, p)
  BY <1>2 DEF Cache, Held
<1> QED BY <1>2, <1>3, <1>4 DEF IsList

(* pop() takes the last element, and forgets or corrects the cache.        *)
LEMMA PopOk ==
  ASSUME NEW l, NEW p, IsList(l, p), p # <<>>
  PROVE  Shortened(l, p, pop(l).list, Len(p))
<1> DEFINE k == [l EXCEPT !.isCached = FALSE]
           m == pop(l).list
<1>1. /\ l \in List /\ Links(l, p) /\ p \in Seq(Node)
      /\ \A i, j \in 1..Len(p) : p[i] = p[j] => i = j
      /\ l._size = Len(p) /\ Len(p) \in Nat /\ Len(p) > 0
  BY DEF IsList, Links
<1>2. /\ IsList(k, p) /\ Held(k, p) = Held(l, p) /\ ~k.isCached
      /\ k.lastIndexGot = l.lastIndexGot
  BY Forgotten
<1>3. pop(l) = popKeepsCache(k)
  BY <1>1 DEF pop
<1> HIDE DEF k
<1>4. /\ k \in List /\ Links(k, p) /\ k._size = Len(p) /\ k.root = Nth(p, 1)
      /\ \A i \in 1..Len(p) : k.next[p[i]] = Nth(p, i + 1)
  BY <1>2 DEF IsList, Links
<1>a. PICK n \in Nat : n = Len(p)
  BY <1>1
<1>b. /\ 1..Len(p) = 1..n /\ k._size = n /\ Len(p) - 1 = n - 1
  BY <1>4, <1>a
<1>5. CASE n = 1
  <2>1. m = [k EXCEPT !.live = @ \ {k.root}, !.root = Null, !.last = Null,
                      !._size = 0]
    BY <1>3, <1>5, <1>b DEF popKeepsCache
  <2>2. k.root = p[1] /\ Nth(p, 2) = Null /\ Nth(p, Len(p) - 1) = Null
        /\ Null \in NodeOrNull
    <3>1. 1 \in 1..Len(p) /\ 2 \notin 1..Len(p) /\ 0 \notin 1..Len(p)
          /\ Len(p) - 1 = 0
      BY <1>5, <1>b
    <3> QED BY <1>4, <3>1 DEF Nth, NodeOrNull
  <2> HIDE DEF m
  <2>3. /\ m \in List /\ ~m.isCached /\ m.lastIndexGot = k.lastIndexGot
        /\ m.live = k.live \ {p[1]} /\ m._size = 0 /\ m.root = Null
        /\ m.last = Null /\ m.data = k.data /\ m.next = k.next
    BY <1>2, <1>4, <2>1, <2>2 DEF List
  <2>4. Cache(m, Without(p, 1))
    BY <2>3 DEF Cache
  <2>5. /\ 1 \in 1..Len(p) /\ k._size - 1 = 0
        /\ \A j \in 1..Len(p) : j = 1
    BY <1>5, <1>b
  <2>6. /\ IsList(m, Without(p, 1)) /\ Len(Without(p, 1)) = Len(p) - 1
        /\ Held(m, Without(p, 1)) = Without(Held(k, p), 1)
    <3>1. Cut(k, p, m, 1)
      BY <1>2, <1>4, <1>5, <1>a, <2>2, <2>3, <2>4, <2>5 DEF Cut
    <3> QED BY <1>2, <2>5, <3>1, Removed
  <2>7. Shortened(l, p, m, 1)
    BY <1>2, <2>3, <2>6 DEF Shortened, IndexKept
  <2> QED BY <1>5, <1>a, <2>7 DEF m
<1>6. CASE n # 1
  <2>1. n = Len(p) /\ n >= 2
    BY <1>1, <1>6, <1>a
  <2> DEFINE x == p[n - 1]
             c == Marked(k, n - 2, x)
  <2>2. getNode(k, n - 2) = [list |-> c, node |-> x]
    <3>1. n - 2 \in 0..Len(p) /\ n - 2 + 1 = n - 1 /\ n - 2 \in Int
          /\ n - 1 \in 1..Len(p)
      BY <2>1
    <3>2. Nth(p, n - 1) = p[n - 1]
      BY <3>1 DEF Nth
    <3>3. getNode(k, n - 2) =
            IF n - 2 \in 0..Len(p)
            THEN [list |-> Marked(k, n - 2, Nth(p, n - 2 + 1)),
                  node |-> Nth(p, n - 2 + 1)]
            ELSE [list |-> k, node |-> Null]
      BY <1>2, <3>1, GetNodeIs
    <3> QED BY <3>1, <3>2, <3>3
  <2>3. /\ n - 1 \in 1..Len(p) /\ n \in 1..Len(p) /\ n - 1 + 1 = n
        /\ x \in Node /\ p[n] \in Node /\ k.next[x] = p[n]
        /\ x = Nth(p, n - 1)
    <3>1. n - 1 \in 1..Len(p) /\ n \in 1..Len(p) /\ n - 1 + 1 = n
      BY <2>1
    <3>2. k.next[x] = Nth(p, n - 1 + 1)
      BY <1>4, <3>1
    <3> QED BY <1>1, <3>1, <3>2 DEF Nth
  <2>4. /\ IsList(c, p) /\ Held(c, p) = Held(k, p) /\ c.lastIndexGot = n - 2
        /\ c.isCached /\ c.lastNodeGot = x
    <3>1. n - 2 \in 0..Len(p) /\ n - 2 + 1 = n - 1
      BY <2>1
    <3>2. c.isCached /\ c.lastNodeGot = x
      BY <1>4 DEF Marked, List
    <3> QED BY <1>2, <2>3, <3>1, <3>2, MarkedOk
  <2>5. c \in List /\ Links(c, p) /\ c._size = Len(p) /\ c.root = Nth(p, 1)
        /\ \A i \in 1..Len(p) : c.next[p[i]] = Nth(p, i + 1)
    BY <2>4 DEF IsList, Links
  <2>6. m = [c EXCEPT !.live = @ \ {p[n]}, !.next[x] = Null, !.last = x,
                      !._size = @ - 1]
    <3> HIDE DEF x, c
    <3>1. PICK g : g = getNode(k, n - 2) /\ g.list = c /\ g.node = x
      BY <2>2
    <3>2. k._size = n /\ ~ (k._size <= 0) /\ k._size >= 2
      BY <1>4, <2>1
    <3>3. popKeepsCache(k).list =
            [g.list EXCEPT !.live = @ \ {k.next[g.node]},
                           !.next[g.node] = Null, !.last = g.node,
                           !._size = @ - 1]
      BY <3>1, <3>2 DEF popKeepsCache
    <3>4. popKeepsCache(k).list =
            [c EXCEPT !.live = @ \ {p[n]}, !.next[x] = Null, !.last = x,
                      !._size = @ - 1]
      BY <2>3, <3>1, <3>3
    <3> QED BY <1>3, <3>4
  <2> HIDE DEF m, c, x
  <2> DEFINE v == c.live \ {p[n]}
             N == [c.next EXCEPT ![x] = Null]
             z == c._size - 1
  <2>7. /\ v \in SUBSET Node /\ z \in Nat /\ N \in [Node -> NodeOrNull]
        /\ x \in NodeOrNull
        /\ \A i \in Node : N[i] = IF i = x THEN Null ELSE c.next[i]
    BY <1>1, <2>3, <2>5 DEF List, NodeOrNull
  <2>8. m = [c EXCEPT !.live = v, !.next = N, !.last = x, !._size = z]
    BY <2>6
  <2> HIDE DEF v, N, z
  <2>9. /\ m \in List /\ m.lastIndexGot = n - 2 /\ m.lastNodeGot = x
        /\ m.live = v /\ m._size = z /\ m.root = c.root
        /\ m.last = x /\ m.data = c.data /\ m.next = N
    BY <2>4, <2>5, <2>7, <2>8 DEF List
  <2>10. Cache(m, Without(p, n))
    <3>1. PICK q \in Seq(Node) : q = Without(p, n)
      BY <1>1, <2>3, WithoutIs
    <3>2. /\ Len(q) = n - 1
          /\ \A j \in 1..n - 1 : q[j] = IF j < n THEN p[j] ELSE p[j + 1]
      BY <1>1, <2>1, <2>3, <3>1, WithoutIs
    <3>3. n - 1 \in 1..n - 1 /\ n - 1 < n /\ n - 2 + 1 = n - 1
          /\ n - 2 \in 0..n - 1
      BY <2>1
    <3>4. Nth(q, n - 1) = p[n - 1]
      BY <3>2, <3>3 DEF Nth
    <3> QED BY <2>9, <3>1, <3>2, <3>3, <3>4 DEF Cache, x
  <2>11. /\ m.last = Nth(p, Len(p) - 1) /\ n # 1
         /\ m._size = c._size - 1 /\ m.live = c.live \ {p[n]}
    BY <2>1, <2>3, <2>9 DEF v, z
  <2>12. ASSUME NEW j \in 1..Len(p), j # n
         PROVE  m.next[p[j]] = IF j = n - 1 THEN Nth(p, n + 1)
                               ELSE c.next[p[j]]
    <3>1. p[j] \in Node /\ (p[j] = x <=> j = n - 1)
      BY <1>1, <2>3 DEF x
    <3>2. Nth(p, n + 1) = Null
      BY <2>1 DEF Nth
    <3> QED BY <2>7, <2>9, <3>1, <3>2
  <2>13. /\ IsList(m, Without(p, n)) /\ Len(Without(p, n)) = Len(p) - 1
         /\ Held(m, Without(p, n)) = Without(Held(c, p), n)
    <3>1. m.root = IF n = 1 THEN Nth(p, 2) ELSE c.root
      BY <2>9, <2>11
    <3>2. m.last = IF n = Len(p) THEN Nth(p, Len(p) - 1) ELSE c.last
      BY <2>1, <2>11
    <3>3. m \in List /\ m.data = c.data
      BY <2>9
    <3>4. Cut(c, p, m, n)
      BY <2>10, <2>11, <2>12, <3>1, <3>2, <3>3, Zenon DEF Cut
    <3> QED BY <2>3, <2>4, <3>4, Removed
  <2>14. n - 2 \in 0..Len(p)
    BY <2>1
  <2>15. Shortened(l, p, m, n)
    BY <1>2, <2>4, <2>9, <2>13, <2>14 DEF Shortened, IndexKept
  <2> QED BY <2>1, <2>15 DEF m
<1> QED BY <1>5, <1>6

(* shift() takes the first element, and drops the cache.                   *)
LEMMA ShiftOk ==
  ASSUME NEW l, NEW p, IsList(l, p), p # <<>>
  PROVE  Shortened(l, p, shift(l).list, 1)
<1>1. /\ l \in List /\ Links(l, p) /\ p \in Seq(Node)
      /\ l._size = Len(p) /\ Len(p) \in Nat /\ Len(p) > 0
      /\ l.root = Nth(p, 1)
      /\ \A i \in 1..Len(p) : l.next[p[i]] = Nth(p, i + 1)
  <2>1. l \in List /\ Links(l, p)
    BY DEF IsList
  <2>2. /\ p \in Seq(Node) /\ l._size = Len(p) /\ l.root = Nth(p, 1)
        /\ \A i \in 1..Len(p) : l.next[p[i]] = Nth(p, i + 1)
    BY <2>1 DEF Links
  <2> QED BY <2>1, <2>2
<1>2. PICK n \in Nat : n = Len(p)
  BY <1>1
<1>3. l._size = n /\ 1..Len(p) = 1..n /\ n >= 1
  BY <1>1, <1>2
<1>4. CASE n = 1
  <2>1. shift(l) = pop(l)
    BY <1>3, <1>4 DEF shift
  <2> QED BY <1>2, <1>4, <2>1, PopOk
<1>5. CASE n # 1
  <2> DEFINE m == shift(l).list
             v == l.live \ {p[1]}
             r == l.next[p[1]]
             z == l._size - 1
  <2>1. /\ 1 \in 1..Len(p) /\ l.root = p[1] /\ p[1] \in Node
        /\ r = Nth(p, 2) /\ r \in NodeOrNull
        /\ v \in SUBSET Node /\ z \in Nat
    <3>1. 1 \in 1..Len(p) /\ 1 + 1 = 2
      BY <1>3
    <3>2. l.root = p[1] /\ p[1] \in Node
      BY <1>1, <3>1 DEF Nth
    <3> QED BY <1>1, <3>1, <3>2 DEF List
  <2>2. m = [l EXCEPT !.live = v, !.root = r, !._size = z, !.isCached = FALSE]
    <3>1. l._size > 1
      BY <1>3, <1>5
    <3>2. shiftKeepsCache(l) =
            [list |-> [l EXCEPT !.live = l.live \ {p[1]},
                                !.root = l.next[p[1]],
                                !._size = l._size - 1],
             data |-> <<l.data[p[1]]>>]
      BY <2>1, <3>1 DEF shiftKeepsCache
    <3>3. PICK g : g = shiftKeepsCache(l)
      OBVIOUS
    <3>4. shift(l) = [g EXCEPT !.list.isCached = FALSE]
      BY <3>1, <3>3 DEF shift
    <3> HIDE DEF m, v, r, z
    <3>5. g.list = [l EXCEPT !.live = v, !.root = r, !._size = z]
      BY <3>2, <3>3 DEF v, r, z
    <3>6. shift(l).list = [g.list EXCEPT !.isCached = FALSE]
      BY <3>2, <3>3, <3>4
    <3> QED BY <1>1, <3>5, <3>6 DEF m, List
  <2> HIDE DEF m, v, r, z
  <2>3. /\ m \in List /\ ~m.isCached /\ m.lastIndexGot = l.lastIndexGot
        /\ m.live = v /\ m._size = z /\ m.root = r
        /\ m.last = l.last /\ m.data = l.data /\ m.next = l.next
    BY <1>1, <2>1, <2>2 DEF List
  <2>4. Cut(l, p, m, 1)
    <3>1. /\ m.live = l.live \ {p[1]} /\ m._size = l._size - 1
          /\ m.root = IF 1 = 1 THEN Nth(p, 2) ELSE l.root
      BY <2>1, <2>3 DEF v, z
    <3>2. m.last = IF 1 = Len(p) THEN Nth(p, Len(p) - 1) ELSE l.last
      BY <1>2, <1>5, <2>3
    <3>3. \A j \in 1..Len(p) : j # 1 =>
            m.next[p[j]] = IF j = 1 - 1 THEN Nth(p, 1 + 1) ELSE l.next[p[j]]
      BY <1>3, <2>3
    <3>4. Cache(m, Without(p, 1))
      BY <2>3 DEF Cache
    <3> QED BY <2>3, <3>1, <3>2, <3>3, <3>4 DEF Cut
  <2>5. Shortened(l, p, m, 1)
    BY <2>1, <2>3, <2>4, Removed DEF Shortened, IndexKept
  <2> QED BY <2>5 DEF m
<1> QED BY <1>4, <1>5

(* A node between two others is taken out.                                 *)
LEMMA UnlinkOk ==
  ASSUME NEW l, NEW p, IsList(l, p), NEW i \in Int, i >= 1, i < Len(p) - 1
  PROVE  Shortened(l, p, unlink(l, i).list, i + 1)
<1>1. /\ l \in List /\ Links(l, p) /\ p \in Seq(Node) /\ Len(p) \in Nat
      /\ \A j, k \in 1..Len(p) : p[j] = p[k] => j = k
  BY DEF IsList, Links
<1>2. /\ i \in 1..Len(p) /\ i + 1 \in 1..Len(p) /\ i + 2 \in 1..Len(p)
      /\ i - 1 \in 0..Len(p) /\ i - 1 + 1 = i /\ i - 1 \in Int
      /\ i + 1 # 1 /\ i + 1 # Len(p) /\ i + 1 - 1 = i /\ i + 1 + 1 = i + 2
  BY <1>1
<1> DEFINE c == Marked(l, i - 1, p[i])
<1>3. getNode(l, i - 1) = [list |-> c, node |-> p[i]]
  <2>1. Nth(p, i - 1 + 1) = p[i]
    BY <1>2 DEF Nth
  <2>2. getNode(l, i - 1) = IF i - 1 \in 0..Len(p)
          THEN [list |-> Marked(l, i - 1, Nth(p, i - 1 + 1)),
                node |-> Nth(p, i - 1 + 1)]
          ELSE [list |-> l, node |-> Null]
    BY <1>2, GetNodeIs
  <2> QED BY <1>2, <2>1, <2>2
<1>4. /\ IsList(c, p) /\ Held(c, p) = Held(l, p) /\ c.lastIndexGot = i - 1
      /\ p[i] = Nth(p, i - 1 + 1)
  <2>1. p[i] = Nth(p, i - 1 + 1)
    BY <1>2 DEF Nth
  <2>2. PICK k, x : /\ k \in 0..Len(p) /\ k = i - 1
                  /\ x = p[i] /\ x = Nth(p, k + 1)
    BY <1>2, <2>1
  <2>3. /\ IsList(Marked(l, k, x), p) /\ Held(Marked(l, k, x), p) = Held(l, p)
        /\ Marked(l, k, x).lastIndexGot = k
    BY <2>2, MarkedOk
  <2> QED BY <2>1, <2>2, <2>3
<1> HIDE DEF c
<1>5. /\ c \in List /\ Links(c, p) /\ c._size = Len(p)
      /\ c.root = Nth(p, 1) /\ c.last = Nth(p, Len(p))
      /\ \A j \in 1..Len(p) : c.next[p[j]] = Nth(p, j + 1)
      /\ \A j \in 1..Len(p) : l.next[p[j]] = Nth(p, j + 1)
  BY <1>4 DEF IsList, Links
<1>6. /\ l.next[p[i]] = p[i + 1] /\ l.next[p[i + 1]] = p[i + 2]
      /\ p[i] \in Node /\ p[i + 1] \in Node /\ p[i + 2] \in Node
  <2>1. l.next[p[i]] = Nth(p, i + 1) /\ l.next[p[i + 1]] = Nth(p, i + 2)
    BY <1>2, <1>5
  <2>2. Nth(p, i + 1) = p[i + 1] /\ Nth(p, i + 2) = p[i + 2]
    BY <1>2 DEF Nth
  <2> QED BY <1>1, <1>2, <2>1, <2>2
<1> DEFINE m == unlink(l, i).list
           v == c.live \ {p[i + 1]}
           N == [c.next EXCEPT ![p[i]] = p[i + 2]]
           z == c._size - 1
<1>7. m = [c EXCEPT !.next = N, !._size = z, !.isCached = FALSE, !.live = v]
  <2>1. PICK g : g = getNode(l, i - 1) /\ g.list = c /\ g.node = p[i]
    BY <1>3
  <2>2. PICK u : u = unlinkOnly(l, i)
    OBVIOUS
  <2>3. u = [list |-> [c EXCEPT !.next[p[i]] = p[i + 2], !._size = @ - 1,
                                !.isCached = FALSE],
             data |-> <<l.data[p[i + 1]]>>]
    BY <1>6, <2>1, <2>2 DEF unlinkOnly
  <2>4. u.list = [c EXCEPT !.next = N, !._size = z, !.isCached = FALSE]
    BY <2>3
  <2>5. unlink(l, i) = [u EXCEPT !.list.live = @ \ {p[i + 1]}]
    BY <1>6, <2>1, <2>2 DEF unlink
  <2> HIDE DEF N, z, v, m
  <2>6. unlink(l, i).list = [u.list EXCEPT !.live = u.list.live \ {p[i + 1]}]
    BY <2>3, <2>5
  <2>7. u.list.live = c.live
    BY <1>5, <2>4 DEF List
  <2> QED BY <1>5, <2>4, <2>6, <2>7 DEF m, v, List
<1>8. /\ v \in SUBSET Node /\ z \in Nat /\ N \in [Node -> NodeOrNull]
      /\ \A n \in Node : N[n] = IF n = p[i] THEN p[i + 2] ELSE c.next[n]
  BY <1>1, <1>2, <1>5, <1>6 DEF List, NodeOrNull
<1> HIDE DEF m, v, N, z
<1>9. /\ m \in List /\ ~m.isCached /\ m.lastIndexGot = i - 1
      /\ m.live = v /\ m._size = z /\ m.root = c.root
      /\ m.last = c.last /\ m.data = c.data /\ m.next = N
  BY <1>4, <1>5, <1>7, <1>8 DEF List
<1>10. Cut(c, p, m, i + 1)
  <2>1. m.live = c.live \ {p[i + 1]} /\ m._size = c._size - 1
    BY <1>9 DEF v, z
  <2>2. ASSUME NEW j \in 1..Len(p), j # i + 1
        PROVE  m.next[p[j]] = IF j = i + 1 - 1 THEN Nth(p, i + 1 + 1)
                              ELSE c.next[p[j]]
    <3>1. p[j] \in Node /\ (p[j] = p[i] <=> j = i) /\ Nth(p, i + 2) = p[i + 2]
      BY <1>1, <1>2 DEF Nth
    <3> QED BY <1>2, <1>8, <1>9, <3>1
  <2>3. Cache(m, Without(p, i + 1))
    BY <1>9 DEF Cache
  <2>4. /\ m.root = IF i + 1 = 1 THEN Nth(p, 2) ELSE c.root
        /\ m.last = IF i + 1 = Len(p) THEN Nth(p, Len(p) - 1) ELSE c.last
    BY <1>2, <1>9
  <2>5. m \in List /\ m.data = c.data
    BY <1>9
  <2>6. PICK k : k = i + 1
    OBVIOUS
  <2>7. \A j \in 1..Len(p) : j # k =>
          m.next[p[j]] = IF j = k - 1 THEN Nth(p, k + 1) ELSE c.next[p[j]]
    BY <2>2, <2>6
  <2>8. Cut(c, p, m, k)
    BY <2>1, <2>3, <2>4, <2>5, <2>6, <2>7, SMT DEF Cut
  <2> QED BY <2>6, <2>8
<1>11. Shortened(l, p, m, i + 1)
  BY <1>2, <1>4, <1>9, <1>10, Removed DEF Shortened, IndexKept
<1> QED BY <1>11 DEF m

(* remove(index) takes the element at index, when there is one.            *)
LEMMA RemoveOk ==
  ASSUME NEW l, NEW p, IsList(l, p), NEW i \in Int
  PROVE  IF i \in 0..Len(p) - 1 THEN Shortened(l, p, remove(l, i).list, i + 1)
         ELSE remove(l, i).list = l
<1>1. l._size = Len(p) /\ Len(p) \in Nat
  BY DEF IsList, Links
<1>2. CASE i \notin 0..Len(p) - 1
  <2>1. i < 0 \/ i >= l._size
    BY <1>1, <1>2
  <2> QED BY <1>2, <2>1 DEF remove
<1>3. CASE i \in 0..Len(p) - 1
  <2>1. ~ (i < 0 \/ i >= l._size) /\ p # <<>>
    BY <1>1, <1>3
  <2>2. CASE i = 0
    <3>1. remove(l, i) = shift(l) /\ i + 1 = 1
      BY <2>1, <2>2 DEF remove
    <3> QED BY <1>3, <2>1, <3>1, ShiftOk
  <2>3. CASE i # 0 /\ i = l._size - 1
    <3>1. remove(l, i) = pop(l) /\ i + 1 = Len(p)
      BY <1>1, <2>1, <2>3 DEF remove
    <3> QED BY <1>3, <2>1, <3>1, PopOk
  <2>4. CASE i # 0 /\ i # l._size - 1
    <3>1. remove(l, i) = unlink(l, i) /\ i >= 1 /\ i < Len(p) - 1
      BY <1>1, <1>3, <2>1, <2>4 DEF remove
    <3> QED BY <1>3, <3>1, UnlinkOk
  <2> QED BY <2>2, <2>3, <2>4
<1> QED BY <1>2, <1>3

-----------------------------------------------------------------------------
(* Path is the sequence of nodes.                                          *)
PathOf(l) ==
  LET at == Steps(l, l.root, MaxNodes)
  IN  [i \in {j \in 1..(MaxNodes + 1) : at[j - 1] # Null} |-> at[i - 1]]

ContentsOf(l) == [i \in DOMAIN PathOf(l) |-> l.data[PathOf(l)[i]]]

(* The path along a list is its sequence of nodes, and the texts on it are *)
(* those held.                                                             *)
LEMMA PathIs ==
  ASSUME NEW l, NEW p, IsList(l, p), Len(p) <= MaxNodes
  PROVE  PathOf(l) = p /\ ContentsOf(l) = Held(l, p)
<1> DEFINE at == Steps(l, l.root, MaxNodes)
           D  == {j \in 1..(MaxNodes + 1) : at[j - 1] # Null}
<1>1. /\ Links(l, p) /\ p \in Seq(Node) /\ Len(p) \in Nat
      /\ l.root = Nth(p, 1) /\ 1 \in 1..Len(p) + 1
  BY DEF IsList, Links
<1>2. \A j \in 0..MaxNodes : at[j] = Nth(p, 1 + j)
  <2>1. PICK i \in 1..Len(p) + 1, k \in Nat : i = 1 /\ k = MaxNodes
    BY <1>1, Sizes
  <2>2. \A j \in 0..k : Steps(l, Nth(p, i), k)[j] = Nth(p, i + j)
    <3>1. Links(l, p)
      BY <1>1
    <3> HIDE DEF at, D
    <3> QED BY <3>1, Walk, SMT
  <2>3. at = Steps(l, Nth(p, i), k)
    BY <1>1, <2>1, Zenon
  <2> HIDE DEF at
  <2> QED BY <2>1, <2>2, <2>3
<1>3. PathOf(l) = [i \in D |-> at[i - 1]]
  BY Zenon DEF PathOf
<1> HIDE DEF at
<1>4. ASSUME NEW j \in 1..(MaxNodes + 1)
      PROVE  at[j - 1] = Nth(p, j) /\ (at[j - 1] # Null <=> j \in 1..Len(p))
  <2>1. j - 1 \in 0..MaxNodes /\ 1 + (j - 1) = j
    BY Sizes
  <2>2. at[j - 1] = Nth(p, j)
    BY <1>2, <2>1
  <2> QED BY <1>1, <2>2, NthIs
<1>5. D = 1..Len(p)
  <2>1. 1..Len(p) \subseteq 1..(MaxNodes + 1)
    BY <1>1, Sizes
  <2> QED BY <1>4, <2>1
<1> HIDE DEF D
<1>6. \A i \in 1..Len(p) : at[i - 1] = p[i]
  <2>1. \A i \in 1..Len(p) : i \in 1..(MaxNodes + 1) /\ Nth(p, i) = p[i]
    BY <1>1, Sizes DEF Nth
  <2> QED BY <1>4, <2>1
<1>7. PathOf(l) = [i \in 1..Len(p) |-> p[i]]
  BY <1>3, <1>5, <1>6
<1>8. PathOf(l) = p /\ DOMAIN PathOf(l) = 1..Len(p)
  BY <1>1, <1>7
<1>9. ContentsOf(l) = Held(l, p)
  BY <1>8, Zenon DEF ContentsOf, Held
<1> QED BY <1>8, <1>9

-----------------------------------------------------------------------------
(* Reading in order: after k elements the list is the same but for what it *)
(* remembers, and what was read is the first k texts.                      *)
ReadTo(l, p, k) ==
  [list |-> IF k = 0 THEN l ELSE Marked(l, k - 1, p[k]),
   data |-> SubSeq(Held(l, p), 1, k)]

ReadNext(r, k) ==
  LET g == get(r.list, k) IN [list |-> g.list, data |-> r.data \o g.data]

IsReading(r, l) ==
  r = [k \in 0..l._size |-> IF k = 0 THEN [list |-> l, data |-> <<>>]
                            ELSE ReadNext(r[k - 1], k - 1)]

(* get() at a position of the list reads the text there; just past the end *)
(* it remembers NULL; elsewhere it does nothing.                           *)
LEMMA GetIs ==
  ASSUME NEW l, NEW p, IsList(l, p), NEW i \in Int
  PROVE  IF i \in 0..Len(p) - 1
         THEN /\ get(l, i).list = Marked(l, i, p[i + 1])
              /\ get(l, i).data = <<l.data[p[i + 1]]>>
         ELSE /\ get(l, i).list = IF i = Len(p) THEN Marked(l, i, Null) ELSE l
              /\ get(l, i).data = <<>>
<1>1. p \in Seq(Node) /\ Len(p) \in Nat
  BY DEF IsList, Links
<1>2. getNode(l, i) =
        IF i \in 0..Len(p) THEN [list |-> Marked(l, i, Nth(p, i + 1)),
                                 node |-> Nth(p, i + 1)]
        ELSE [list |-> l, node |-> Null]
  BY GetNodeIs
<1>3. PICK g : g = getNode(l, i)
  OBVIOUS
<1>4. /\ get(l, i).list = g.list
      /\ get(l, i).data = IF g.node = Null THEN <<>> ELSE <<l.data[g.node]>>
  BY <1>3 DEF get
<1>5. CASE i \in 0..Len(p) - 1
  <2>1. i \in 0..Len(p) /\ i + 1 \in 1..Len(p)
    BY <1>1, <1>5
  <2>2. Nth(p, i + 1) = p[i + 1] /\ p[i + 1] # Null
    BY <1>1, <2>1, NthIs
  <2> QED BY <1>2, <1>3, <1>4, <1>5, <2>1, <2>2
<1>6. CASE i = Len(p)
  <2>1. i \in 0..Len(p) /\ i \notin 0..Len(p) - 1 /\ i + 1 \notin 1..Len(p)
    BY <1>1, <1>6
  <2>2. Nth(p, i + 1) = Null
    BY <2>1 DEF Nth
  <2> QED BY <1>2, <1>3, <1>4, <1>6, <2>1, <2>2
<1>7. CASE i \notin 0..Len(p)
  <2>1. i \notin 0..Len(p) - 1 /\ i # Len(p)
    BY <1>1, <1>7
  <2> QED BY <1>2, <1>3, <1>4, <1>7, <2>1
<1>8. i \in 0..Len(p) => i = Len(p) \/ i \in 0..Len(p) - 1
  BY <1>1
<1> QED BY <1>5, <1>6, <1>7, <1>8

(* Each element read leaves the list as it was but for what it remembers,  *)
(* and adds one text to those read.                                        *)
LEMMA ReadToIs ==
  ASSUME NEW l, NEW p, IsList(l, p), NEW k \in 0..Len(p)
  PROVE  /\ IsList(ReadTo(l, p, k).list, p)
         /\ Held(ReadTo(l, p, k).list, p) = Held(l, p)
         /\ ReadTo(l, p, k).list.lastIndexGot \in
              {l.lastIndexGot} \cup 0..Len(p)
         /\ k < Len(p) => ReadNext(ReadTo(l, p, k), k) = ReadTo(l, p, k + 1)
<1>1. l \in List /\ p \in Seq(Node) /\ Len(p) \in Nat
  BY DEF IsList, Links
<1> DEFINE m == ReadTo(l, p, k).list
<1>2. m = IF k = 0 THEN l ELSE Marked(l, k - 1, p[k])
  BY DEF ReadTo
<1> HIDE DEF m
<1>3. /\ IsList(m, p) /\ Held(m, p) = Held(l, p)
      /\ m.lastIndexGot \in {l.lastIndexGot} \cup 0..Len(p)
      /\ m \in List /\ m.data = l.data
      /\ \A i, x : Marked(m, i, x) = Marked(l, i, x)
  <2>1. CASE k = 0
    BY <1>1, <1>2, <2>1
  <2>2. CASE k # 0
    <3>1. PICK j, x : /\ j \in 0..Len(p) /\ j = k - 1
                      /\ x = p[k] /\ x = Nth(p, j + 1)
      <4>1. k - 1 \in 0..Len(p) /\ k - 1 + 1 = k /\ k \in 1..Len(p)
        BY <1>1, <2>2
      <4> QED BY <4>1 DEF Nth
    <3>2. m = Marked(l, j, x)
      BY <1>2, <2>2, <3>1
    <3>3. IsList(m, p) /\ Held(m, p) = Held(l, p) /\ m.lastIndexGot = j
      BY <3>1, <3>2, MarkedOk
    <3>4. m.data = l.data /\ \A i, y : Marked(m, i, y) = Marked(l, i, y)
      BY <1>1, <3>2 DEF Marked, List
    <3> QED BY <3>1, <3>3, <3>4 DEF IsList
  <2> QED BY <2>1, <2>2
<1>4. ASSUME k < Len(p)
      PROVE  ReadNext(ReadTo(l, p, k), k) = ReadTo(l, p, k + 1)
  <2>1. /\ k \in 0..Len(p) - 1 /\ k \in Int /\ k + 1 \in 1..Len(p)
        /\ k + 1 # 0
        /\ k + 1 - 1 = k /\ 1 \in 1..Len(p) + 1
    BY <1>1, <1>4
  <2>2. PICK g : /\ g = get(m, k) /\ g.list = Marked(l, k, p[k + 1])
                 /\ g.data = <<l.data[p[k + 1]]>>
    BY <1>3, <2>1, GetIs
  <2>3. PICK H \in Seq(Stored) : /\ H = Held(l, p) /\ Len(H) = Len(p)
                                 /\ H[k + 1] = l.data[p[k + 1]]
    BY <1>1, <2>1, HeldIs
  <2>4. SubSeq(H, 1, k + 1) = SubSeq(H, 1, k) \o <<H[k + 1]>>
    <3>1. 1 \in 1..Len(H) /\ k + 1 \in 1..Len(H) /\ 1 <= k + 1
      BY <2>1, <2>3
    <3>2. SubSeq(H, 1, k + 1) = SubSeq(H, 1, k + 1 - 1) \o <<H[k + 1]>>
      BY <3>1, SubSeqRecursiveSecond
    <3> QED BY <2>1, <3>2
  <2>5. ReadTo(l, p, k).list = m /\ ReadTo(l, p, k).data = SubSeq(H, 1, k)
    BY <2>3 DEF ReadTo, m
  <2>6. ReadTo(l, p, k + 1) = [list |-> g.list, data |-> SubSeq(H, 1, k + 1)]
    BY <2>1, <2>2, <2>3 DEF ReadTo
  <2>7. ReadNext(ReadTo(l, p, k), k) =
          [list |-> g.list, data |-> SubSeq(H, 1, k) \o g.data]
    BY <2>2, <2>5 DEF ReadNext
  <2> QED BY <2>2, <2>3, <2>4, <2>6, <2>7
<1> QED BY <1>3, <1>4 DEF m

(* So the reading that the model defines, by recursion, is this one.       *)
LEMMA ReadingIs ==
  ASSUME NEW p, IsList(_charlist, p)
  PROVE  \A k \in 0..Len(p) : Reading[k] = ReadTo(_charlist, p, k)
<1>1. PICK l : l = _charlist
  OBVIOUS
<1>2. IsList(l, p) /\ l._size = Len(p) /\ Len(p) \in Nat /\ p \in Seq(Node)
      /\ l \in List
  BY <1>1 DEF IsList, Links
<1> DEFINE r0 == [k \in 0..l._size |-> ReadTo(l, p, k)]
           r  == CHOOSE f : IsReading(f, l)
<1>3. Reading = r
  BY <1>1, Zenon DEF Reading, IsReading, ReadNext
<1>4. ReadTo(l, p, 0) = [list |-> l, data |-> <<>>]
  <2>1. Held(l, p) \in Seq(Stored)
    BY <1>2, HeldIs
  <2>2. SubSeq(Held(l, p), 1, 0) = <<>>
    BY <2>1, SubSeqEmpty
  <2> QED BY <2>2 DEF ReadTo
<1>5. ASSUME NEW k \in 0..Len(p), k # 0
      PROVE  ReadTo(l, p, k) = ReadNext(ReadTo(l, p, k - 1), k - 1)
  <2>1. PICK j \in 0..Len(p) : j = k - 1 /\ j < Len(p) /\ j + 1 = k
    BY <1>2, <1>5
  <2> QED BY <1>2, <2>1, ReadToIs
<1>6. IsReading(r0, l)
  <2> DEFINE r1 == [k \in 0..l._size |-> IF k = 0
                                           THEN [list |-> l, data |-> <<>>]
                                         ELSE ReadNext(r0[k - 1], k - 1)]
  <2>1. ASSUME NEW k \in 0..l._size PROVE r0[k] = r1[k]
    <3>1. CASE k = 0
      BY <1>4, <3>1
    <3>2. CASE k # 0
      <4>1. k - 1 \in 0..l._size /\ k \in 0..Len(p)
        BY <1>2, <3>2
      <4>2. r0[k - 1] = ReadTo(l, p, k - 1) /\ r0[k] = ReadTo(l, p, k)
        BY <4>1
      <4> QED BY <1>5, <3>2, <4>1, <4>2
    <3> QED BY <3>1, <3>2
  <2>2. r0 = r1
    BY <2>1, Zenon
  <2> QED BY <2>2, Zenon DEF IsReading
<1>7. IsReading(r, l)
  BY <1>6, Zenon
<1> HIDE DEF r
<1>8. /\ r[0] = [list |-> l, data |-> <<>>]
      /\ \A k \in 1..Len(p) : r[k] = ReadNext(r[k - 1], k - 1)
  <2>1. 0 \in 0..l._size /\ \A k \in 1..Len(p) : k \in 0..l._size /\ k # 0
    BY <1>2
  <2>2. r = [k \in 0..l._size |-> IF k = 0 THEN [list |-> l, data |-> <<>>]
                                  ELSE ReadNext(r[k - 1], k - 1)]
    BY <1>7, Zenon DEF IsReading
  <2> QED BY <2>1, <2>2, Zenon
<1> DEFINE S == {k \in Nat : k <= Len(p) => r[k] = ReadTo(l, p, k)}
<1>9. 0 \in S
  BY <1>4, <1>8
<1>10. ASSUME NEW k \in Nat, k \in S PROVE k + 1 \in S
  <2> SUFFICES ASSUME k + 1 <= Len(p)
               PROVE  r[k + 1] = ReadTo(l, p, k + 1)
    OBVIOUS
  <2>1. /\ k + 1 \in 1..Len(p) /\ k + 1 \in 0..Len(p) /\ k + 1 # 0
        /\ k + 1 - 1 = k /\ k <= Len(p)
    BY <1>2
  <2>2. r[k + 1] = ReadNext(r[k], k)
    BY <1>8, <2>1
  <2>3. ReadTo(l, p, k + 1) = ReadNext(ReadTo(l, p, k), k)
    BY <1>5, <2>1
  <2> QED BY <1>10, <2>1, <2>2, <2>3
<1> HIDE DEF S
<1>11. Nat \subseteq S
  BY <1>9, <1>10, SetInduction
<1>12. \A k \in 0..Len(p) : r[k] = ReadTo(l, p, k)
  BY <1>2, <1>11 DEF S
<1> QED BY <1>1, <1>3, <1>12

-----------------------------------------------------------------------------
(* Clearing pops until nothing is left.                                    *)
Popped(l) == pop(l).list

IsClearing(f, l, k) ==
  f = [j \in 0..k |-> IF j = 0 THEN l ELSE Popped(f[j - 1])]

(* Popping is defined at each number of pops.                              *)
LEMMA ClearingExists ==
  ASSUME NEW l, NEW k \in Nat
  PROVE  \E f : IsClearing(f, l, k)
<1> DEFINE Is(f, m) == IsClearing(f, l, m)
           S == {m \in Nat : \E f : Is(f, m)}
<1>1. 0 \in S
  <2> DEFINE g == [j \in 0..0 |-> l]
  <2>1. \A j \in 0..0 : j = 0
    OBVIOUS
  <2>2. g = [j \in 0..0 |-> IF j = 0 THEN l ELSE Popped(g[j - 1])]
    BY <2>1, Zenon
  <2> QED BY <2>2 DEF IsClearing
<1>2. ASSUME NEW m \in Nat, m \in S PROVE m + 1 \in S
  <2>1. PICK f : Is(f, m)
    BY <1>2
  <2> DEFINE g == [j \in 0..m + 1 |-> IF j = m + 1 THEN Popped(f[m]) ELSE f[j]]
             h == [j \in 0..m + 1 |-> IF j = 0 THEN l ELSE Popped(g[j - 1])]
  <2>2. ASSUME NEW j \in 0..m + 1 PROVE g[j] = h[j]
    <3>1. CASE j = m + 1
      <4>1. j # 0 /\ j - 1 = m /\ m \in 0..m + 1 /\ m # m + 1
        BY <3>1
      <4>2. g[j - 1] = f[m]
        BY <4>1
      <4> QED BY <3>1, <4>1, <4>2
    <3>2. CASE j # m + 1 /\ j # 0
      <4>1. j - 1 # m + 1 /\ j - 1 \in 0..m + 1 /\ j \in 0..m
        BY <3>2
      <4>2. g[j - 1] = f[j - 1] /\ g[j] = f[j]
        BY <3>2, <4>1
      <4>3. f[j] = Popped(f[j - 1])
        BY <2>1, <3>2, <4>1, Zenon DEF IsClearing
      <4> QED BY <3>2, <4>2, <4>3
    <3>3. CASE j = 0
      <4>1. j \in 0..m /\ j # m + 1
        BY <3>3
      <4>2. f[j] = l
        BY <2>1, <3>3, <4>1, Zenon DEF IsClearing
      <4> QED BY <3>3, <4>1, <4>2
    <3> QED BY <3>1, <3>2, <3>3
  <2>3. g = h
    BY <2>2, Zenon
  <2>4. Is(g, m + 1)
    BY <2>3 DEF IsClearing
  <2> HIDE DEF Is
  <2> QED BY <2>4
<1> HIDE DEF S
<1>3. Nat \subseteq S
  BY <1>1, <1>2, SetInduction
<1> QED BY <1>3 DEF S

(* After as many pops as there are elements the list is empty.             *)
LEMMA ClearedIs ==
  ASSUME NEW l, NEW p, IsList(l, p), l = _charlist
  PROVE  IsList(Cleared, <<>>) /\ IndexKept(l, Cleared, p)
<1>1. l._size = Len(p) /\ Len(p) \in Nat /\ p \in Seq(Node)
  BY DEF IsList, Links
<1>2. PICK k \in Nat : k = Len(p)
  BY <1>1
<1> DEFINE f == CHOOSE h : IsClearing(h, l, k)
<1>3. Cleared = f[k]
  <2>1. l._size = k
    BY <1>1, <1>2
  <2>2. Cleared = (CHOOSE h : IsClearing(h, l, l._size))[l._size]
    BY Zenon DEF Cleared, IsClearing, Popped
  <2> QED BY <2>1, <2>2
<1>4. IsClearing(f, l, k)
  <2>1. \E h : IsClearing(h, l, k)
    BY ClearingExists
  <2> QED BY <2>1, Zenon
<1> HIDE DEF f
<1>5. f[0] = l /\ \A j \in 1..k : f[j] = pop(f[j - 1]).list
  <2>1. 0 \in 0..k /\ \A j \in 1..k : j \in 0..k /\ j # 0
    OBVIOUS
  <2> QED BY <1>4, <2>1, Zenon DEF IsClearing, Popped
<1> DEFINE Left(j, q) == /\ IsList(f[j], q) /\ Len(q) = k - j
                         /\ IndexKept(l, f[j], p)
           S == {j \in Nat : j <= k => \E q \in Seq(Node) : Left(j, q)}
<1>6. 0 \in S
  BY <1>1, <1>2, <1>5 DEF IndexKept
<1>7. ASSUME NEW j \in Nat, j \in S, j + 1 <= k
      PROVE  \E q \in Seq(Node) : Left(j + 1, q)
  <2>1. PICK q \in Seq(Node) : Left(j, q)
    BY <1>7
  <2>2. PICK m : m = f[j]
    OBVIOUS
  <2>3. f[j + 1] = pop(m).list
    <3>1. j + 1 \in 1..k /\ j + 1 - 1 = j
      BY <1>7
    <3> QED BY <1>5, <2>2, <3>1
  <2>4. IsList(m, q) /\ Len(q) = k - j /\ IndexKept(l, m, p)
    BY <2>1, <2>2
  <2>5. q # <<>> /\ Len(q) \in 1..Len(q) /\ Len(q) - 1 = k - (j + 1)
        /\ Len(q) <= Len(p)
    <3>1. Len(q) # 0
      BY <1>7, <2>4
    <3> QED BY <1>2, <1>7, <2>4, <3>1
  <2>6. Shortened(m, q, f[j + 1], Len(q))
    BY <2>3, <2>4, <2>5, PopOk
  <2>7. PICK w \in Seq(Node) : w = Without(q, Len(q))
    BY <2>5, WithoutIs
  <2>8. IsList(f[j + 1], w) /\ Len(w) = k - (j + 1)
    BY <2>5, <2>6, <2>7 DEF Shortened
  <2>9. IndexKept(l, f[j + 1], p)
    <3>1. IndexKept(m, f[j + 1], q)
      BY <2>6 DEF Shortened
    <3> QED BY <1>1, <2>4, <2>5, <3>1 DEF IndexKept
  <2> QED BY <2>8, <2>9
<1>8. ASSUME NEW j \in Nat, j \in S PROVE j + 1 \in S
  BY <1>7, <1>8
<1> HIDE DEF S
<1>9. Nat \subseteq S
  BY <1>6, <1>8, SetInduction
<1>10. PICK q \in Seq(Node) : Left(k, q)
  BY <1>9 DEF S
<1>11. q = <<>>
  BY <1>10
<1> QED BY <1>3, <1>10, <1>11

-----------------------------------------------------------------------------
(* The invariant: the list is one, no longer than it may be, and remembers *)
(* no index beyond.                                                        *)
StoreOk(l, p) ==
  IsList(l, p) /\ Len(p) <= _maxsize /\ l.lastIndexGot <= _maxsize

StoreInv == \E p : StoreOk(_charlist, p)

(* What a good list is, in parts.                                          *)
LEMMA StoreOkIs ==
  ASSUME NEW l, NEW p, StoreOk(l, p)
  PROVE  /\ IsList(l, p) /\ l \in List /\ Links(l, p) /\ p \in Seq(Node)
         /\ Len(p) \in 0.._maxsize /\ l._size = Len(p)
         /\ l.lastIndexGot \in 0.._maxsize
BY Sizes DEF StoreOk, IsList, Links, List

(* A call that leaves a list, not too long, that remembers the index it had*)
(* or one of its own, leaves a good list.                                  *)
LEMMA StaysOk ==
  ASSUME NEW l, NEW p, StoreOk(l, p), NEW m, NEW q,
         IsList(m, q), Len(q) <= _maxsize, IndexKept(l, m, p)
  PROVE  StoreOk(m, q)
<1>1. Len(p) \in 0.._maxsize /\ l.lastIndexGot \in 0.._maxsize
  BY StoreOkIs
<1>2. m.lastIndexGot \in {l.lastIndexGot} \cup 0..Len(p)
  BY DEF IndexKept
<1>3. m.lastIndexGot <= _maxsize
  BY <1>1, <1>2, Sizes
<1> QED BY <1>3 DEF StoreOk

(* The empty list is good.                                                 *)
LEMMA InitOk == Init => StoreOk(_charlist, <<>>)
<1> DEFINE D == [n \in Node |-> <<>>]
           N == [n \in Node |-> Null]
           e == EmptyList
<1>1. D \in [Node -> Stored] /\ N \in [Node -> NodeOrNull]
      /\ Null \in NodeOrNull
  BY DEF Stored, NodeOrNull
<1>2. e = [_size |-> 0, root |-> Null, last |-> Null, lastNodeGot |-> Null,
           lastIndexGot |-> 0, isCached |-> FALSE, live |-> {}, data |-> D,
           next |-> N]
  BY DEF EmptyList
<1> HIDE DEF D, N, e
<1>3. /\ e \in List /\ e._size = 0 /\ e.root = Null /\ e.last = Null
      /\ e.live = {} /\ ~e.isCached /\ e.lastIndexGot = 0
  BY <1>1, <1>2 DEF List
<1>4. Links(e, <<>>)
  BY <1>3 DEF Links, Nodes, Nth
<1>5. StoreOk(e, <<>>)
  BY <1>3, <1>4, Sizes DEF StoreOk, IsList, Cache
<1> QED BY <1>5 DEF Init, e

(* RoomFor() leaves room for one text: it takes out the oldest of a full   *)
(* list.                                                                   *)
LEMMA RoomIs ==
  ASSUME NEW l, NEW p, StoreOk(l, p)
  PROVE  \E q : /\ StoreOk(RoomFor(l), q) /\ Len(q) < _maxsize
                /\ Held(RoomFor(l), q) = IF Len(p) = _maxsize
                                         THEN Without(Held(l, p), 1)
                                         ELSE Held(l, p)
<1>1. /\ IsList(l, p) /\ p \in Seq(Node) /\ Len(p) \in 0.._maxsize
      /\ l._size = Len(p)
  BY StoreOkIs
<1>2. CASE Len(p) = _maxsize
  <2>1. p # <<>> /\ RoomFor(l) = shift(l).list
    BY <1>1, <1>2, Sizes DEF RoomFor
  <2>2. Shortened(l, p, RoomFor(l), 1)
    BY <1>1, <2>1, ShiftOk
  <2>3. PICK q : q = Without(p, 1)
    OBVIOUS
  <2>4. /\ IsList(RoomFor(l), q) /\ Len(q) = Len(p) - 1
        /\ Held(RoomFor(l), q) = Without(Held(l, p), 1)
        /\ IndexKept(l, RoomFor(l), p)
    BY <2>2, <2>3 DEF Shortened
  <2>5. Len(q) < _maxsize /\ Len(q) <= _maxsize
    BY <1>1, <1>2, <2>4, Sizes
  <2>6. StoreOk(RoomFor(l), q)
    BY <2>4, <2>5, StaysOk
  <2> QED BY <1>2, <2>4, <2>5, <2>6
<1>3. CASE Len(p) # _maxsize
  <2>1. RoomFor(l) = l /\ Len(p) < _maxsize
    BY <1>1, <1>3, Sizes DEF RoomFor
  <2> QED BY <1>3, <2>1
<1> QED BY <1>2, <1>3

(* What each call does to the texts held.                                  *)
LEMMA AddStep ==
  ASSUME NEW l, NEW p, StoreOk(l, p), NEW t \in Texts
  PROVE  \E q : /\ StoreOk(add(RoomFor(l), Kept(t)), q)
                /\ Held(add(RoomFor(l), Kept(t)), q) =
                     Append(IF Len(p) = _maxsize THEN Without(Held(l, p), 1)
                            ELSE Held(l, p), Kept(t))
<1>1. PICK r, k : /\ r = RoomFor(l) /\ StoreOk(r, k) /\ Len(k) < _maxsize
                  /\ Held(r, k) = IF Len(p) = _maxsize
                                  THEN Without(Held(l, p), 1) ELSE Held(l, p)
  BY RoomIs
<1>2. /\ IsList(r, k) /\ Len(k) \in Nat /\ Len(k) < MaxNodes
      /\ r.lastIndexGot <= _maxsize
  BY <1>1, StoreOkIs, Sizes
<1>3. Kept(t) \in Stored
  BY DEF Stored
<1>4. PICK q : /\ IsList(add(r, Kept(t)), q) /\ Len(q) = Len(k) + 1
               /\ Held(add(r, Kept(t)), q) = Append(Held(r, k), Kept(t))
               /\ add(r, Kept(t)).lastIndexGot = r.lastIndexGot
  BY <1>2, <1>3, AddOk
<1>5. StoreOk(add(r, Kept(t)), q)
  BY <1>1, <1>2, <1>4, Sizes DEF StoreOk
<1> QED BY <1>1, <1>4, <1>5

(* remove() takes out the text at the position, if there is one.           *)
LEMMA RemoveStep ==
  ASSUME NEW l, NEW p, StoreOk(l, p), NEW i \in Int
  PROVE  \E q : /\ StoreOk(remove(l, i).list, q)
                /\ Held(remove(l, i).list, q) =
                     IF i \in 0..Len(p) - 1 THEN Without(Held(l, p), i + 1)
                     ELSE Held(l, p)
<1>1. IsList(l, p) /\ Len(p) \in 0.._maxsize
  BY StoreOkIs
<1>2. CASE i \in 0..Len(p) - 1
  <2>1. Shortened(l, p, remove(l, i).list, i + 1)
    BY <1>1, <1>2, RemoveOk
  <2>2. PICK q : q = Without(p, i + 1)
    OBVIOUS
  <2>3. /\ IsList(remove(l, i).list, q) /\ Len(q) = Len(p) - 1
        /\ Held(remove(l, i).list, q) = Without(Held(l, p), i + 1)
        /\ IndexKept(l, remove(l, i).list, p)
    BY <2>1, <2>2 DEF Shortened
  <2>4. Len(q) <= _maxsize
    BY <1>1, <2>3, Sizes
  <2>5. StoreOk(remove(l, i).list, q)
    BY <2>3, <2>4, StaysOk
  <2> QED BY <1>2, <2>3, <2>5
<1>3. CASE i \notin 0..Len(p) - 1
  <2>1. remove(l, i).list = l
    BY <1>1, <1>3, RemoveOk
  <2> QED BY <1>3, <2>1
<1> QED BY <1>2, <1>3

(* get() reads the text at the position, if there is one.                  *)
LEMMA GetStep ==
  ASSUME NEW l, NEW p, StoreOk(l, p), NEW i \in Int
  PROVE  /\ StoreOk(get(l, i).list, p)
         /\ Held(get(l, i).list, p) = Held(l, p)
         /\ get(l, i).data = IF i \in 0..Len(p) - 1 THEN <<Held(l, p)[i + 1]>>
                             ELSE <<>>
<1>1. /\ IsList(l, p) /\ l \in List /\ p \in Seq(Node)
      /\ Len(p) \in 0.._maxsize
  BY StoreOkIs
<1>2. ASSUME NEW n, i \in 0..Len(p), n = Nth(p, i + 1)
      PROVE  /\ StoreOk(Marked(l, i, n), p)
             /\ Held(Marked(l, i, n), p) = Held(l, p)
  <2>1. /\ IsList(Marked(l, i, n), p) /\ Held(Marked(l, i, n), p) = Held(l, p)
        /\ Marked(l, i, n).lastIndexGot = i
    BY <1>1, <1>2, MarkedOk
  <2>2. Len(p) <= _maxsize /\ i <= _maxsize
    BY <1>1, <1>2, Sizes
  <2> QED BY <2>1, <2>2 DEF StoreOk
<1>3. CASE i \in 0..Len(p) - 1
  <2>1. i \in 0..Len(p) /\ i + 1 \in 1..Len(p)
    BY <1>1, <1>3
  <2>2. p[i + 1] = Nth(p, i + 1) /\ Held(l, p)[i + 1] = l.data[p[i + 1]]
    BY <1>1, <2>1, HeldIs DEF Nth
  <2>3. /\ get(l, i).list = Marked(l, i, p[i + 1])
        /\ get(l, i).data = <<l.data[p[i + 1]]>>
    BY <1>1, <1>3, GetIs
  <2> QED BY <1>2, <1>3, <2>1, <2>2, <2>3
<1>4. CASE i = Len(p)
  <2>1. i \in 0..Len(p) /\ i \notin 0..Len(p) - 1 /\ i + 1 \notin 1..Len(p)
    BY <1>1, <1>4
  <2>2. Nth(p, i + 1) = Null
    BY <2>1 DEF Nth
  <2>3. get(l, i).list = Marked(l, i, Null) /\ get(l, i).data = <<>>
    BY <1>1, <1>4, <2>1, GetIs
  <2> QED BY <1>2, <2>1, <2>2, <2>3
<1>5. CASE i \notin 0..Len(p) - 1 /\ i # Len(p)
  <2>1. get(l, i).list = l /\ get(l, i).data = <<>>
    BY <1>1, <1>5, GetIs
  <2> QED BY <1>5, <2>1
<1> QED BY <1>3, <1>4, <1>5

(* Reading in order reads what is held.                                    *)
LEMMA ReadStep ==
  ASSUME NEW p, StoreOk(_charlist, p)
  PROVE  \A k \in 0..Len(p) :
           /\ StoreOk(Reading[k].list, p)
           /\ Held(Reading[k].list, p) = Held(_charlist, p)
           /\ Reading[k].data = SubSeq(Held(_charlist, p), 1, k)
<1>1. PICK l : l = _charlist
  OBVIOUS
<1>2. StoreOk(l, p) /\ IsList(l, p) /\ Len(p) \in 0.._maxsize
  BY <1>1, StoreOkIs
<1>3. \A k \in 0..Len(p) : Reading[k] = ReadTo(l, p, k)
  BY <1>1, <1>2, ReadingIs
<1>4. ASSUME NEW k \in 0..Len(p)
      PROVE  /\ StoreOk(ReadTo(l, p, k).list, p)
             /\ Held(ReadTo(l, p, k).list, p) = Held(l, p)
             /\ ReadTo(l, p, k).data = SubSeq(Held(l, p), 1, k)
  <2>1. PICK m : m = ReadTo(l, p, k).list
    OBVIOUS
  <2>2. IsList(m, p) /\ Held(m, p) = Held(l, p) /\ IndexKept(l, m, p)
    BY <1>2, <2>1, ReadToIs DEF IndexKept
  <2>3. Len(p) <= _maxsize
    BY <1>2
  <2>4. StoreOk(m, p)
    BY <1>2, <2>2, <2>3, StaysOk
  <2>5. ReadTo(l, p, k).data = SubSeq(Held(l, p), 1, k)
    BY DEF ReadTo
  <2> QED BY <2>1, <2>2, <2>4, <2>5
<1> QED BY <1>1, <1>3, <1>4

(* Clearing leaves nothing.                                                *)
LEMMA ClearStep ==
  ASSUME NEW p, StoreOk(_charlist, p)
  PROVE  StoreOk(Cleared, <<>>)
<1>1. PICK l : l = _charlist
  OBVIOUS
<1>2. StoreOk(l, p) /\ IsList(l, p)
  BY <1>1, StoreOkIs
<1>3. PICK c : c = Cleared
  OBVIOUS
<1>4. IsList(c, <<>>) /\ IndexKept(l, c, p)
  BY <1>1, <1>2, <1>3, ClearedIs
<1>5. Len(<<>>) <= _maxsize
  BY Sizes
<1>6. StoreOk(c, <<>>)
  BY <1>2, <1>4, <1>5, StaysOk
<1> QED BY <1>3, <1>6

-----------------------------------------------------------------------------
(* Where the text t stands, counted from 1, or 0.                          *)
First(H, t) ==
  LET at == {i \in 1..Len(H) : H[i] = t}
  IN  IF at = {} THEN 0 ELSE CHOOSE q \in at : \A k \in at : q <= k

(* What a step does to the texts H held, for the answer ans.               *)
Does(H, G, ans) ==
  \/ \E t \in Texts :
       /\ ans = Nothing
       /\ G = Append(IF Len(H) = _maxsize THEN Without(H, 1) ELSE H, Kept(t))
  \/ \E i \in 1..Len(H) : G = Without(H, i) /\ ans = Nothing
  \/ G = H /\ ans = Nothing
  \/ \E i \in 1..Len(H) : G = H /\ ans = [Nothing EXCEPT !.texts = <<H[i]>>]
  \/ G = H /\ ans = [Nothing EXCEPT !.texts = H]
  \/ \E t \in Texts : G = H /\ ans = [Nothing EXCEPT !.at = First(H, t)]
  \/ G = <<>> /\ ans = Nothing

(* Every step does one of these.                                           *)
LEMMA NextDoes ==
  ASSUME NEW p, StoreOk(_charlist, p), Next
  PROVE  \E q : /\ StoreOk(_charlist', q)
                /\ Does(Held(_charlist, p), Held(_charlist', q), answer')
<1>1. PICK l : l = _charlist
  OBVIOUS
<1>2. /\ StoreOk(l, p) /\ l \in List /\ p \in Seq(Node)
      /\ Len(p) \in 0.._maxsize /\ l._size = Len(p)
  BY <1>1, StoreOkIs
<1>3. PICK H \in Seq(Stored) : H = Held(l, p) /\ Len(H) = Len(p)
  BY <1>2, HeldIs
<1>4. CASE Add
  <2>1. PICK t \in Texts : /\ _charlist' = add(RoomFor(l), Kept(t))
                           /\ answer' = Nothing
    BY <1>1, <1>4 DEF Add
  <2>2. PICK q : /\ StoreOk(add(RoomFor(l), Kept(t)), q)
                 /\ Held(add(RoomFor(l), Kept(t)), q) =
                     Append(IF Len(p) = _maxsize THEN Without(Held(l, p), 1)
                            ELSE Held(l, p), Kept(t))
    BY <1>2, AddStep
  <2>3. Does(H, Held(_charlist', q), answer')
    BY <1>3, <2>1, <2>2 DEF Does
  <2> QED BY <1>1, <1>3, <2>1, <2>2, <2>3
<1>5. CASE Remove
  <2>1. PICK i \in -1.._maxsize : /\ _charlist' = remove(l, i).list
                                  /\ answer' = Nothing
    BY <1>1, <1>5 DEF Remove
  <2>2. PICK q : /\ StoreOk(remove(l, i).list, q)
                 /\ Held(remove(l, i).list, q) =
                     IF i \in 0..Len(p) - 1 THEN Without(Held(l, p), i + 1)
                     ELSE Held(l, p)
    <3>1. i \in Int
      BY <2>1, Sizes
    <3> QED BY <1>2, <3>1, RemoveStep
  <2>3. i \in 0..Len(p) - 1 => i + 1 \in 1..Len(H)
    BY <1>2, <1>3
  <2>4. Does(H, Held(_charlist', q), answer')
    BY <1>3, <2>1, <2>2, <2>3 DEF Does
  <2> QED BY <1>1, <1>3, <2>1, <2>2, <2>4
<1>6. CASE Get
  <2>1. PICK i \in -1..(_maxsize + 1) :
               /\ _charlist' = get(l, i).list
               /\ answer' = [Nothing EXCEPT !.texts = get(l, i).data]
    BY <1>1, <1>6 DEF Get
  <2>2. /\ StoreOk(get(l, i).list, p) /\ Held(get(l, i).list, p) = Held(l, p)
        /\ get(l, i).data = IF i \in 0..Len(p) - 1 THEN <<Held(l, p)[i + 1]>>
                            ELSE <<>>
    BY <1>2, <2>1, GetStep, Sizes
  <2>3. Does(H, Held(_charlist', p), answer')
    <3>1. CASE i \in 0..Len(p) - 1
      <4>1. i + 1 \in 1..Len(H)
        BY <1>2, <1>3, <3>1
      <4>2. answer' = [Nothing EXCEPT !.texts = <<H[i + 1]>>]
        BY <1>3, <2>1, <2>2, <3>1
      <4> QED BY <1>3, <2>1, <2>2, <4>1, <4>2 DEF Does
    <3>2. CASE i \notin 0..Len(p) - 1
      <4>1. answer' = Nothing
        BY <2>1, <2>2, <3>2 DEF Nothing
      <4> QED BY <1>3, <2>1, <2>2, <4>1 DEF Does
    <3> QED BY <3>1, <3>2
  <2> QED BY <1>1, <1>3, <2>1, <2>2, <2>3
<1>7. \A k \in 0..Len(p) : /\ StoreOk(Reading[k].list, p)
                           /\ Held(Reading[k].list, p) = H
                           /\ Reading[k].data = SubSeq(H, 1, k)
  BY <1>1, <1>2, <1>3, ReadStep
<1>8. CASE Status
  <2>1. /\ _charlist' = Reading[Len(p)].list
        /\ answer' = [Nothing EXCEPT !.texts = Reading[Len(p)].data]
    BY <1>1, <1>2, <1>8 DEF Status
  <2>2. Len(p) \in 0..Len(p) /\ SubSeq(H, 1, Len(p)) = H
    BY <1>2, <1>3, SubSeqFull
  <2>3. Does(H, Held(_charlist', p), answer')
    BY <1>7, <2>1, <2>2 DEF Does
  <2> QED BY <1>1, <1>3, <1>7, <2>1, <2>2, <2>3
<1>9. CASE GetIndex
  <2> DEFINE at(t) == {k \in 1..Len(p) : Reading[k].data[k] = t}
             I(t)  == {k \in 1..Len(H) : H[k] = t}
             k0(t) == CHOOSE q \in at(t) : \A k \in at(t) : q <= k
  <2>1. PICK t \in Texts :
          /\ _charlist' = Reading[IF at(t) = {} THEN Len(p) ELSE k0(t)].list
          /\ answer' = [Nothing EXCEPT !.at = IF at(t) = {} THEN 0 ELSE k0(t)]
    BY <1>1, <1>2, <1>9, ZenonT(30) DEF GetIndex
  <2>2. at(t) = I(t)
    <3>1. ASSUME NEW k \in 1..Len(p) PROVE Reading[k].data[k] = H[k]
      <4>1. k \in 0..Len(p) /\ k \in 1..k /\ k \in 1..Len(H)
        BY <1>2, <1>3
      <4>2. Reading[k].data = SubSeq(H, 1, k)
        BY <1>7, <4>1
      <4>3. SubSeq(H, 1, k)[k] = H[k]
        BY <1>3, <4>1
      <4> QED BY <4>2, <4>3
    <3> QED BY <1>3, <3>1
  <2>3. First(H, t) = IF at(t) = {} THEN 0 ELSE k0(t)
    <3>1. First(H, t) = IF I(t) = {} THEN 0
                        ELSE CHOOSE q \in I(t) : \A k \in I(t) : q <= k
      BY Zenon DEF First
    <3>2. k0(t) = CHOOSE q \in at(t) : \A k \in at(t) : q <= k
      OBVIOUS
    <3> HIDE DEF I, at, k0
    <3> QED BY <2>2, <3>1, <3>2, Zenon
  <2>4. (IF at(t) = {} THEN Len(p) ELSE k0(t)) \in 0..Len(p)
    <3>1. CASE at(t) # {}
      <4>1. at(t) \in SUBSET Nat
        BY <1>2
      <4>2. \E q \in at(t) : \A k \in at(t) : q <= k
        BY <3>1, <4>1, Least
      <4>3. k0(t) \in at(t)
        BY <4>2, Zenon
      <4> QED BY <1>2, <3>1, <4>3
    <3>2. CASE at(t) = {}
      BY <1>2, <3>2
    <3> QED BY <3>1, <3>2
  <2> HIDE DEF at, k0
  <2>5. PICK k \in 0..Len(p) : _charlist' = Reading[k].list
    BY <2>1, <2>4
  <2>6. answer' = [Nothing EXCEPT !.at = First(H, t)]
    BY <2>1, <2>3, Zenon
  <2>7. Does(H, Held(_charlist', p), answer')
    BY <1>7, <2>5, <2>6 DEF Does
  <2> QED BY <1>1, <1>3, <1>7, <2>5, <2>7
<1>10. CASE Clear
  <2>1. _charlist' = Cleared /\ answer' = Nothing
    BY <1>10 DEF Clear
  <2>2. StoreOk(_charlist', <<>>)
    BY <1>1, <1>2, <2>1, ClearStep
  <2>3. Held(_charlist', <<>>) = <<>>
    BY DEF Held
  <2>4. Does(H, Held(_charlist', <<>>), answer')
    BY <2>1, <2>3 DEF Does
  <2> QED BY <1>1, <1>3, <2>2, <2>4
<1> QED BY <1>4, <1>5, <1>6, <1>8, <1>9, <1>10 DEF Next

(* Every step keeps the invariant.                                         *)
LEMMA StepOk == StoreInv /\ [Next]_vars => StoreInv'
<1> SUFFICES ASSUME StoreInv, [Next]_vars PROVE \E q : StoreOk(_charlist', q)
  BY DEF StoreInv
<1>1. PICK p : StoreOk(_charlist, p)
  BY DEF StoreInv
<1>2. CASE Next
  BY <1>1, <1>2, NextDoes
<1>3. CASE UNCHANGED vars
  <2>1. _charlist' = _charlist
    BY <1>3 DEF vars
  <2> QED BY <1>1, <2>1
<1> QED BY <1>2, <1>3

(* The invariant holds in every reachable state.                           *)
LEMMA StoreInvAlways == Spec => []StoreInv
<1>1. Init => StoreInv
  BY InitOk DEF StoreInv
<1> QED BY <1>1, StepOk, PTL DEF Spec

(* Path and Contents, in terms of the sequence that the list represents.   *)
LEMMA OfPath ==
  ASSUME NEW p, StoreOk(_charlist, p)
  PROVE  Path = p /\ Contents = Held(_charlist, p)
<1>1. PICK l : l = _charlist
  OBVIOUS
<1>2. IsList(l, p) /\ Len(p) <= MaxNodes
  BY <1>1, StoreOkIs, Sizes
<1>3. PathOf(l) = p /\ ContentsOf(l) = Held(l, p)
  BY <1>2, PathIs
<1>4. Path = PathOf(_charlist)
  BY Zenon DEF Path, PathOf
<1>5. Contents = ContentsOf(_charlist)
  BY <1>4, Zenon DEF Contents, ContentsOf
<1> QED BY <1>1, <1>3, <1>4, <1>5

(* The fields of the list have their types in every reachable state        *)
(* (GenLinkedList.h).                                                      *)
THEOREM TypeCorrect == Spec => []TypeOK
<1>1. StoreInv => TypeOK
  <2> SUFFICES ASSUME NEW p, StoreOk(_charlist, p) PROVE TypeOK
    BY DEF StoreInv
  <2>1. /\ _charlist \in List /\ Len(p) \in 0.._maxsize
        /\ _charlist._size = Len(p) /\ _charlist.lastIndexGot \in 0.._maxsize
    BY StoreOkIs
  <2>2. 0.._maxsize \subseteq 0..(_maxsize + 1)
    BY Sizes
  <2> QED BY <2>1, <2>2 DEF TypeOK, List, NodeOrNull
<1> QED BY <1>1, StoreInvAlways, PTL

(* No operation of the list leaks a node or leaves a freed one linked, and *)
(* size and last stay right (GenLinkedList.h).                             *)
THEOREM LinkedAlways == Spec => []Linked
<1>1. StoreInv => Linked
  <2> SUFFICES ASSUME NEW p, StoreOk(_charlist, p) PROVE Linked
    BY DEF StoreInv
  <2>1. /\ p \in Seq(Node) /\ Len(p) \in Nat /\ Path = p
        /\ _charlist.live = Nodes(p) /\ _charlist._size = Len(p)
        /\ _charlist.last = Nth(p, Len(p))
    BY StoreOkIs, OfPath DEF Links
  <2>2. p = <<>> <=> Len(p) \notin 1..Len(p)
    BY <2>1
  <2>3. _charlist.last = IF Path = <<>> THEN Null ELSE Path[Len(Path)]
    BY <2>1, <2>2 DEF Nth
  <2>4. {Path[i] : i \in DOMAIN Path} = _charlist.live
    BY <2>1 DEF Nodes
  <2> QED BY <2>1, <2>3, <2>4 DEF Linked
<1> QED BY <1>1, StoreInvAlways, PTL

(* The cached node is never one that was freed or moved to another place:  *)
(* getNode() may walk on from it without looking (GenLinkedList.h:139).    *)
THEOREM CacheInPlaceAlways == Spec => []CacheInPlace
<1>1. StoreInv => CacheInPlace
  <2> SUFFICES ASSUME NEW p, StoreOk(_charlist, p), _charlist.isCached
               PROVE  LET i == _charlist.lastIndexGot
                      IN  /\ i <= Len(Path)
                          /\ _charlist.lastNodeGot =
                               IF i = Len(Path) THEN Null ELSE Path[i + 1]
    BY DEF StoreInv, CacheInPlace
  <2>1. p \in Seq(Node) /\ Len(p) \in Nat /\ Path = p /\ Cache(_charlist, p)
    BY StoreOkIs, OfPath DEF IsList
  <2>2. PICK i \in 0..Len(p) : /\ i = _charlist.lastIndexGot
                               /\ _charlist.lastNodeGot = Nth(p, i + 1)
    BY <2>1 DEF Cache
  <2>3. i + 1 \in 1..Len(p) <=> i # Len(p)
    BY <2>1
  <2> QED BY <2>1, <2>2, <2>3 DEF Nth
<1> QED BY <1>1, StoreInvAlways, PTL

-----------------------------------------------------------------------------
(* The words of the rolling log, in those used here.                       *)
LEMMA LogIs ==
  /\ Log!Nothing = Nothing
  /\ \A H, i : Log!RemoveAt(H, i) =
                 SubSeq(H, 1, i - 1) \o SubSeq(H, i + 1, Len(H))
  /\ \A H : Log!Latest(H) = IF Len(H) <= _maxsize THEN H
                            ELSE SubSeq(H, Len(H) - _maxsize + 1, Len(H))
BY DEF Log!Nothing, Nothing, Log!RemoveAt, Log!Latest

(* A text is kept as the log shows it.                                     *)
LEMMA ShownIs ==
  ASSUME NEW t \in Texts
  PROVE  Log!Shown(t) = Kept(t)
<1>1. Len(t) \in Nat /\ _maxstringlength \in Nat
  BY MessageStoreAssumption
<1>2. Len(Dots) = 3
  BY DEF Dots
<1>3. Log!Shown(t) = IF Len(t) <= _maxstringlength THEN t
                     ELSE SubSeq(t, 1, _maxstringlength - Len(Dots)) \o Dots
  BY DEF Log!Shown
<1>4. Len(t) <= _maxstringlength <=> ~ (Len(t) > _maxstringlength)
  BY <1>1
<1> QED BY <1>2, <1>3, <1>4 DEF Kept

(* Both ways to take an element out of a sequence agree.                   *)
LEMMA RemoveAtIs ==
  ASSUME NEW H \in Seq(Stored), NEW i \in 1..Len(H)
  PROVE  Log!RemoveAt(H, i) = Without(H, i)
<1>0. PICK n \in Nat : n = Len(H)
  OBVIOUS
<1>1. PICK a, b, w : /\ a = SubSeq(H, 1, i - 1)
                     /\ b = SubSeq(H, i + 1, Len(H))
                     /\ w = Without(H, i)
  OBVIOUS
<1>2. /\ a \in Seq(Stored) /\ Len(a) = i - 1
      /\ \A j \in 1..i - 1 : a[j] = H[j]
  <2>1. 1 \in 1..Len(H) + 1 /\ i - 1 \in 0..Len(H)
    OBVIOUS
  <2>2. /\ a \in Seq(Stored)
        /\ Len(a) = IF 1 <= i - 1 THEN i - 1 - 1 + 1 ELSE 0
        /\ \A j \in 1..i - 1 - 1 + 1 : a[j] = H[1 + j - 1]
    BY <1>1, <2>1, SubSeqProperties
  <2> QED BY <2>2
<1>3. /\ b \in Seq(Stored) /\ Len(b) = n - i
      /\ \A j \in 1..n - i : b[j] = H[i + j]
  <2>1. i + 1 \in 1..Len(H) + 1 /\ Len(H) \in 0..Len(H)
    OBVIOUS
  <2>2. /\ b \in Seq(Stored)
        /\ Len(b) = IF i + 1 <= Len(H) THEN Len(H) - (i + 1) + 1 ELSE 0
        /\ \A j \in 1..Len(H) - (i + 1) + 1 : b[j] = H[i + 1 + j - 1]
    BY <1>1, <2>1, SubSeqProperties
  <2> QED BY <1>0, <1>1, <2>2
<1>4. /\ w \in Seq(Stored) /\ Len(w) = n - 1
      /\ \A j \in 1..n - 1 : w[j] = IF j < i THEN H[j] ELSE H[j + 1]
  BY <1>0, <1>1, WithoutIs
<1>5. PICK c : c = a \o b
  OBVIOUS
<1>6. /\ c \in Seq(Stored) /\ Len(c) = Len(a) + Len(b)
      /\ \A j \in 1..Len(a) + Len(b) :
           c[j] = IF j <= Len(a) THEN a[j] ELSE b[j - Len(a)]
  BY <1>2, <1>3, <1>5, ConcatProperties
<1>7. ASSUME NEW j \in 1..n - 1 PROVE c[j] = w[j]
  <2>1. CASE j < i
    <3>1. j <= Len(a) /\ j \in 1..i - 1 /\ j \in 1..Len(a) + Len(b)
      BY <1>0, <1>2, <1>3, <2>1
    <3> QED BY <1>2, <1>4, <1>6, <2>1, <3>1
  <2>2. CASE ~ (j < i)
    <3>1. /\ ~ (j <= Len(a)) /\ j - Len(a) \in 1..n - i
          /\ i + (j - Len(a)) = j + 1 /\ j \in 1..Len(a) + Len(b)
      BY <1>0, <1>2, <1>3, <2>2
    <3> QED BY <1>3, <1>4, <1>6, <2>2, <3>1
  <2> QED BY <2>1, <2>2
<1>8. Len(c) = Len(w) /\ Len(w) = n - 1
  BY <1>0, <1>2, <1>3, <1>4, <1>6
<1>9. c = w
  BY <1>4, <1>6, <1>7, <1>8, SeqEqual
<1> QED BY <1>1, <1>5, <1>9, LogIs

(* The latest texts of a full log and one more are those without the oldest,*)
(* and the new one.                                                        *)
LEMMA LatestIs ==
  ASSUME NEW H \in Seq(Stored), Len(H) <= _maxsize, NEW x \in Stored
  PROVE  Log!Latest(Append(H, x)) =
           Append(IF Len(H) = _maxsize THEN Without(H, 1) ELSE H, x)
<1>0. PICK n \in Nat : n = Len(H)
  OBVIOUS
<1>1. PICK s : s = Append(H, x)
  OBVIOUS
<1>2. /\ s \in Seq(Stored) /\ Len(s) = n + 1 /\ s[n + 1] = x
      /\ \A j \in 1..n : s[j] = H[j]
  BY <1>0, <1>1
<1>3. Log!Latest(s) = IF Len(s) <= _maxsize THEN s
                      ELSE SubSeq(s, Len(s) - _maxsize + 1, Len(s))
  BY LogIs
<1>4. CASE n = _maxsize
  <2>1. ~ (Len(s) <= _maxsize) /\ Len(s) - _maxsize + 1 = 2 /\ n > 0
    BY <1>2, <1>4, Sizes
  <2>2. PICK g : g = SubSeq(s, 2, Len(s))
    OBVIOUS
  <2>3. /\ g \in Seq(Stored) /\ Len(g) = n
        /\ \A j \in 1..n : g[j] = s[j + 1]
    <3>1. 2 \in 1..Len(s) + 1 /\ Len(s) \in 0..Len(s)
      BY <1>2, <2>1
    <3>2. /\ g \in Seq(Stored)
          /\ Len(g) = IF 2 <= Len(s) THEN Len(s) - 2 + 1 ELSE 0
          /\ \A j \in 1..Len(s) - 2 + 1 : g[j] = s[2 + j - 1]
      BY <1>2, <2>2, <3>1, SubSeqProperties
    <3> QED BY <1>2, <2>1, <3>2
  <2>4. PICK w : w = Without(H, 1)
    OBVIOUS
  <2>5. /\ w \in Seq(Stored) /\ Len(w) = n - 1
        /\ \A j \in 1..n - 1 : w[j] = H[j + 1]
    <3>1. 1 \in 1..Len(H)
      BY <1>0, <2>1
    <3>2. /\ w \in Seq(Stored) /\ Len(w) = Len(H) - 1
          /\ \A j \in 1..Len(H) - 1 : w[j] = IF j < 1 THEN H[j] ELSE H[j + 1]
      BY <2>4, <3>1, WithoutIs
    <3> QED BY <1>0, <3>2
  <2>6. PICK v : v = Append(w, x)
    OBVIOUS
  <2>7. /\ v \in Seq(Stored) /\ Len(v) = n /\ v[n] = x
        /\ \A j \in 1..n - 1 : v[j] = w[j]
    BY <2>1, <2>5, <2>6
  <2>8. ASSUME NEW j \in 1..n PROVE g[j] = v[j]
    <3>1. CASE j = n
      BY <1>2, <2>3, <2>7, <3>1
    <3>2. CASE j # n
      <4>1. j \in 1..n - 1 /\ j + 1 \in 1..n
        BY <3>2
      <4> QED BY <1>2, <2>3, <2>5, <2>7, <4>1
    <3> QED BY <3>1, <3>2
  <2>9. g = v
    BY <2>3, <2>7, <2>8, SeqEqual
  <2> QED BY <1>0, <1>1, <1>3, <1>4, <2>1, <2>2, <2>4, <2>6, <2>9
<1>5. CASE n # _maxsize
  <2>1. Len(s) <= _maxsize
    BY <1>0, <1>2, <1>5, Sizes
  <2> QED BY <1>0, <1>1, <1>3, <1>5, <2>1
<1> QED BY <1>4, <1>5

(* The first position with a text is the same in both.                     *)
LEMMA FoundIs ==
  ASSUME NEW H, NEW t
  PROVE  Log!SelectInSeq(H, LAMBDA s : s = t) = First(H, t)
<1> DEFINE I == {i \in 1..Len(H) : H[i] = t}
<1>1. Log!SelectInSeq(H, LAMBDA s : s = t) =
        IF I # {} THEN CHOOSE x \in I : \A y \in I : x =< y ELSE 0
  BY DEF Log!SelectInSeq, Log!Min
<1>2. First(H, t) =
        IF I = {} THEN 0 ELSE CHOOSE x \in I : \A y \in I : x <= y
  BY Zenon DEF First
<1> DEFINE c == CHOOSE x \in I : \A y \in I : x <= y
<1>3. Log!SelectInSeq(H, LAMBDA s : s = t) = IF I # {} THEN c ELSE 0
  BY <1>1, Zenon
<1>4. First(H, t) = IF I = {} THEN 0 ELSE c
  BY <1>2, Zenon
<1> HIDE DEF I, c
<1>5. CASE I = {}
  BY <1>3, <1>4, <1>5, Zenon
<1>6. CASE I # {}
  BY <1>3, <1>4, <1>6, Zenon
<1> QED BY <1>5, <1>6

(* Every step of the store is a step of the log.                           *)
LEMMA StepIsLogs == StoreInv /\ Next => Log!Next
<1> SUFFICES ASSUME NEW p, StoreOk(_charlist, p), Next PROVE Log!Next
  BY DEF StoreInv
<1>1. PICK q : /\ StoreOk(_charlist', q)
               /\ Does(Held(_charlist, p), Held(_charlist', q), answer')
  BY NextDoes
<1>2. Contents = Held(_charlist, p)
  BY OfPath
<1>3. Contents' = Held(_charlist', q)
  <2>1. PICK l : l = _charlist'
    OBVIOUS
  <2>2. IsList(l, q) /\ Len(q) <= MaxNodes
    BY <1>1, <2>1, StoreOkIs, Sizes
  <2>3. ContentsOf(l) = Held(l, q)
    BY <2>2, PathIs
  <2>4. Contents' = ContentsOf(_charlist')
    BY Zenon DEF Contents, Path, ContentsOf, PathOf
  <2> QED BY <2>1, <2>3, <2>4
<1>4. PICK H \in Seq(Stored) : H = Contents /\ Len(H) <= _maxsize
  <2>1. PICK l : l = _charlist
    OBVIOUS
  <2>2. /\ l \in List /\ p \in Seq(Node) /\ Len(p) <= _maxsize
    BY <2>1, StoreOkIs
  <2>3. Held(l, p) \in Seq(Stored) /\ Len(Held(l, p)) = Len(p)
    BY <2>2, HeldIs
  <2> QED BY <1>2, <2>1, <2>2, <2>3
<1>5. Does(H, Contents', answer')
  BY <1>1, <1>2, <1>3, <1>4
<1>6. ASSUME NEW t \in Texts, answer' = Nothing,
             Contents' = Append(IF Len(H) = _maxsize THEN Without(H, 1)
                                ELSE H, Kept(t))
      PROVE  Log!Add
  <2>1. Kept(t) \in Stored
    BY DEF Stored
  <2>2. Contents' = Log!Latest(Append(H, Log!Shown(t)))
    BY <1>4, <1>6, <2>1, LatestIs, ShownIs
  <2> QED BY <1>4, <1>6, <2>2, LogIs DEF Log!Add
<1>7. ASSUME NEW i \in 1..Len(H), Contents' = Without(H, i), answer' = Nothing
      PROVE  Log!RemoveOne
  BY <1>4, <1>7, LogIs, RemoveAtIs DEF Log!RemoveOne
<1>8. ASSUME Contents' = H, answer' = Nothing PROVE Log!Miss
  BY <1>4, <1>8, LogIs DEF Log!Miss
<1>9. ASSUME NEW i \in 1..Len(H), Contents' = H,
             answer' = [Nothing EXCEPT !.texts = <<H[i]>>]
      PROVE  Log!Get
  BY <1>4, <1>9, LogIs DEF Log!Get
<1>10. ASSUME Contents' = H, answer' = [Nothing EXCEPT !.texts = H]
       PROVE  Log!Status
  BY <1>4, <1>10, LogIs DEF Log!Status
<1>11. ASSUME NEW t \in Texts, Contents' = H,
              answer' = [Nothing EXCEPT !.at = First(H, t)]
       PROVE  Log!Find
  <2>1. Log!SelectInSeq(Contents, LAMBDA s : s = t) = First(H, t)
    BY <1>4, FoundIs, Zenon
  <2>2. /\ Contents' = Contents
        /\ answer' = [Log!Nothing EXCEPT
                        !.at = Log!SelectInSeq(Contents, LAMBDA s : s = t)]
    BY <1>4, <1>11, <2>1, LogIs, Zenon
  <2> QED BY <2>2, Zenon DEF Log!Find
<1>12. ASSUME Contents' = <<>>, answer' = Nothing PROVE Log!Clear
  BY <1>12, LogIs DEF Log!Clear
<1> QED BY <1>5, <1>6, <1>7, <1>8, <1>9, <1>10, <1>11, <1>12, Zenon
        DEF Does, Log!Next

(* The store is the rolling log that its readers expect: the latest texts, *)
(* cut to length, in order, whatever calls were made (storestrings.cpp,    *)
(* GenLinkedList.h).                                                       *)
THEOREM Implements == Spec => IsRollingLog
<1>1. Init => Log!Init
  <2> SUFFICES ASSUME Init PROVE Log!Init
    OBVIOUS
  <2>1. StoreOk(_charlist, <<>>)
    BY InitOk
  <2>2. Contents = Held(_charlist, <<>>)
    BY <2>1, OfPath
  <2>3. Contents = <<>>
    BY <2>2 DEF Held
  <2> QED BY <2>3, LogIs DEF Init, Log!Init
<1>2. StoreInv /\ [Next]_vars => [Log!Next]_<<Contents, answer>>
  <2> SUFFICES ASSUME StoreInv, [Next]_vars
               PROVE  Log!Next \/ UNCHANGED <<Contents, answer>>
    OBVIOUS
  <2>1. CASE Next
    BY <2>1, StepIsLogs
  <2>2. CASE UNCHANGED vars
    <3>1. _charlist' = _charlist /\ answer' = answer
      BY <2>2 DEF vars
    <3>2. Contents' = Contents
      BY <3>1, Zenon DEF Contents, Path
    <3> QED BY <3>1, <3>2
  <2> QED BY <2>1, <2>2
<1> QED BY <1>1, <1>2, StoreInvAlways, PTL DEF Spec, IsRollingLog, Log!Spec
=============================================================================
