------------------------ MODULE ServerSessionsProofs -------------------------
(***************************************************************************)
(* RoutesToOwner and FreeIsVacant of ServerSessions, for any number of     *)
(* workers, slots, connections, sessions and streams.  The invariant is    *)
(* about the connection map of one worker: what is in the slab, on the     *)
(* free list and among the routes.  JavaScript's half of the model leaves  *)
(* it alone.                                                               *)
(*                                                                         *)
(* The free list is what makes this more than bookkeeping.  That a new     *)
(* connection gets a vacant slot, and so that no old route leads to it,    *)
(* rests on the list holding exactly the vacant slots, each once; that the *)
(* list is not empty when a connection is accepted rests on the limit on   *)
(* connections being no larger than the slab.                              *)
(***************************************************************************)
EXTENDS ServerSessions, FiniteSetTheorems, WellFoundedInduction, TLAPS

-----------------------------------------------------------------------------
(* Induction over finite sets, and what it gives about sequences that list *)
(* the elements of a set once.  The argument is always the same: were a    *)
(* statement false of some subset of a finite set, it would be false of    *)
(* one that has no smaller one of which it is false; that one minus an     *)
(* element gives the contradiction.                                        *)

\* Some set in T contains no other set in T.
HasSmallest(T) == \E U \in T : \A V \in T : V \subseteq U => V = U

\* Among subsets of a finite set there is a smallest one: strict inclusion is well
\* founded. Every induction below is an appeal to this.
LEMMA Smallest ==
    ASSUME NEW S, IsFiniteSet(S), NEW T \in SUBSET SUBSET S, T # {}
    PROVE  HasSmallest(T)
<1>1. IsWellFoundedOn(StrictSubsetOrdering(S), SUBSET S)
  BY FS_StrictSubsetOrderingWellFounded, FS_FiniteSubsetsOfFinite, Zenon
<1>2. PICK U \in T : \A V \in T : ~(<<V, U>> \in StrictSubsetOrdering(S))
  BY <1>1, WFMin, Zenon
<1>3. \A V \in T : V \subseteq U => V = U
  BY <1>2, Zenon DEF StrictSubsetOrdering
<1> QED BY <1>3, Zenon DEF HasSmallest

\* A finite set of natural numbers, such as the slots of a slab that are closed, has
\* a greatest element.
LEMMA Greatest ==
    ASSUME NEW S \in SUBSET Nat, IsFiniteSet(S), S # {}
    PROVE  \E m \in S : \A x \in S : x <= m
<1> DEFINE Bad == {U \in SUBSET S : U # {} /\ ~ \E m \in U : \A x \in U : x <= m}
<1>1. SUFFICES ASSUME Bad # {} PROVE FALSE
  OBVIOUS
<1>2. PICK U \in Bad : \A V \in Bad : V \subseteq U => V = U
  <2> HIDE DEF Bad
  <2>1. Bad \in SUBSET SUBSET S BY DEF Bad
  <2>2. HasSmallest(Bad) BY <1>1, <2>1, Smallest, Zenon
  <2> QED BY <2>2, Zenon DEF HasSmallest
<1>3. PICK x \in U : TRUE
  BY Zenon
<1>4. U \ {x} \notin Bad /\ U \ {x} \in SUBSET S
  BY <1>2, Zenon
<1>5. CASE U \ {x} = {}
  <2>1. \A y \in U : y = x BY <1>5
  <2> QED BY <2>1, <1>2
<1>6. CASE U \ {x} # {}
  <2>1. PICK m \in U \ {x} : \A y \in U \ {x} : y <= m
    BY <1>4, <1>6
  <2>2. m \in Nat /\ x \in Nat /\ U \subseteq Nat OBVIOUS
  <2>3. CASE x <= m BY <2>1, <2>3, <2>2
  <2>4. CASE ~(x <= m)
    <3>1. \A y \in U : y <= x BY <2>1, <2>2, <2>4
    <3> QED BY <3>1
  <2> QED BY <2>3, <2>4
<1> QED BY <1>5, <1>6

\* A list of numbers goes up.
Ascending(q) == \A i, j \in DOMAIN q : i < j => q[i] < q[j]

\* A finite set of natural numbers can be listed in ascending order: this is the order
\* in which the reap of worker.rs visits the closed slots.
LEMMA Enumeration ==
    ASSUME NEW S \in SUBSET Nat, IsFiniteSet(S)
    PROVE  \E q \in Surjection(1..Cardinality(S), S) : Ascending(q)
<1> DEFINE Bad == {U \in SUBSET S : ~ \E q \in Surjection(1..Cardinality(U), U) : Ascending(q)}
<1>1. SUFFICES ASSUME Bad # {} PROVE FALSE
  OBVIOUS
<1>2. PICK U \in Bad : \A V \in Bad : V \subseteq U => V = U
  <2> HIDE DEF Bad
  <2>1. Bad \in SUBSET SUBSET S BY DEF Bad
  <2>2. HasSmallest(Bad) BY <1>1, <2>1, Smallest, Zenon
  <2> QED BY <2>2, Zenon DEF HasSmallest
<1>3. IsFiniteSet(U) /\ Cardinality(U) \in Nat /\ U \in SUBSET S
  BY FS_Subset, FS_CardinalityType, Zenon
<1>4. CASE U = {}
  <2>1. Cardinality(U) = 0 BY <1>4, FS_EmptySet
  <2> DEFINE q == [i \in 1..0 |-> 0]
  <2>2. q \in Surjection(1..Cardinality(U), U) BY <2>1, <1>4 DEF Surjection
  <2>3. Ascending(q) BY DEF Ascending
  <2> QED BY <2>2, <2>3
<1>5. CASE U # {}
  <2>1. PICK m \in U : \A x \in U : x <= m
    BY <1>3, <1>5, Greatest
  <2> DEFINE V == U \ {m}
  <2> DEFINE n == Cardinality(V)
  <2>2. IsFiniteSet(V) /\ Cardinality(U) = n + 1 /\ n \in Nat
    <3>1. IsFiniteSet(V) /\ Cardinality(V) = Cardinality(U) - 1
      BY <1>3, FS_RemoveElement
    <3>2. n \in Nat BY <3>1, FS_CardinalityType
    <3> QED BY <3>1, <3>2, <1>3
  <2>3. V \notin Bad /\ V \in SUBSET S
    BY <1>2
  <2>4. PICK p \in Surjection(1..n, V) : Ascending(p)
    BY <2>3, Zenon
  <2> DEFINE q == [i \in 1..n + 1 |-> IF i = n + 1 THEN m ELSE p[i]]
  <2> HIDE DEF n, Bad
  <2>5. p \in [1..n -> V] /\ \A t \in V : \E s \in 1..n : p[s] = t
    BY <2>4 DEF Surjection
  <2>6. q \in [1..n + 1 -> U]
    BY <2>5, <2>2
  <2>7. ASSUME NEW t \in U PROVE \E s \in 1..n + 1 : q[s] = t
    <3>1. CASE t = m BY <3>1, <2>2
    <3>2. CASE t # m
      <4>1. PICK s \in 1..n : p[s] = t BY <3>2, <2>5
      <4>2. s \in 1..n + 1 /\ q[s] = t BY <4>1, <2>2
      <4> QED BY <4>2
    <3> QED BY <3>1, <3>2
  <2>8. q \in Surjection(1..Cardinality(U), U)
    <3> HIDE DEF q, V
    <3> QED BY <2>6, <2>7, <2>2, Zenon DEF Surjection
  <2>9. Ascending(q)
    <3> SUFFICES ASSUME NEW i \in 1..n + 1, NEW j \in 1..n + 1, i < j
                 PROVE  q[i] < q[j]
      BY DEF Ascending
    <3>1. i \in 1..n BY <2>2
    <3>2. CASE j = n + 1
      <4>1. p[i] \in V BY <3>1, <2>5
      <4>2. p[i] <= m /\ p[i] # m /\ p[i] \in Nat /\ m \in Nat BY <4>1, <2>1, <1>3, Zenon
      <4> QED BY <4>2, <3>2, <3>1, <2>2
    <3>3. CASE j # n + 1
      <4>1. j \in 1..n BY <3>3, <2>2
      <4>2. p[i] < p[j] BY <4>1, <3>1, <2>4, <2>5 DEF Ascending
      <4> QED BY <4>1, <4>2, <3>1, <2>2
    <3> QED BY <3>2, <3>3
  <2> QED BY <2>8, <2>9 DEF Bad
<1> QED BY <1>4, <1>5

\* The sequence q lists the elements of S, each of them once.
Lists(q, S) ==
    /\ q \in Seq(S)
    /\ \A i, j \in 1..Len(q) : q[i] = q[j] => i = j
    /\ \A s \in S : \E i \in 1..Len(q) : q[i] = s

\* An empty list lists the empty set: no free slot means that none is vacant.
LEMMA ListsEmpty ==
    ASSUME NEW S, Lists(<< >>, S)
    PROVE  S = {}
BY DEF Lists

\* Taking the head off a list takes that element out of the set: Slab::insert takes a
\* slot off the free list.
LEMMA ListsTail ==
    ASSUME NEW S, NEW q, Lists(q, S), q # << >>
    PROVE  Head(q) \in S /\ Lists(Tail(q), S \ {Head(q)})
<1> DEFINE n == Len(q)
<1>1. q \in Seq(S) /\ n \in Nat \ {0} /\ Head(q) = q[1] /\ Head(q) \in S
  BY DEF Lists
<1>2. Tail(q) \in Seq(S) /\ Len(Tail(q)) = n - 1
  BY <1>1
<1>3. \A i \in 1..n - 1 : Tail(q)[i] = q[i + 1]
  BY <1>1
<1>4. \A i, j \in 1..n : q[i] = q[j] => i = j
  BY DEF Lists
<1>5. Tail(q) \in Seq(S \ {Head(q)})
  <2>1. \A i \in 1..n - 1 : Tail(q)[i] \in S \ {Head(q)}
    BY <1>1, <1>2, <1>3, <1>4
  <2>2. Tail(q) \in [1..n - 1 -> S \ {Head(q)}]
    <3> DEFINE t == Tail(q)
    <3>1. t = [i \in 1..n - 1 |-> t[i]]
      <4>1. \A x \in Seq(S) : x = [i \in 1..Len(x) |-> x[i]] OBVIOUS
      <4> QED BY <4>1, <1>2, Zenon
    <3> HIDE DEF t
    <3> QED BY <3>1, <2>1 DEF t
  <2> DEFINE T == S \ {Head(q)}
  <2> HIDE DEF T, n
  <2>3. \A m \in Nat : [1..m -> T] \subseteq Seq(T) OBVIOUS
  <2>4. n - 1 \in Nat BY <1>1
  <2> QED BY <2>2, <2>3, <2>4, Zenon DEF T
<1>6. \A i, j \in 1..n - 1 : Tail(q)[i] = Tail(q)[j] => i = j
  BY <1>1, <1>3, <1>4
<1>7. ASSUME NEW s \in S \ {Head(q)}
      PROVE  \E i \in 1..n - 1 : Tail(q)[i] = s
  <2>1. PICK i \in 1..n : q[i] = s BY DEF Lists
  <2>2. i - 1 \in 1..n - 1 /\ Tail(q)[i - 1] = s BY <2>1, <1>1, <1>3
  <2> QED BY <2>2
<1> QED BY <1>1, <1>2, <1>5, <1>6, <1>7 DEF Lists

\* Lists of two disjoint sets, one after the other, list their union: slots that are
\* reaped go in front of those that were free.
LEMMA ListsConcat ==
    ASSUME NEW S, NEW T, NEW p, NEW q, Lists(p, S), Lists(q, T), S \cap T = {}
    PROVE  Lists(p \o q, S \cup T)
<1> DEFINE r == p \o q
<1>1. p \in Seq(S \cup T) /\ q \in Seq(S \cup T) /\ p \in Seq(S) /\ q \in Seq(T)
  BY DEF Lists
<1>2. r \in Seq(S \cup T) /\ Len(r) = Len(p) + Len(q) /\ Len(p) \in Nat /\ Len(q) \in Nat
  BY <1>1
<1>3. \A i \in 1..Len(p) : r[i] = p[i] /\ p[i] \in S
  BY <1>1
<1>4. \A i \in Len(p) + 1..Len(p) + Len(q) : i - Len(p) \in 1..Len(q) /\ r[i] = q[i - Len(p)] /\ q[i - Len(p)] \in T
  BY <1>1
<1> HIDE DEF r
<1>5. ASSUME NEW i \in 1..Len(r), NEW j \in 1..Len(r), r[i] = r[j]
      PROVE  i = j
  <2>1. CASE i \in 1..Len(p) /\ j \in 1..Len(p)
    BY <2>1, <1>3, <1>5 DEF Lists
  <2>2. CASE i \in 1..Len(p) /\ j \in Len(p) + 1..Len(p) + Len(q)
    BY <2>2, <1>3, <1>4, <1>5, SMTT(20)
  <2>3. CASE j \in 1..Len(p) /\ i \in Len(p) + 1..Len(p) + Len(q)
    BY <2>3, <1>3, <1>4, <1>5, SMTT(20)
  <2>4. CASE i \in Len(p) + 1..Len(p) + Len(q) /\ j \in Len(p) + 1..Len(p) + Len(q)
    <3>1. i - Len(p) = j - Len(p)
      <4> DEFINE k == i - Len(p)
      <4> DEFINE l == j - Len(p)
      <4>1. k \in 1..Len(q) /\ l \in 1..Len(q) /\ q[k] = q[l]
        BY <2>4, <1>4, <1>5
      <4> HIDE DEF k, l
      <4>2. k = l BY <4>1 DEF Lists
      <4> QED BY <4>2 DEF k, l
    <3> QED BY <3>1, <1>2
  <2> QED BY <2>1, <2>2, <2>3, <2>4, <1>2
<1>6. ASSUME NEW s \in S \cup T
      PROVE  \E i \in 1..Len(r) : r[i] = s
  <2>1. CASE s \in S
    <3>1. PICK i \in 1..Len(p) : p[i] = s BY <2>1 DEF Lists
    <3>2. i \in 1..Len(r) /\ r[i] = s BY <3>1, <1>2, <1>3
    <3> QED BY <3>2
  <2>2. CASE s \in T
    <3>1. PICK i \in 1..Len(q) : q[i] = s BY <2>2 DEF Lists
    <3>2. i + Len(p) \in 1..Len(r) /\ r[i + Len(p)] = s
      <4>1. i + Len(p) \in Len(p) + 1..Len(p) + Len(q) /\ (i + Len(p)) - Len(p) = i
        BY <1>2
      <4>2. r[i + Len(p)] = q[i] BY <4>1, <1>4
      <4> QED BY <4>1, <4>2, <3>1, <1>2
    <3> QED BY <3>2
  <2> QED BY <2>1, <2>2
<1> QED BY <1>2, <1>5, <1>6, Zenon DEF Lists, r

\* An ascending listing read backwards lists the same set: of the slots reaped in one
\* pass, the last is the first to be used again.
LEMMA ListsReversed ==
    ASSUME NEW S \in SUBSET Nat, IsFiniteSet(S),
           NEW q \in [1..Cardinality(S) -> S], Ascending(q)
    PROVE  Lists(Reversed(q), S)
<1> DEFINE n == Cardinality(S)
<1> DEFINE r == Reversed(q)
<1>1. n \in Nat BY FS_CardinalityType
<1>4. q \in [1..n -> S] /\ \A i, j \in DOMAIN q : i < j => q[i] < q[j]
  BY DEF Ascending
<1>5. q \in Injection(1..n, S)
  <2>1. \A i, j \in 1..n : q[i] = q[j] => i = j
    <3> SUFFICES ASSUME NEW i \in 1..n, NEW j \in 1..n, i # j
                 PROVE  q[i] # q[j]
      OBVIOUS
    <3>1. q[i] \in Nat /\ q[j] \in Nat BY <1>4, Zenon
    <3>2. DOMAIN q = 1..n BY <1>4
    <3>3. CASE i < j BY <3>1, <3>2, <3>3, <1>4
    <3>4. CASE j < i BY <3>1, <3>2, <3>4, <1>4
    <3> QED BY <3>3, <3>4, <1>1
  <2> QED BY <2>1, <1>4 DEF Injection, IsInjective
<1>6. q \in Surjection(1..n, S)
  <2>1. IsFiniteSet(1..n) /\ Cardinality(1..n) = n BY <1>1, FS_Interval
  <2> QED BY <1>5, <2>1, FS_Injection
<1>7. q \in Seq(S) /\ Len(q) = n
  BY <1>1, <1>4
<1>8. r \in Seq(S) /\ Len(r) = n /\ \A i \in 1..n : r[i] = q[n + 1 - i] /\ n + 1 - i \in 1..n
  <2>1. r = [i \in 1..n |-> q[n + 1 - i]] BY <1>7 DEF Reversed
  <2>2. \A i \in 1..n : n + 1 - i \in 1..n BY <1>1
  <2>3. r \in [1..n -> S] BY <2>1, <2>2, <1>4
  <2>4. [1..n -> S] \subseteq Seq(S) BY <1>1
  <2> HIDE DEF r, n
  <2>5. Len(r) = n BY <2>1, <1>1, <2>3
  <2> QED BY <2>1, <2>2, <2>3, <2>4, <2>5, Zenon
<1>9. \A i, j \in 1..n : r[i] = r[j] => i = j
  BY <1>1, <1>5, <1>8, <1>4 DEF Injection, IsInjective
<1>10. ASSUME NEW s \in S PROVE \E i \in 1..n : r[i] = s
  <2>1. PICK i \in 1..n : q[i] = s BY <1>6 DEF Surjection
  <2>2. n + 1 - i \in 1..n /\ n + 1 - (n + 1 - i) = i BY <1>1
  <2> QED BY <2>1, <2>2, <1>8
<1> HIDE DEF r
<1> QED BY <1>8, <1>9, <1>10 DEF Lists, r

-----------------------------------------------------------------------------
(* The connection map. *)

\* What is assumed of the configurations: what ServerSessions says of one.
Constants == \A u \in Setups : Setup(u)

\* An entry of the slab: vacant, or a connection with a number.
Entry(c) == c = NoConn \/ ("id" \in DOMAIN c /\ c.id \in Nat \ {0})

\* What the connection map of worker w keeps.
MapInv(w) ==
    /\ DOMAIN conns[w] = Slots
    /\ \A s \in Slots : Entry(conns[w][s])
    /\ Lists(free[w], Slots \ Live(w))
    /\ \A d \in DOMAIN by_dcid[w] :
         /\ by_dcid[w][d] \in Slots
         /\ d[1] \in Nat \ {0}
         /\ conns[w][by_dcid[w][d]].id = d[1]

\* The inductive invariant.
Inv ==
    /\ setup \in Setups /\ accepted \in Nat
    /\ DOMAIN conns = Workers /\ DOMAIN free = Workers /\ DOMAIN by_dcid = Workers
    /\ \A w \in Workers : MapInv(w)

\* c is replaced by the same connection, or a vacant entry stays vacant.
Same(c, d) == IF c = NoConn THEN d = NoConn ELSE "id" \in DOMAIN d /\ d.id = c.id

\* The free list of a slab holds the vacant slots, each once.
FreeIsVacant == \A w \in Workers : Lists(free[w], Slots \ Live(w))

\* A step that replaces connections of one worker by later states of themselves keeps
\* the invariant: polls, timers, commands and packets do this to conn.conn.
LEMMA SameKeeps ==
    ASSUME Inv, NEW w \in Workers, UNCHANGED <<setup, free, by_dcid, accepted>>,
           DOMAIN conns' = Workers,
           \A v \in Workers \ {w} : conns'[v] = conns[v],
           DOMAIN conns'[w] = Slots,
           \A s \in Slots : Same(conns[w][s], conns'[w][s])
    PROVE  Inv'
<1>1. Workers' = Workers /\ Slots' = Slots
  BY DEF Workers, Slots, Span
<1>2. ASSUME NEW v \in Workers PROVE MapInv(v)'
  <2>1. CASE v # w
    <3>1. conns'[v] = conns[v] /\ free'[v] = free[v] /\ by_dcid'[v] = by_dcid[v] BY <2>1
    <3>2. Live(v)' = Live(v) BY <3>1, <1>1 DEF Live
    <3>3. MapInv(v) BY DEF Inv
    <3> QED BY <3>1, <3>2, <3>3, <1>1 DEF MapInv
  <2>2. CASE v = w
    <3>1. MapInv(w) BY DEF Inv
    <3>2. \A s \in Slots : Entry(conns'[w][s]) /\ (conns'[w][s] = NoConn <=> conns[w][s] = NoConn)
                           /\ conns'[w][s].id = conns[w][s].id
      BY <3>1 DEF MapInv, Entry, Same, NoConn
    <3>3. Live(w)' = Live(w) BY <3>2, <1>1 DEF Live
    <3> QED BY <3>1, <3>2, <3>3, <1>1, <2>2 DEF MapInv
  <2> QED BY <2>1, <2>2
<1> QED BY <1>1, <1>2 DEF Inv

\* A slab is finite and has room for as many connections as may be accepted.
LEMMA SetupFacts ==
    ASSUME Constants, setup \in Setups
    PROVE  /\ Span \in Nat \ {0} /\ setup.connections \in 0..Span
           /\ IsFiniteSet(Slots) /\ Cardinality(Slots) = Span /\ Slots \subseteq Nat
<1>1. Span \in Nat \ {0} /\ setup.connections \in 0..Span
  BY DEF Constants, Setup, Span
<1>2. IsFiniteSet(0..Span - 1) /\ Cardinality(0..Span - 1) = Span
  <2>1. 0 \in Int /\ Span - 1 \in Int /\ ~(0 > Span - 1) /\ (Span - 1) - 0 + 1 = Span BY <1>1
  <2> QED BY <2>1, FS_Interval
<1> QED BY <1>1, <1>2 DEF Slots

\* The slots reaped in one pass go on the free list once each, the last one first.
LEMMA InOrderLists ==
    ASSUME NEW S \in SUBSET Nat, IsFiniteSet(S)
    PROVE  Lists(Reversed(InOrder(S)), S)
<1> DEFINE n == Cardinality(S)
<1>1. PICK p \in Surjection(1..n, S) : Ascending(p) BY Enumeration
<1>2. p \in [1..n -> S] /\ \A i, j \in DOMAIN p : i < j => p[i] < p[j]
  BY <1>1 DEF Surjection, Ascending
<1>3. InOrder(S) \in [1..n -> S] /\ Ascending(InOrder(S))
  BY <1>2, Zenon DEF InOrder, Ascending
<1> QED BY <1>3, ListsReversed

\* A new worker has an empty map and every slot on its free list.
THEOREM InitInv == Constants /\ Init => Inv
<1> SUFFICES ASSUME Constants, Init PROVE Inv
  OBVIOUS
<1>1. Span \in Nat \ {0} BY SetupFacts DEF Init
<1>2. ASSUME NEW w \in Workers PROVE MapInv(w)
  <2>1. conns[w] = [s \in Slots |-> NoConn] /\ by_dcid[w] = << >>
        /\ free[w] = [i \in 1..Span |-> i - 1]
    BY DEF Init
  <2>2. Slots \ Live(w) = Slots BY <2>1 DEF Live
  <2>3. Lists([i \in 1..Span |-> i - 1], Slots)
    <3> DEFINE q == [i \in 1..Span |-> i - 1]
    <3>1. \A i \in 1..Span : i - 1 \in Slots BY <1>1 DEF Slots
    <3>2. q \in [1..Span -> Slots] BY <3>1
    <3>3. q \in Seq(Slots) /\ Len(q) = Span BY <3>2, <1>1
    <3>4. \A s \in Slots : s + 1 \in 1..Span /\ q[s + 1] = s BY <1>1 DEF Slots
    <3>5. \A i, j \in 1..Span : q[i] = q[j] => i = j BY <1>1
    <3> HIDE DEF q
    <3>6. Lists(q, Slots) BY <3>3, <3>4, <3>5 DEF Lists
    <3> QED BY <3>6 DEF q
  <2>4. \A s \in Slots : Entry(conns[w][s]) BY <2>1 DEF Entry
  <2>5. DOMAIN by_dcid[w] = {} BY <2>1
  <2> QED BY <2>1, <2>2, <2>3, <2>4, <2>5, Zenon DEF MapInv
<1> QED BY <1>2 DEF Inv, Init

\* Steps of JavaScript, and those of a worker between its phases, leave the maps alone.
LEMMA NothingKeeps ==
    ASSUME Inv, UNCHANGED <<setup, conns, free, by_dcid, accepted>>
    PROVE  Inv'
<1>1. Workers' = Workers /\ Slots' = Slots
  BY DEF Workers, Slots, Span
<1>2. ASSUME NEW w \in Workers PROVE MapInv(w)'
  <2>1. MapInv(w) /\ Live(w)' = Live(w) BY <1>1 DEF Inv, Live
  <2> QED BY <2>1, <1>1 DEF MapInv
<1> QED BY <1>1, <1>2 DEF Inv

\* SameKeeps for a step that writes the whole slab of a worker.
LEMMA RowKeeps ==
    ASSUME Inv, NEW w \in Workers, UNCHANGED <<setup, free, by_dcid, accepted>>,
           NEW row, DOMAIN row = Slots, conns' = [conns EXCEPT ![w] = row],
           \A s \in Slots : Same(conns[w][s], row[s])
    PROVE  Inv'
<1>1. DOMAIN conns = Workers BY DEF Inv
<1>2. DOMAIN conns' = Workers /\ conns'[w] = row /\ \A v \in Workers \ {w} : conns'[v] = conns[v]
  BY <1>1
<1> QED BY <1>2, SameKeeps

\* SameKeeps for a step that writes one slot.
LEMMA EntryKeeps ==
    ASSUME Inv, NEW w \in Workers, UNCHANGED <<setup, free, by_dcid, accepted>>,
           NEW slot, NEW c, conns' = [conns EXCEPT ![w][slot] = c],
           slot \in Slots => Same(conns[w][slot], c)
    PROVE  Inv'
<1> DEFINE row == [conns[w] EXCEPT ![slot] = c]
<1>1. DOMAIN conns = Workers /\ DOMAIN conns[w] = Slots BY Zenon DEF Inv, MapInv
<1>2. DOMAIN row = Slots /\ conns' = [conns EXCEPT ![w] = row] BY <1>1
<1>3. \A s \in Slots : Same(conns[w][s], row[s])
  <2> SUFFICES ASSUME NEW s \in Slots PROVE Same(conns[w][s], row[s])
    OBVIOUS
  <2>1. CASE s = slot BY <2>1, <1>1
  <2>2. CASE s # slot
    <3>1. row[s] = conns[w][s] BY <2>2, <1>1
    <3>2. Entry(conns[w][s]) BY Zenon DEF Inv, MapInv
    <3> QED BY <3>1, <3>2 DEF Same, Entry
  <2> QED BY <2>1, <2>2
<1> HIDE DEF row
<1> QED BY <1>2, <1>3, RowKeeps, Zenon

\* A connection that is left alone is the same connection.
LEMMA SameSelf ==
    ASSUME NEW c, Entry(c) PROVE Same(c, c)
BY DEF Same, Entry

\* quiche's close changes the state of a connection, not which one it is.
LEMMA SameClosed ==
    ASSUME NEW c, Entry(c), c # NoConn, NEW who
    PROVE  Same(c, Closed(c, who))
BY DEF Same, Entry, Closed

\* What is pending on the streams of a connection does not say which one it is.
LEMMA SamePending ==
    ASSUME NEW c, Entry(c), c # NoConn, NEW p
    PROVE  Same(c, [c EXCEPT !.pending = p])
BY DEF Same, Entry

\* A poll of a connection leaves it the connection it was.
LEMMA SamePoll ==
    ASSUME NEW c, Entry(c), c # NoConn
    PROVE  Same(c, AfterPoll(c)) /\ Entry(AfterPoll(c)) /\ AfterPoll(c) # NoConn
BY DEF Same, Entry, AfterPoll, NoConn

\* A packet received by a connection leaves it the connection it was.
LEMMA SameReceived ==
    ASSUME NEW c, Entry(c), c # NoConn, NEW d \in Received(c)
    PROVE  Same(c, d)
BY Zenon DEF Same, Entry, Received

\* dispatch_command: writes, closes and resets reach the connection in the slot.
LEMMA CommandInv ==
    ASSUME Inv, NEW w \in Workers, DispatchCommand(w) PROVE Inv'
<1> DEFINE cmd == Head(cmds[w])
<1> DEFINE c == conns[w][cmd.slot]
<1>1. UNCHANGED <<setup, free, by_dcid, accepted>> BY DEF DispatchCommand, script
<1>2. cmd.slot \in Slots => Entry(c) BY Zenon DEF Inv, MapInv
<1>3. CASE UNCHANGED conns BY <1>1, <1>3, NothingKeeps
<1>4. ASSUME c # NoConn, DispatchCloseSession(w, cmd), ~UNCHANGED conns PROVE Inv'
  <2>1. conns' = [conns EXCEPT ![w][cmd.slot] = Closed(@, cmd.id)]
    BY <1>4 DEF DispatchCloseSession
  <2>2. conns' = [conns EXCEPT ![w][cmd.slot] = Closed(c, cmd.id)]
    BY <2>1
  <2>3. cmd.slot \in Slots => Same(c, Closed(c, cmd.id)) BY <1>2, <1>4, SameClosed
  <2> HIDE DEF cmd
  <2> QED BY <2>2, <2>3, <1>1, EntryKeeps, Zenon
<1>5. ASSUME c # NoConn, DispatchStreamSend(w, cmd) PROVE Inv'
  <2>1. PICK blocked : conns' = [conns EXCEPT ![w][cmd.slot].pending = @ \cup blocked]
    BY <1>5, Zenon DEF DispatchStreamSend
  <2> DEFINE d == [c EXCEPT !.pending = @ \cup blocked]
  <2>2. conns' = [conns EXCEPT ![w][cmd.slot] = d] BY <2>1
  <2>3. cmd.slot \in Slots => Same(c, d) BY <1>2, <1>5, SamePending
  <2> HIDE DEF cmd, d
  <2> QED BY <2>2, <2>3, <1>1, EntryKeeps, Zenon
<1>6. ASSUME c # NoConn, DispatchStreamClose(w, cmd) PROVE Inv'
  <2> DEFINE d == [c EXCEPT !.pending = @ \ {cmd.stream}]
  <2>1. conns' = [conns EXCEPT ![w][cmd.slot] = d] BY <1>6, Zenon DEF DispatchStreamClose
  <2>2. cmd.slot \in Slots => Same(c, d) BY <1>2, <1>6, SamePending
  <2> HIDE DEF cmd, d
  <2> QED BY <2>1, <2>2, <1>1, EntryKeeps, Zenon
<1> QED BY <1>3, <1>4, <1>5, <1>6 DEF DispatchCommand

\* dispatch_command, Shutdown: every connection of the worker is closed in place.
LEMMA ShutdownInv ==
    ASSUME Inv, NEW w \in Workers, DispatchShutdown(w) PROVE Inv'
<1> DEFINE row == [s \in Slots |-> IF conns[w][s] = NoConn THEN NoConn
                                   ELSE Closed(conns[w][s], conns[w][s].id)]
<1>1. UNCHANGED <<setup, free, by_dcid, accepted>> BY DEF DispatchShutdown, script
<1>2. conns' = [conns EXCEPT ![w] = row] BY DEF DispatchShutdown, Inv
<1>3. ASSUME NEW s \in Slots PROVE Same(conns[w][s], row[s])
  <2>1. Entry(conns[w][s]) BY Zenon DEF Inv, MapInv
  <2>2. CASE conns[w][s] = NoConn BY <2>2 DEF Same
  <2>3. CASE conns[w][s] # NoConn BY <2>1, <2>3, SameClosed
  <2> QED BY <2>2, <2>3
<1> HIDE DEF row
<1>4. DOMAIN row = Slots BY DEF row
<1> QED BY <1>1, <1>2, <1>3, <1>4, RowKeeps, Zenon

\* A first packet: the new connection takes the head of the free list, which is vacant,
\* and its two connection IDs lead to it and to nothing else.
LEMMA AcceptInv ==
    ASSUME Constants, Inv, NEW w \in Workers, Accept(w) PROVE Inv'
<1> DEFINE slot == Head(free[w])
<1> DEFINE id == accepted + 1
<1> DEFINE ids == {<<id, 0>>, <<id, 1>>}
<1>1. /\ MapInv(w) /\ accepted \in Nat /\ setup \in Setups
      /\ DOMAIN conns = Workers /\ DOMAIN free = Workers /\ DOMAIN by_dcid = Workers
  BY DEF Inv
<1>2. UNCHANGED setup /\ accepted' = id BY DEF Accept, script
<1>3. Workers' = Workers /\ Slots' = Slots
  BY <1>2 DEF Workers, Slots, Span
<1>4. free[w] # << >>
  <2> SUFFICES ASSUME free[w] = << >> PROVE FALSE
    OBVIOUS
  <2>1. Slots \ Live(w) = {} BY <1>1, ListsEmpty, Zenon DEF MapInv
  <2>2. Live(w) = Slots BY <2>1 DEF Live
  <2>3. Cardinality(Live(w)) = Span /\ Span \in Nat /\ setup.connections \in 0..Span
    BY <2>2, <1>1, SetupFacts
  <2> QED BY <2>3 DEF Accept
<1>5. slot \in Slots \ Live(w) /\ Lists(Tail(free[w]), (Slots \ Live(w)) \ {slot})
  BY <1>1, <1>4, ListsTail, Zenon DEF MapInv
<1>6. PICK c : conns' = [conns EXCEPT ![w][slot] = c] /\ Entry(c) /\ c # NoConn /\ c.id = id
  <2>1. PICK outcome : conns' = [conns EXCEPT ![w][slot] = Connection(id, outcome[1], outcome[2])]
    BY Zenon DEF Accept
  <2>2. "id" \in DOMAIN Connection(id, outcome[1], outcome[2])
        /\ Connection(id, outcome[1], outcome[2]).id = id /\ id \in Nat \ {0}
    BY <1>1 DEF Connection
  <2> DEFINE c == Connection(id, outcome[1], outcome[2])
  <2> HIDE DEF id, slot
  <2>3. Entry(c) /\ c # NoConn BY <2>2 DEF Entry, NoConn
  <2> HIDE DEF c
  <2>4. conns' = [conns EXCEPT ![w][slot] = c] /\ c.id = id BY <2>1, <2>2 DEF c
  <2> QED BY <2>3, <2>4, Zenon
<1>7. free' = [free EXCEPT ![w] = Tail(free[w])] BY DEF Accept
<1>8. by_dcid' = [by_dcid EXCEPT ![w] = AddDcids(by_dcid[w], ids, slot)] BY DEF Accept
<1>9. id \in Nat \ {0} BY <1>1
<1> HIDE DEF slot, id, ids
<1>10. ASSUME NEW v \in Workers PROVE MapInv(v)'
  <2>1. CASE v # w
    <3>1. conns'[v] = conns[v] /\ free'[v] = free[v] /\ by_dcid'[v] = by_dcid[v]
      BY <2>1, <1>1, <1>6, <1>7, <1>8
    <3>2. Live(v)' = Live(v) BY <3>1, <1>3 DEF Live
    <3>3. MapInv(v) BY DEF Inv
    <3> QED BY <3>1, <3>2, <3>3, <1>3 DEF MapInv
  <2>2. CASE v = w
    <3>1. DOMAIN conns[w] = Slots /\ \A s \in Slots : Entry(conns[w][s]) BY <1>1 DEF MapInv
    <3>2. DOMAIN conns'[w] = Slots /\ conns'[w][slot] = c
          /\ \A s \in Slots \ {slot} : conns'[w][s] = conns[w][s]
      BY <3>1, <1>1, <1>5, <1>6
    <3>3. \A s \in Slots : Entry(conns'[w][s]) BY <3>1, <3>2, <1>6
    <3>4. (Slots \ Live(w))' = (Slots \ Live(w)) \ {slot}
      BY <3>2, <1>3, <1>5, <1>6 DEF Live
    <3>5. free'[w] = Tail(free[w]) BY <1>1, <1>7
    <3>6. by_dcid'[w] = AddDcids(by_dcid[w], ids, slot) BY <1>1, <1>8
    <3>7. ASSUME NEW d \in DOMAIN by_dcid'[w]
          PROVE  by_dcid'[w][d] \in Slots /\ d[1] \in Nat \ {0} /\ conns'[w][by_dcid'[w][d]].id = d[1]
      <4>1. CASE d \in ids
        <5>1. by_dcid'[w][d] = slot BY <4>1, <3>6, <3>7 DEF AddDcids
        <5>2. d[1] = id BY <4>1 DEF ids
        <5> QED BY <5>1, <5>2, <3>2, <1>5, <1>6, <1>9
      <4>2. CASE d \notin ids
        <5>1. d \in DOMAIN by_dcid[w] /\ by_dcid'[w][d] = by_dcid[w][d]
          BY <4>2, <3>6, <3>7 DEF AddDcids
        <5>2. by_dcid[w][d] \in Slots /\ d[1] \in Nat \ {0} /\ conns[w][by_dcid[w][d]].id = d[1]
          BY <5>1, <1>1 DEF MapInv
        <5>3. conns[w][slot] = NoConn BY <1>5 DEF Live
        <5>4. by_dcid[w][d] # slot BY <5>2, <5>3 DEF NoConn
        <5> QED BY <5>1, <5>2, <5>4, <3>2
      <4> QED BY <4>1, <4>2
    <3> QED BY <3>2, <3>3, <3>4, <3>5, <3>7, <1>3, <1>5, <2>2, Zenon DEF MapInv
  <2> QED BY <2>1, <2>2
<1>11. DOMAIN conns' = Workers /\ DOMAIN free' = Workers /\ DOMAIN by_dcid' = Workers
  BY <1>1, <1>6, <1>7, <1>8
<1> QED BY <1>2, <1>3, <1>9, <1>10, <1>11, <1>1 DEF Inv

\* A packet that a connection ID routes: IDs issued meanwhile carry the number of the
\* connection that the packet was routed to, retired ones are dropped.
LEMMA PacketInv ==
    ASSUME Inv, NEW w \in Workers, NEW d \in DOMAIN by_dcid[w], PacketFor(w, d) PROVE Inv'
<1> DEFINE slot == by_dcid[w][d]
<1> DEFINE old == conns[w][slot]
<1>1. /\ MapInv(w)
      /\ DOMAIN conns = Workers /\ DOMAIN free = Workers /\ DOMAIN by_dcid = Workers
  BY DEF Inv
<1>2. UNCHANGED <<setup, free, accepted>> BY DEF PacketFor, script
<1>3. Workers' = Workers /\ Slots' = Slots
  BY <1>2 DEF Workers, Slots, Span
<1>4. slot \in Slots /\ d[1] \in Nat \ {0} /\ old.id = d[1] /\ Entry(old) /\ old # NoConn
  BY <1>1 DEF MapInv, NoConn
<1>5. PICK c : conns' = [conns EXCEPT ![w][slot] = c] /\ Same(old, c)
  BY <1>4, SameReceived, Zenon DEF PacketFor
<1>6. PICK issued, kept : /\ by_dcid' = [by_dcid EXCEPT ![w] = Restrict(AddDcids(by_dcid[w], issued, slot), kept)]
                          /\ \A x \in issued : x[1] = d[1]
                          /\ kept \subseteq DOMAIN by_dcid[w] \cup issued
  <2> DEFINE scids == {x \in DOMAIN by_dcid[w] : x[1] = d[1] /\ x[2] > 0}
  <2> DEFINE unused == {<<d[1], k>> : k \in (1..setup.scids) \ {x[2] : x \in scids}}
  <2>1. PICK issued \in SUBSET unused, retired \in SUBSET scids :
            by_dcid' = [by_dcid EXCEPT ![w] = Restrict(AddDcids(by_dcid[w], issued, slot),
                                                       (DOMAIN by_dcid[w] \ retired) \cup issued)]
    BY Zenon DEF PacketFor
  <2>2. \A x \in issued : x[1] = d[1] OBVIOUS
  <2> DEFINE kept == (DOMAIN by_dcid[w] \ retired) \cup issued
  <2>3. kept \subseteq DOMAIN by_dcid[w] \cup issued OBVIOUS
  <2> HIDE DEF unused, scids, slot, kept
  <2>4. by_dcid' = [by_dcid EXCEPT ![w] = Restrict(AddDcids(by_dcid[w], issued, slot), kept)]
    BY <2>1 DEF kept
  <2> QED BY <2>2, <2>3, <2>4, Zenon
<1> HIDE DEF slot
<1>7. \A s \in Slots : /\ Entry(conns'[w][s]) /\ (conns'[w][s] = NoConn <=> conns[w][s] = NoConn)
                       /\ conns'[w][s].id = conns[w][s].id
  <2> SUFFICES ASSUME NEW s \in Slots
               PROVE  /\ Entry(conns'[w][s]) /\ (conns'[w][s] = NoConn <=> conns[w][s] = NoConn)
                      /\ conns'[w][s].id = conns[w][s].id
    OBVIOUS
  <2>1. Entry(conns[w][s]) /\ DOMAIN conns[w] = Slots BY <1>1 DEF MapInv
  <2>2. CASE s = slot
    <3>1. conns'[w][s] = c BY <2>1, <2>2, <1>1, <1>5
    <3> QED BY <3>1, <2>2, <1>4, <1>5 DEF Same, Entry, NoConn
  <2>3. CASE s # slot
    <3>1. conns'[w][s] = conns[w][s] BY <2>1, <2>3, <1>1, <1>5
    <3> QED BY <3>1, <2>1
  <2> QED BY <2>2, <2>3
<1>8. ASSUME NEW v \in Workers PROVE MapInv(v)'
  <2>1. CASE v # w
    <3>1. conns'[v] = conns[v] /\ free'[v] = free[v] /\ by_dcid'[v] = by_dcid[v]
      BY <2>1, <1>1, <1>2, <1>5, <1>6
    <3>2. Live(v)' = Live(v) BY <3>1, <1>3 DEF Live
    <3>3. MapInv(v) BY DEF Inv
    <3> QED BY <3>1, <3>2, <3>3, <1>3 DEF MapInv
  <2>2. CASE v = w
    <3>1. DOMAIN conns'[w] = Slots BY <1>1, <1>5 DEF MapInv
    <3>2. Live(w)' = Live(w) BY <1>7, <1>3 DEF Live
    <3>3. by_dcid'[w] = Restrict(AddDcids(by_dcid[w], issued, slot), kept) BY <1>1, <1>6
    <3>4. ASSUME NEW x \in DOMAIN by_dcid'[w]
          PROVE  by_dcid'[w][x] \in Slots /\ x[1] \in Nat \ {0} /\ conns[w][by_dcid'[w][x]].id = x[1]
      <4>1. x \in kept /\ by_dcid'[w][x] = AddDcids(by_dcid[w], issued, slot)[x]
        BY <3>3, <3>4 DEF Restrict
      <4>2. CASE x \in issued
        <5>1. by_dcid'[w][x] = slot BY <4>1, <4>2 DEF AddDcids
        <5> QED BY <5>1, <4>2, <1>4, <1>6
      <4>3. CASE x \notin issued
        <5>1. x \in DOMAIN by_dcid[w] /\ by_dcid'[w][x] = by_dcid[w][x]
          BY <4>1, <4>3, <1>6 DEF AddDcids
        <5> QED BY <5>1, <1>1 DEF MapInv
      <4> QED BY <4>2, <4>3
    <3> QED BY <3>1, <3>2, <3>4, <1>7, <1>1, <1>2, <1>3, <2>2 DEF MapInv
  <2> QED BY <2>1, <2>2
<1>9. DOMAIN conns' = Workers /\ DOMAIN free' = Workers /\ DOMAIN by_dcid' = Workers
  BY <1>1, <1>2, <1>5, <1>6
<1> QED BY <1>2, <1>3, <1>8, <1>9 DEF Inv

\* process_timers: timeouts and deferred closes change connections in place.
LEMMA TimersInv ==
    ASSUME Inv, NEW w \in Workers, ProcessTimers(w) PROVE Inv'
<1>1. PICK due, over, closes, paused : /\ Timers(w, due, over, closes, paused)
                                       /\ over \subseteq Live(w) /\ due \subseteq Live(w)
  BY DEF ProcessTimers
<1> DEFINE timeout(s) == IF s \in over THEN [conns[w][s] EXCEPT !.state = "closed", !.timer = FALSE]
                         ELSE IF s \in due /\ ~paused THEN AfterPoll(conns[w][s]) ELSE conns[w][s]
<1> DEFINE row == [s \in Slots |-> IF s \in closes /\ conns[w][s] # NoConn
                                   THEN Closed(timeout(s), deferred[w][s]) ELSE timeout(s)]
<1>2. UNCHANGED <<setup, free, by_dcid, accepted>> BY <1>1, Zenon DEF Timers, script
<1>3. conns' = [conns EXCEPT ![w] = row] BY <1>1, Zenon DEF Timers, Inv
<1>4. ASSUME NEW s \in Slots PROVE Same(conns[w][s], row[s])
  <2> DEFINE c == conns[w][s]
  <2>1. Entry(c) BY Zenon DEF Inv, MapInv
  <2>2. CASE c = NoConn
    <3>1. s \notin Live(w) BY <2>2 DEF Live
    <3>2. row[s] = c BY <3>1, <2>2, <1>1
    <3> QED BY <3>2, <2>2 DEF Same
  <2>3. CASE c # NoConn
    <3>1. Same(c, timeout(s)) /\ Entry(timeout(s)) /\ timeout(s) # NoConn
      <4>1. CASE s \in over BY <4>1, <2>1, <2>3, Zenon DEF Same, Entry, NoConn
      <4>2. CASE s \notin over /\ s \in due /\ ~paused
        <5>1. timeout(s) = AfterPoll(c) BY <4>2
        <5> QED BY <5>1, <2>1, <2>3, SamePoll
      <4>3. CASE s \notin over /\ ~(s \in due /\ ~paused)
        <5>1. timeout(s) = c BY <4>3
        <5> QED BY <5>1, <2>1, <2>3, SameSelf
      <4> QED BY <4>1, <4>2, <4>3
    <3> HIDE DEF timeout
    <3>2. Same(timeout(s), Closed(timeout(s), deferred[w][s])) BY <3>1, SameClosed
    <3>3. row[s] \in {timeout(s), Closed(timeout(s), deferred[w][s])} OBVIOUS
    <3> QED BY <3>1, <3>2, <3>3, <2>3 DEF Same
  <2> QED BY <2>2, <2>3
<1> HIDE DEF row
<1>5. DOMAIN row = Slots BY DEF row
<1> QED BY <1>2, <1>3, <1>4, <1>5, RowKeeps, Zenon

\* poll_app_events: polls and flushes change connections in place.
LEMMA PollInv ==
    ASSUME Inv, NEW w \in Workers, PollAppEvents(w) PROVE Inv'
<1> DEFINE After(p, f, c) == [(IF p THEN c ELSE AfterPoll(c)) EXCEPT !.pending = @ \ f]
<1> DEFINE Row(p, f) == [s \in Slots |-> IF conns[w][s] = NoConn THEN NoConn ELSE After(p, f, conns[w][s])]
<1>1. PICK paused \in {FALSE, Pauses}, flushed \in SUBSET Streams : conns' = [conns EXCEPT ![w] = Row(paused, flushed)]
  BY Zenon DEF PollAppEvents
<1> DEFINE polled(s) == IF paused THEN conns[w][s] ELSE AfterPoll(conns[w][s])
<1> DEFINE row == Row(paused, flushed)
<1>2. UNCHANGED <<setup, free, by_dcid, accepted>> BY DEF PollAppEvents, script
<1>3. conns' = [conns EXCEPT ![w] = row] BY <1>1
<1>4. ASSUME NEW s \in Slots PROVE Same(conns[w][s], row[s])
  <2> DEFINE c == conns[w][s]
  <2>1. Entry(c) BY Zenon DEF Inv, MapInv
  <2>2. CASE c = NoConn BY <2>2 DEF Same
  <2>3. CASE c # NoConn
    <3>1. Same(c, polled(s)) /\ Entry(polled(s)) /\ polled(s) # NoConn
      BY <2>1, <2>3, SamePoll, SameSelf
    <3>2. row[s] = [polled(s) EXCEPT !.pending = @ \ flushed] BY <2>3
    <3> HIDE DEF polled, row
    <3>3. Same(polled(s), [polled(s) EXCEPT !.pending = @ \ flushed]) BY <3>1, SamePending
    <3> QED BY <3>1, <3>2, <3>3, <2>3 DEF Same
  <2> QED BY <2>2, <2>3
<1> HIDE DEF row
<1>5. DOMAIN row = Slots BY DEF row
<1> QED BY <1>2, <1>3, <1>4, <1>5, RowKeeps, Zenon

\* The reap: closed connections leave their slots, the slots go on the free list, and
\* every route that leads to one of them goes with it.
LEMMA ReapInv ==
    ASSUME Constants, Inv, NEW w \in Workers, Reap(w) PROVE Inv'
<1> DEFINE closed == {s \in Live(w) : conns[w][s].state = "closed"}
<1> DEFINE row == [s \in Slots |-> IF s \in closed \/ conns[w][s] = NoConn THEN NoConn
                                   ELSE [conns[w][s] EXCEPT !.fresh = FALSE]]
<1>1. /\ MapInv(w) /\ setup \in Setups
      /\ DOMAIN conns = Workers /\ DOMAIN free = Workers /\ DOMAIN by_dcid = Workers
  BY DEF Inv
<1>2. UNCHANGED <<setup, accepted>> BY Zenon DEF Reap, script
<1>3. Workers' = Workers /\ Slots' = Slots
  BY <1>2 DEF Workers, Slots, Span
<1>4. conns' = [conns EXCEPT ![w] = row] BY <1>1, Zenon DEF Reap
<1>5. free' = [free EXCEPT ![w] = Reversed(InOrder(closed)) \o free[w]] BY Zenon DEF Reap
<1>6. by_dcid' = [by_dcid EXCEPT ![w] = RemoveRoutes(by_dcid[w], closed)] BY Zenon DEF Reap
<1>7. closed \subseteq Slots /\ closed \subseteq Live(w) BY DEF Live
<1>8. Lists(Reversed(InOrder(closed)), closed)
  <2>1. closed \in SUBSET Nat /\ IsFiniteSet(closed) BY <1>7, <1>1, SetupFacts, FS_Subset
  <2> QED BY <2>1, InOrderLists
<1>9. ASSUME NEW s \in Slots
      PROVE  /\ s \in closed => row[s] = NoConn
             /\ s \notin closed => Same(conns[w][s], row[s])
  <2>1. Entry(conns[w][s]) BY <1>1 DEF MapInv
  <2> QED BY <2>1 DEF Same, Entry
<1>10. DOMAIN row = Slots OBVIOUS
<1> HIDE DEF closed, row
<1>11. ASSUME NEW v \in Workers PROVE MapInv(v)'
  <2>1. CASE v # w
    <3>1. conns'[v] = conns[v] /\ free'[v] = free[v] /\ by_dcid'[v] = by_dcid[v]
      BY <2>1, <1>1, <1>4, <1>5, <1>6
    <3>2. Live(v)' = Live(v) BY <3>1, <1>3 DEF Live
    <3>3. MapInv(v) BY DEF Inv
    <3> QED BY <3>1, <3>2, <3>3, <1>3 DEF MapInv
  <2>2. CASE v = w
    <3>1. conns'[w] = row BY <1>1, <1>4
    <3>2. \A s \in Slots : /\ Entry(row[s])
                           /\ row[s] = NoConn <=> (s \in closed \/ conns[w][s] = NoConn)
                           /\ s \notin closed => row[s].id = conns[w][s].id
      BY <1>1, <1>9 DEF MapInv, Same, Entry, NoConn
    <3>3. (Slots \ Live(w))' = closed \cup (Slots \ Live(w))
      BY <3>1, <3>2, <1>3, <1>7 DEF Live
    <3>4. Lists(free'[w], (Slots \ Live(w))')
      <4>1. free'[w] = Reversed(InOrder(closed)) \o free[w] BY <1>1, <1>5
      <4>2. closed \cap (Slots \ Live(w)) = {} BY <1>7
      <4>3. Lists(free[w], Slots \ Live(w)) BY <1>1 DEF MapInv
      <4> QED BY <4>1, <4>2, <4>3, <1>8, <3>3, ListsConcat
    <3>5. ASSUME NEW d \in DOMAIN by_dcid'[w]
          PROVE  by_dcid'[w][d] \in Slots /\ d[1] \in Nat \ {0} /\ row[by_dcid'[w][d]].id = d[1]
      <4>1. by_dcid'[w] = RemoveRoutes(by_dcid[w], closed) BY <1>1, <1>6
      <4>2. d \in DOMAIN by_dcid[w] /\ by_dcid'[w][d] = by_dcid[w][d] /\ by_dcid[w][d] \notin closed
        BY <4>1, <3>5 DEF RemoveRoutes, RestrictValues, Restrict
      <4>3. by_dcid[w][d] \in Slots /\ d[1] \in Nat \ {0} /\ conns[w][by_dcid[w][d]].id = d[1]
        BY <4>2, <1>1 DEF MapInv
      <4> QED BY <4>2, <4>3, <3>2
    <3> QED BY <3>1, <3>2, <3>4, <3>5, <1>3, <1>10, <2>2 DEF MapInv
  <2> QED BY <2>1, <2>2
<1>12. DOMAIN conns' = Workers /\ DOMAIN free' = Workers /\ DOMAIN by_dcid' = Workers
  BY <1>1, <1>4, <1>5, <1>6
<1> QED BY <1>2, <1>3, <1>11, <1>12 DEF Inv

\* Every step keeps the invariant.
THEOREM NextInv == Constants /\ Inv /\ [Next]_vars => Inv'
<1> SUFFICES ASSUME Constants, Inv, [Next]_vars PROVE Inv'
  OBVIOUS
<1>1. ASSUME NEW w \in Workers, WorkerStep(w) PROVE Inv'
  <2>1. CASE EndCommands(w) \/ EndPackets(w)
    BY <2>1, NothingKeeps DEF EndCommands, EndPackets, script
  <2> QED BY <1>1, <2>1, CommandInv, ShutdownInv, TimersInv, PollInv, ReapInv DEF WorkerStep
<1>2. ASSUME NEW w \in Workers, PacketStep(w) PROVE Inv'
  BY <1>2, AcceptInv, PacketInv DEF PacketStep
<1>3. ASSUME NEW w \in Workers, RuntimeError(w) PROVE Inv'
  BY <1>3, NothingKeeps, Zenon DEF RuntimeError, script
<1>4. CASE Dispatch
  BY <1>4, NothingKeeps DEF Dispatch, native
<1>5. CASE UserStep
  BY <1>5, NothingKeeps DEF UserStep, WriteStream, CancelStream, FinishStream, CloseSession,
     DestroySession, CloseServer, native
<1>6. CASE ClearMaps BY <1>6, NothingKeeps DEF ClearMaps, native
<1>7. CASE UNCHANGED vars BY <1>7, NothingKeeps DEF vars, native, script
<1> QED BY <1>1, <1>2, <1>3, <1>4, <1>5, <1>6, <1>7 DEF Next

\* A connection ID always leads to the connection that issued it, however slots are
\* reused: drain_closed and add_dcid of connection_map.rs keep routes and slab together.
THEOREM RoutesAlways == ASSUME Constants PROVE SafeSpec => []RoutesToOwner
<1>1. Inv => RoutesToOwner BY Zenon DEF Inv, MapInv, RoutesToOwner
<1> QED BY InitInv, NextInv, <1>1, PTL DEF SafeSpec

\* The free list of a slab always holds exactly its vacant slots, each of them once: a
\* connection that is accepted finds one, and no two connections ever share it.
THEOREM SlabAlways == ASSUME Constants PROVE SafeSpec => []FreeIsVacant
<1>1. Inv => FreeIsVacant BY DEF Inv, MapInv, FreeIsVacant
<1> QED BY InitInv, NextInv, <1>1, PTL DEF SafeSpec
==============================================================================
