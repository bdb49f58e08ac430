-------------------------- MODULE EventDeliveryGauge --------------------------
(***************************************************************************)
(* Lemmas about EventDelivery: what its counts are and how a step changes  *)
(* them, what a worker may hold at each place of run_event_loop (CoreInv), *)
(* and that every step keeps the gauge and the bound on app events (Part). *)
(* The counts are cardinalities of disjoint unions (Spread), so that a     *)
(* step changes them by what it does to one worker or one queue.           *)
(*                                                                         *)
(* What is known of finite sets comes in as one hypothesis, Counting, which *)
(* EventDeliveryProofs discharges: a proof carries every theorem of every  *)
(* module it extends, and FiniteSetTheorems brings very many.              *)
(***************************************************************************)
EXTENDS EventDelivery, Integers, TLAPS

-----------------------------------------------------------------------------
(* Finite sets. *)

Onto(f, S, T) == f \in [S -> T] /\ \A y \in T : \E x \in S : f[x] = y
OneToOne(f, S) == \A x, y \in S : f[x] = f[y] => x = y

\* What the proofs use of finite sets and their cardinalities.
Counting ==
    /\ IsFiniteSet({}) /\ Cardinality({}) = 0
    /\ \A x : IsFiniteSet({x}) /\ Cardinality({x}) = 1
    /\ \A S : IsFiniteSet(S) => Cardinality(S) \in Nat
    /\ \A m, n \in Int : IsFiniteSet(m..n) /\ Cardinality(m..n) = IF m > n THEN 0 ELSE n - m + 1
    /\ \A S, T : IsFiniteSet(S) /\ T \subseteq S => IsFiniteSet(T) /\ Cardinality(T) <= Cardinality(S)
    /\ \A S, T : IsFiniteSet(S) /\ IsFiniteSet(T) /\ S \cap T = {} =>
          IsFiniteSet(S \cup T) /\ Cardinality(S \cup T) = Cardinality(S) + Cardinality(T)
    /\ \A S, T : IsFiniteSet(S) /\ IsFiniteSet(T) =>
          IsFiniteSet(S \X T) /\ Cardinality(S \X T) = Cardinality(S) * Cardinality(T)
    /\ \A S : IsFiniteSet(S) /\ (\A T \in S : IsFiniteSet(T)) => IsFiniteSet(UNION S)
    /\ \A S, T, f : IsFiniteSet(S) /\ Onto(f, S, T) =>
          IsFiniteSet(T) /\ (OneToOne(f, S) => Cardinality(T) = Cardinality(S))

\* The parts of Counting, each to be cited by its name: the empty set,
LEMMA EmptyCount == ASSUME Counting PROVE IsFiniteSet({}) /\ Cardinality({}) = 0
BY Zenon DEF Counting

\* a set of one element,
LEMMA SingletonCount == ASSUME Counting PROVE \A x : IsFiniteSet({x}) /\ Cardinality({x}) = 1
BY Zenon DEF Counting

\* a cardinality is a number,
LEMMA CountIsNumber == ASSUME Counting, NEW S, IsFiniteSet(S) PROVE Cardinality(S) \in Nat
BY Zenon DEF Counting

\* an interval,
LEMMA IntervalCount ==
    ASSUME Counting, NEW m \in Int, NEW n \in Int
    PROVE  IsFiniteSet(m..n) /\ Cardinality(m..n) = IF m > n THEN 0 ELSE n - m + 1
BY Zenon DEF Counting

\* a subset,
LEMMA SubsetCount ==
    ASSUME Counting, NEW S, IsFiniteSet(S), NEW T, T \subseteq S
    PROVE  IsFiniteSet(T) /\ Cardinality(T) <= Cardinality(S)
BY Zenon DEF Counting

\* the union of two disjoint sets,
LEMMA UnionCount ==
    ASSUME Counting, NEW S, NEW T, IsFiniteSet(S), IsFiniteSet(T), S \cap T = {}
    PROVE  IsFiniteSet(S \cup T) /\ Cardinality(S \cup T) = Cardinality(S) + Cardinality(T)
BY Zenon DEF Counting

\* a product,
LEMMA ProductCount ==
    ASSUME Counting, NEW S, NEW T, IsFiniteSet(S), IsFiniteSet(T)
    PROVE  IsFiniteSet(S \X T) /\ Cardinality(S \X T) = Cardinality(S) * Cardinality(T)
BY Zenon DEF Counting

\* the union of finitely many sets,
LEMMA UnionFinite ==
    ASSUME Counting, NEW S, IsFiniteSet(S), \A T \in S : IsFiniteSet(T) PROVE IsFiniteSet(UNION S)
BY Zenon DEF Counting

\* and an image.
LEMMA ImageCount ==
    ASSUME Counting, NEW S, NEW T, NEW f, IsFiniteSet(S), Onto(f, S, T)
    PROVE  IsFiniteSet(T) /\ (OneToOne(f, S) => Cardinality(T) = Cardinality(S))
BY Zenon DEF Counting

-----------------------------------------------------------------------------
(* Counting over a family of sets. *)

\* A family of finite sets over a finite index set.
Family(F, I) == IsFiniteSet(I) /\ DOMAIN F = I /\ \A x \in I : IsFiniteSet(F[x])

\* What is in the disjoint union of a family.
LEMMA SpreadElement ==
    ASSUME NEW F, NEW p
    PROVE  p \in Spread(F) <=> \E x \in DOMAIN F : p \in {x} \X F[x]
BY DEF Spread

\* Indexing a set by one index changes neither its size nor that it is finite.
LEMMA OneIndex ==
    ASSUME Counting, NEW x, NEW S, IsFiniteSet(S)
    PROVE  /\ IsFiniteSet({x} \X S) /\ Cardinality({x} \X S) = Cardinality(S)
           /\ Cardinality(S) \in Nat
<1>1. IsFiniteSet({x}) /\ Cardinality({x}) = 1 BY SingletonCount
<1>2. Cardinality(S) \in Nat BY CountIsNumber
<1>3. IsFiniteSet({x} \X S) /\ Cardinality({x} \X S) = Cardinality({x}) * Cardinality(S)
  BY <1>1, ProductCount
<1>4. 1 * Cardinality(S) = Cardinality(S) BY <1>2
<1> QED BY <1>1, <1>2, <1>3, <1>4

\* The disjoint union of a finite family of finite sets is finite.
LEMMA SpreadFinite ==
    ASSUME Counting, NEW I, NEW F, Family(F, I)
    PROVE  IsFiniteSet(Spread(F)) /\ Cardinality(Spread(F)) \in Nat
<1> DEFINE S == {{x} \X F[x] : x \in I}
<1>1. IsFiniteSet(I) /\ DOMAIN F = I BY DEF Family
<1>2. IsFiniteSet(S)
  <2> DEFINE f == [x \in I |-> {x} \X F[x]]
  <2>1. Onto(f, I, S) BY DEF Onto
  <2> HIDE DEF f, S
  <2> QED BY <1>1, <2>1, ImageCount
<1>3. ASSUME NEW T \in S PROVE IsFiniteSet(T)
  <2>1. PICK x \in I : T = {x} \X F[x] OBVIOUS
  <2>2. IsFiniteSet(F[x]) BY DEF Family
  <2> QED BY <2>1, <2>2, OneIndex, Zenon
<1>4. Spread(F) = UNION S BY <1>1 DEF Spread
<1> HIDE DEF S
<1>5. IsFiniteSet(UNION S) BY <1>2, <1>3, UnionFinite
<1> QED BY <1>4, <1>5, CountIsNumber

\* The disjoint union without the part of one index.
Without(F, x) == {p \in Spread(F) : p[1] # x}

\* The part of one index and the rest make up the whole.
LEMMA SpreadSplit ==
    ASSUME Counting, NEW I, NEW F, Family(F, I), NEW x \in I
    PROVE  /\ IsFiniteSet(Without(F, x)) /\ Cardinality(Without(F, x)) \in Nat
           /\ Cardinality(F[x]) \in Nat
           /\ Cardinality(Spread(F)) = Cardinality(Without(F, x)) + Cardinality(F[x])
<1> DEFINE R == Without(F, x)
           X == {x} \X F[x]
<1>1. IsFiniteSet(Spread(F)) BY SpreadFinite
<1>2. R \in SUBSET Spread(F) BY DEF Without
<1>3. IsFiniteSet(R) /\ Cardinality(R) \in Nat BY <1>1, <1>2, SubsetCount, CountIsNumber
<1>4. IsFiniteSet(F[x]) BY DEF Family
<1>5. IsFiniteSet(X) /\ Cardinality(X) = Cardinality(F[x]) /\ Cardinality(F[x]) \in Nat
  BY <1>4, OneIndex, Zenon
<1>6. R \cap X = {} BY DEF Without
<1>7. R \cup X = Spread(F)
  <2>1. DOMAIN F = I BY DEF Family
  <2>2. ASSUME NEW p \in Spread(F) PROVE p \in R \cup X
    <3>1. PICK y \in I : p \in {y} \X F[y] BY <2>1, SpreadElement
    <3> QED BY <3>1 DEF Without
  <2>3. X \subseteq Spread(F) BY <2>1, SpreadElement
  <2> QED BY <2>2, <2>3, <1>2
<1> HIDE DEF R, X
<1>8. Cardinality(R \cup X) = Cardinality(R) + Cardinality(X) BY <1>3, <1>5, <1>6, UnionCount
<1> QED BY <1>3, <1>5, <1>7, <1>8, Zenon DEF R

\* Replacing the set of one index changes the count by the difference of the two.
LEMMA SpreadChange ==
    ASSUME Counting, NEW I, NEW F, NEW G, Family(F, I), Family(G, I), NEW x \in I,
           \A y \in I : y # x => G[y] = F[y]
    PROVE  /\ Cardinality(Spread(F)) \in Nat /\ Cardinality(Spread(G)) \in Nat
           /\ Cardinality(F[x]) \in Nat /\ Cardinality(G[x]) \in Nat
           /\ Cardinality(Spread(F)) >= Cardinality(F[x])
           /\ Cardinality(Spread(G)) = Cardinality(Spread(F)) - Cardinality(F[x]) + Cardinality(G[x])
<1>1. Without(G, x) = Without(F, x)
  <2>1. DOMAIN F = I /\ DOMAIN G = I BY DEF Family
  <2>2. ASSUME NEW p PROVE p \in Without(F, x) <=> p \in Without(G, x)
    <3>1. p \in Spread(F) /\ p[1] # x <=> \E y \in I : y # x /\ p \in {y} \X F[y]
      BY <2>1, SpreadElement
    <3>2. p \in Spread(G) /\ p[1] # x <=> \E y \in I : y # x /\ p \in {y} \X G[y]
      BY <2>1, SpreadElement
    <3> QED BY <3>1, <3>2 DEF Without
  <2> QED BY <2>2
<1>2. /\ Cardinality(Without(F, x)) \in Nat /\ Cardinality(F[x]) \in Nat
      /\ Cardinality(Spread(F)) = Cardinality(Without(F, x)) + Cardinality(F[x])
  BY SpreadSplit
<1>3. /\ Cardinality(G[x]) \in Nat
      /\ Cardinality(Spread(G)) = Cardinality(Without(G, x)) + Cardinality(G[x])
  BY SpreadSplit
<1> QED BY <1>1, <1>2, <1>3
-----------------------------------------------------------------------------
(* Counting over batches and queues of batches. *)

\* A batch, and a queue of them.
Batches == [from : Workers, events : Seq(Kinds)]

\* The places of the events of some kinds in a batch; those of all kinds are all places.
LEMMA PlacesCount ==
    ASSUME Counting, NEW e \in Seq(Kinds), NEW k
    PROVE  /\ IsFiniteSet(Places(e, k)) /\ Cardinality(Places(e, k)) \in Nat
           /\ Cardinality(Places(e, k)) <= Len(e)
           /\ Cardinality(Places(e, Kinds)) = Len(e)
<1>1. DOMAIN e = 1..Len(e) /\ Len(e) \in Nat OBVIOUS
<1>2. Places(e, k) \in SUBSET (1..Len(e)) BY <1>1 DEF Places
<1>3. Places(e, Kinds) = 1..Len(e) BY <1>1 DEF Places
<1>4. IsFiniteSet(1..Len(e)) /\ Cardinality(1..Len(e)) = Len(e) BY <1>1, IntervalCount, SMTT(30)
<1> QED BY <1>2, <1>3, <1>4, SubsetCount, CountIsNumber

\* A batch without events has no places.
LEMMA NoPlaces == ASSUME NEW k PROVE Places(<<>>, k) = {}
BY DEF Places

\* The batches of a queue are a family of finite sets.
LEMMA QueueFamily ==
    ASSUME Counting, NEW q \in Seq(Batches), NEW k
    PROVE  /\ Family([j \in DOMAIN q |-> Places(q[j].events, k)], 1..Len(q))
           /\ IsFiniteSet(Queued(q, k)) /\ Cardinality(Queued(q, k)) \in Nat
<1> DEFINE F == [j \in DOMAIN q |-> Places(q[j].events, k)]
<1>1. DOMAIN q = 1..Len(q) /\ Len(q) \in Nat OBVIOUS
<1>2. IsFiniteSet(1..Len(q)) BY <1>1, IntervalCount
<1>3. ASSUME NEW j \in 1..Len(q) PROVE IsFiniteSet(F[j])
  <2>0. q[j] \in Batches BY <1>3
  <2>1. q[j].events \in Seq(Kinds) BY <2>0 DEF Batches
  <2>2. IsFiniteSet(Places(q[j].events, k)) BY <2>1, PlacesCount
  <2> QED BY <2>2, <1>1
<1>4. Family(F, 1..Len(q)) BY <1>1, <1>2, <1>3 DEF Family
<1> HIDE DEF F
<1>5. IsFiniteSet(Spread(F)) /\ Cardinality(Spread(F)) \in Nat BY <1>4, SpreadFinite
<1> QED BY <1>4, <1>5 DEF F, Queued

\* An empty queue holds no event.
LEMMA NothingQueued == ASSUME NEW k PROVE Queued(<<>>, k) = {}
BY DEF Queued, Spread

\* Where the events of a queue are.
LEMMA QueuedElement ==
    ASSUME NEW q \in Seq(Batches), NEW k, NEW p
    PROVE  p \in Queued(q, k) <=> \E j \in 1..Len(q) : p \in {j} \X Places(q[j].events, k)
<1> DEFINE F == [j \in DOMAIN q |-> Places(q[j].events, k)]
<1>1. DOMAIN F = 1..Len(q) /\ \A j \in 1..Len(q) : F[j] = Places(q[j].events, k) OBVIOUS
<1>2. Queued(q, k) = Spread(F) BY DEF Queued
<1> HIDE DEF F
<1> QED BY <1>1, <1>2, SpreadElement

\* A batch appended to a queue adds its events.
LEMMA QueuedAppend ==
    ASSUME Counting, NEW q \in Seq(Batches), NEW m \in Batches, NEW k
    PROVE  Cardinality(Queued(Append(q, m), k)) = Cardinality(Queued(q, k)) + Cardinality(Places(m.events, k))
<1> DEFINE n == Len(q) + 1
           a == Append(q, m)
           R == Queued(q, k)
           X == {n} \X Places(m.events, k)
<1>1. n \in Nat /\ a \in Seq(Batches) /\ Len(a) = n /\ a[n] = m /\ \A j \in 1..Len(q) : a[j] = q[j]
  OBVIOUS
<1>2. \A j : j \in 1..n <=> j \in 1..Len(q) \/ j = n BY <1>1
<1>3. \A j \in 1..Len(q) : j # n OBVIOUS
<1>4. IsFiniteSet(R) /\ Cardinality(R) \in Nat BY QueueFamily, Zenon
<1>5. IsFiniteSet(X) /\ Cardinality(X) = Cardinality(Places(m.events, k)) /\ Cardinality(X) \in Nat
  <2>1. m.events \in Seq(Kinds) BY DEF Batches
  <2> QED BY <2>1, PlacesCount, OneIndex, Zenon
<1> HIDE DEF n, a
<1>6. R \cap X = {}
  <2>1. ASSUME NEW p \in R PROVE p \notin X BY <1>3, QueuedElement
  <2> QED BY <2>1
<1>7. R \cup X = Queued(a, k)
  <2>1. ASSUME NEW p PROVE p \in Queued(a, k) <=> p \in R \cup X
    <3>1. p \in Queued(a, k) <=> \E j \in 1..n : p \in {j} \X Places(a[j].events, k)
      BY <1>1, QueuedElement
    <3>2. p \in R <=> \E j \in 1..Len(q) : p \in {j} \X Places(q[j].events, k) BY QueuedElement
    <3> QED BY <1>1, <1>2, <3>1, <3>2, Zenon
  <2> QED BY <2>1
<1> HIDE DEF R, X
<1>8. Cardinality(R \cup X) = Cardinality(R) + Cardinality(X) BY <1>4, <1>5, <1>6, UnionCount, Zenon
<1> QED BY <1>5, <1>7, <1>8, Zenon DEF R, a

\* The first batch taken off a queue takes its events away; the places of the others
\* move up by one batch.
LEMMA QueuedTail ==
    ASSUME Counting, NEW q \in Seq(Batches), q # <<>>, NEW k
    PROVE  Cardinality(Queued(q, k)) = Cardinality(Queued(Tail(q), k)) + Cardinality(Places(Head(q).events, k))
<1> DEFINE t == Tail(q)
           T == Queued(t, k)
           F == [j \in DOMAIN q |-> Places(q[j].events, k)]
           R == Without(F, 1)
           f == [p \in T |-> <<p[1] + 1, p[2]>>]
<1>1. /\ Len(q) \in Nat \ {0} /\ t \in Seq(Batches) /\ Len(t) = Len(q) - 1 /\ Head(q) = q[1]
      /\ \A j \in 1..Len(t) : t[j] = q[j + 1]
  OBVIOUS
<1>2. Family(F, 1..Len(q)) BY QueueFamily
<1>3. F[1] = Places(Head(q).events, k) /\ 1 \in 1..Len(q) BY <1>1
<1>4. Queued(q, k) = Spread(F) BY DEF Queued
<1>5. DOMAIN F = 1..Len(q) /\ \A j \in 1..Len(q) : F[j] = Places(q[j].events, k) OBVIOUS
<1> HIDE DEF F, t
<1>6. Cardinality(Queued(q, k)) = Cardinality(R) + Cardinality(Places(Head(q).events, k))
  BY <1>2, <1>3, <1>4, SpreadSplit
<1>7. ASSUME NEW p PROVE p \in R <=> \E j \in 1..Len(q) : j # 1 /\ p \in {j} \X Places(q[j].events, k)
  BY <1>5, SpreadElement DEF Without
<1>8. ASSUME NEW p PROVE p \in T <=> \E j \in 1..Len(t) : p \in {j} \X Places(t[j].events, k)
  BY <1>1, QueuedElement
<1> HIDE DEF R, T
<1>9. Onto(f, T, R) /\ OneToOne(f, T)
  <2>1. ASSUME NEW p \in T PROVE f[p] \in R /\ p = <<p[1], p[2]>> /\ p[1] \in Nat
    <3>1. PICK j \in 1..Len(t) : p \in {j} \X Places(t[j].events, k) BY <1>8
    <3>2. f[p] = <<j + 1, p[2]>> /\ p[2] \in Places(q[j + 1].events, k) BY <1>1, <3>1
    <3>3. j + 1 \in 1..Len(q) /\ j + 1 # 1 BY <1>1
    <3>4. f[p] \in {j + 1} \X Places(q[j + 1].events, k) BY <3>2
    <3> QED BY <3>1, <3>3, <3>4, <1>7
  <2>2. ASSUME NEW p \in T, NEW r \in T, f[p] = f[r] PROVE p = r
    <3>1. p[1] + 1 = r[1] + 1 /\ p[2] = r[2] BY <2>2
    <3>0. p[1] \in Nat /\ r[1] \in Nat BY <2>1, Zenon
    <3>2. p[1] = r[1] BY <3>0, <3>1
    <3>3. p = <<p[1], p[2]>> /\ r = <<r[1], r[2]>> BY <2>1, Zenon
    <3> QED BY <3>1, <3>2, <3>3
  <2>3. ASSUME NEW r \in R PROVE \E p \in T : f[p] = r
    <3>1. PICK j \in 1..Len(q) : j # 1 /\ r \in {j} \X Places(q[j].events, k) BY <1>7
    <3>2. j - 1 \in 1..Len(t) /\ j - 1 + 1 = j BY <1>1, <3>1
    <3>3. t[j - 1] = q[j] BY <1>1, <3>2
    <3>4. <<j - 1, r[2]>> \in {j - 1} \X Places(t[j - 1].events, k) BY <3>1, <3>3
    <3>5. <<j - 1, r[2]>> \in T BY <3>2, <3>4, <1>8
    <3>6. r = <<j, r[2]>> BY <3>1
    <3>7. f[<<j - 1, r[2]>>] = <<j - 1 + 1, r[2]>> BY <3>5
    <3>8. f[<<j - 1, r[2]>>] = r BY <3>2, <3>6, <3>7, Zenon
    <3> QED BY <3>5, <3>8
  <2>4. f \in [T -> R] BY <2>1
  <2> HIDE DEF f
  <2> QED BY <2>2, <2>3, <2>4 DEF Onto, OneToOne
<1>10. IsFiniteSet(T) BY <1>1, QueueFamily, Zenon DEF T
<1>11. Cardinality(R) = Cardinality(T) BY <1>9, <1>10, ImageCount
<1> QED BY <1>6, <1>11 DEF T, t

-----------------------------------------------------------------------------
(* The invariant of the workers. *)

\* A setup is one of the assumed kind.
LEMMA SetupFacts ==
    ASSUME setup \in Setups
    PROVE  /\ MaxBatch \in Nat \ {0} /\ HighWater \in Nat \ {0}
           /\ Conns \in Nat \ {0} /\ TimerBatch \in Nat
           /\ setup.app \in Nat /\ setup.ctl \in Nat /\ setup.sends \in Nat
           /\ \A b, c \in setup.bindings : b # c => b \cap c = {}
           /\ {} \notin setup.bindings
BY DeliveryAssumption DEF Setup, MaxBatch, HighWater, Conns, TimerBatch

\* Every worker of the process has one owner, which is one of the bindings.
LEMMA OwnerFacts ==
    ASSUME setup \in Setups, NEW w \in Present
    PROVE  Owner(w) \in setup.bindings /\ w \in Owner(w) /\ Owner(w) \in Bindings /\ w \in Workers
<1>1. \E b \in setup.bindings : w \in b BY DEF Present
<1>2. Owner(w) \in setup.bindings /\ w \in Owner(w) BY <1>1 DEF Owner
<1> QED BY <1>2 DEF Bindings, Workers

\* The smaller of two numbers.
LEMMA LesserFacts ==
    ASSUME NEW a \in Nat, NEW b \in Nat
    PROVE  Lesser(a, b) \in Nat /\ Lesser(a, b) <= a /\ Lesser(a, b) <= b /\ (Lesser(a, b) = a \/ Lesser(a, b) = b)
BY DEF Lesser

Idle == {"top", "poll", "sentinel"}

\* What a worker at label p, on its way to a, may have taken (t) and collected (c): it
\* holds a batch only while it hands it over, has none left where it goes round or ends,
\* its app events are within a batch for each connection, and the sentinel is the last it hands over.
Fits(p, a, t, c) ==
    /\ p # "emit" => t = <<>>
    /\ p \in Idle \/ (p = "emit" /\ a \in Idle) => c = <<>>
    /\ \A i \in Places(c, {"app"}) : i <= TimerBatch
    /\ Places(t, {"shutdown"}) # {} => p = "emit" /\ a = "stopped"
    /\ Places(c, {"shutdown"}) = {}

CoreType ==
    /\ setup \in Setups
    /\ outstanding \in Nat /\ stale \in BOOLEAN /\ healed \in BOOLEAN /\ lost \in Nat
    /\ pc \in [Workers -> Labels] /\ after \in [Workers -> Labels]
    /\ batch \in [Workers -> Seq(Kinds)] /\ taken \in [Workers -> Seq(Kinds)]
    /\ queue \in [Bindings -> Seq(Batches)]

RestType ==
    /\ cmds \in [Workers -> Seq({"cmd", "shutdown"})]
    /\ drained \in [Workers -> 0..MaxCommands]
    /\ pollNow \in [Workers -> BOOLEAN] /\ wake \in [Workers -> BOOLEAN]
    /\ packets \in [Workers -> BOOLEAN] /\ ready \in [Workers -> Nat]
    /\ js \in [Bindings -> {"running", "closing", "joining", "joined", "closed", "dead"}]
    /\ sentinel \in [Bindings -> BOOLEAN]
    /\ left \in [Workers -> [app : 0..setup.app, ctl : 0..setup.ctl, cmd : 0..setup.sends]]

CoreInv ==
    /\ CoreType
    /\ \A w \in Workers : Fits(pc[w], after[w], taken[w], batch[w])
    /\ \A w \in Workers : w \notin Present => pc[w] = "stopped" /\ batch[w] = <<>>

Count(e) == Cardinality(Places(e, {"app"}))

\* k more app events may be collected by w.
Room(w, k) == k = 0 \/ (outstanding < HighWater /\ Len(batch[w]) + k <= TimerBatch)

\* One step of worker w that collects k app events, and may flush.
Turn(w, k, p, a, t, c) ==
    /\ pc[w] \notin {"emit", "stopped"} /\ Room(w, k)
    /\ pc' = [pc EXCEPT ![w] = p] /\ after' = [after EXCEPT ![w] = a]
    /\ taken' = [taken EXCEPT ![w] = t] /\ batch' = [batch EXCEPT ![w] = c]
    /\ outstanding' = outstanding + Len(t) /\ stale' \in BOOLEAN
    /\ Fits(p, a, t, c)
    /\ Count(t) + Count(c) = Count(batch[w]) + k
    /\ UNCHANGED <<setup, queue, lost, healed>>

Turns(w) ==
    \E k \in Nat, p \in Labels, a \in Labels, t \in Seq(Kinds), c \in Seq(Kinds) : Turn(w, k, p, a, t, c)

\* The steps that flush without collecting.
LEMMA FlushTurns ==
    ASSUME Counting, CoreInv, NEW w \in Workers, NEW e \in Seq(Kinds), NEW next \in Labels,
           pc[w] \notin {"emit", "stopped"}, Flush(w, e, <<>>, next),
           Count(e) = Count(batch[w]), UNCHANGED <<setup, queue, lost, healed>>,
           Places(e, {"shutdown"}) = {} \/ next = "stopped"
    PROVE  Turns(w)
<1>1. <<>> \in Seq(Kinds) /\ "emit" \in Labels /\ 0 \in Nat BY DEF Labels
<1>2. Places(<<>>, {"app"}) = {} /\ Places(<<>>, {"shutdown"}) = {} BY NoPlaces
<1>3. Count(<<>>) = 0 BY <1>2, EmptyCount, Zenon DEF Count
<1>4. Count(e) \in Nat BY PlacesCount DEF Count
<1>5. Fits("emit", next, e, <<>>) BY <1>2 DEF Fits
<1>6. Count(e) + Count(<<>>) = Count(batch[w]) + 0 BY <1>3, <1>4
<1>7. Turn(w, 0, "emit", next, e, <<>>)
  BY <1>5, <1>6, Zenon DEF Turn, Room, Flush, Goto, record_event_batch_flush
<1> QED BY <1>1, <1>7, Zenon DEF Turns

\* A group that starts with k app events and has no others, and no sentinel.
Group(g, k) ==
    g \in Seq(Kinds) /\ Places(g, {"app"}) = 1..k /\ Places(g, {"shutdown"}) = {}

\* Groups of control events, and of app events before them.
LEMMA Groups ==
    ASSUME NEW k \in Nat, NEW n \in Nat
    PROVE  /\ Group(Copies("ctl", n), 0) /\ Group(Copies("app", k), k)
           /\ Group(Copies("app", k) \o Copies("ctl", n), k)
<1>1. Copies("ctl", n) \in Seq(Kinds) /\ Len(Copies("ctl", n)) = n BY DEF Copies, Kinds
<1>2. Copies("app", k) \in Seq(Kinds) /\ Len(Copies("app", k)) = k BY DEF Copies, Kinds
<1>3. Group(Copies("ctl", n), 0) BY <1>1 DEF Copies, Places, Group
<1>4. Group(Copies("app", k), k) BY <1>2 DEF Copies, Places, Group
<1> DEFINE g == Copies("app", k) \o Copies("ctl", n)
<1>5. g \in Seq(Kinds) /\ Len(g) = k + n /\ DOMAIN g = 1..(k + n) BY <1>1, <1>2
<1>6. \A i \in 1..k : i \in 1..(k + n) /\ g[i] = "app" BY <1>1, <1>2 DEF Copies
<1>7. ASSUME NEW i \in 1..(k + n), i \notin 1..k PROVE g[i] = "ctl"
  <2>1. i - k \in 1..n /\ g[i] = Copies("ctl", n)[i - k] BY <1>1, <1>2, <1>7
  <2> QED BY <2>1 DEF Copies
<1>8. Places(g, {"app"}) = 1..k BY <1>5, <1>6, <1>7 DEF Places
<1>9. Places(g, {"shutdown"}) = {} BY <1>5, <1>6, <1>7 DEF Places
<1> QED BY <1>3, <1>4, <1>5, <1>8, <1>9 DEF Group

\* A group that is appended adds its app events.
LEMMA ConcatCount ==
    ASSUME Counting, NEW s \in Seq(Kinds), NEW g, NEW k \in Nat, Group(g, k)
    PROVE  /\ s \o g \in Seq(Kinds)
           /\ Count(s) \in Nat /\ Count(g) = k /\ Count(s \o g) = Count(s) + k
           /\ \A i \in Places(s \o g, {"app"}) : i \in Places(s, {"app"}) \/ i \in (Len(s) + 1)..(Len(s) + k)
           /\ Places(s, {"shutdown"}) = {} => Places(s \o g, {"shutdown"}) = {}
<1> DEFINE X == (Len(s) + 1)..(Len(s) + k)
           P == Places(s, {"app"})
<1>1. g \in Seq(Kinds) /\ DOMAIN g = 1..Len(g) /\ Len(g) \in Nat BY DEF Group
<1>2. s \o g \in Seq(Kinds) /\ DOMAIN (s \o g) = 1..(Len(s) + Len(g)) BY <1>1
<1>3. \A i \in 1..Len(s) : (s \o g)[i] = s[i] BY <1>1
<1>4. \A i \in 1..(Len(s) + Len(g)) : i \notin 1..Len(s) => (s \o g)[i] = g[i - Len(s)] /\ i - Len(s) \in 1..Len(g)
  BY <1>1
<1>5. \A i \in 1..Len(g) : g[i] = "app" <=> i \in 1..k BY <1>1 DEF Group, Places
<1>6. 1..k \subseteq 1..Len(g) BY <1>1 DEF Group, Places
<1>7. k <= Len(g) BY <1>6, <1>1
<1>8. P \subseteq 1..Len(s) /\ IsFiniteSet(P) /\ Cardinality(P) \in Nat
  <2>1. P \subseteq 1..Len(s) BY DEF Places
  <2> QED BY <2>1, PlacesCount
<1>9. Places(s \o g, {"app"}) = P \cup X
  <2>1. ASSUME NEW i \in 1..Len(s) PROVE i \in Places(s \o g, {"app"}) <=> i \in P \cup X
    BY <1>1, <1>2, <1>3 DEF Places
  <2>2. ASSUME NEW i \in 1..(Len(s) + Len(g)), i \notin 1..Len(s)
        PROVE  i \in Places(s \o g, {"app"}) <=> i \in P \cup X
    <3>1. (s \o g)[i] = "app" <=> i - Len(s) \in 1..k BY <1>4, <1>5, <2>2
    <3>2. i - Len(s) \in 1..k <=> i \in X OBVIOUS
    <3> QED BY <3>1, <3>2, <1>2, <1>8, <2>2 DEF Places
  <2>3. Places(s \o g, {"app"}) \subseteq 1..(Len(s) + Len(g)) BY <1>2 DEF Places
  <2>4. P \cup X \subseteq 1..(Len(s) + Len(g)) BY <1>1, <1>7, <1>8
  <2> QED BY <2>1, <2>2, <2>3, <2>4
<1>10. P \cap X = {} BY <1>8
<1>11. IsFiniteSet(X) /\ Cardinality(X) = k
  <2>1. Len(s) + 1 \in Int /\ Len(s) + k \in Int OBVIOUS
  <2>2. IsFiniteSet(X) /\ Cardinality(X) = IF Len(s) + 1 > Len(s) + k THEN 0 ELSE (Len(s) + k) - (Len(s) + 1) + 1
    BY <2>1, IntervalCount, Zenon
  <2> QED BY <2>2
<1>12. Cardinality(1..k) = k
  <2>1. Cardinality(1..k) = IF 1 > k THEN 0 ELSE k - 1 + 1 BY IntervalCount
  <2> QED BY <2>1
<1>13. Cardinality(P \cup X) = Cardinality(P) + k
  <2> HIDE DEF P, X
  <2>1. Cardinality(P \cup X) = Cardinality(P) + Cardinality(X) BY <1>8, <1>10, <1>11, UnionCount, Zenon
  <2> QED BY <2>1, <1>11
<1>14. Count(g) = k BY <1>12 DEF Count, Group
<1>15. ASSUME Places(s, {"shutdown"}) = {} PROVE Places(s \o g, {"shutdown"}) = {}
  <2>1. \A i \in 1..Len(s) : s[i] # "shutdown" BY <1>15 DEF Places
  <2>2. \A i \in 1..Len(g) : g[i] # "shutdown" BY <1>1 DEF Places, Group
  <2>3. \A i \in 1..(Len(s) + Len(g)) : (s \o g)[i] # "shutdown" BY <2>1, <2>2, <1>3, <1>4
  <2> QED BY <2>3, <1>2 DEF Places
<1> QED BY <1>2, <1>8, <1>9, <1>13, <1>14, <1>15, Zenon DEF Count

-----------------------------------------------------------------------------
(* The steps of a worker as turns. *)

\* append_atomic is a turn: flushed or not, the batch and what was taken from it hold
\* the app events of before and those of the group.
LEMMA AppendTurns ==
    ASSUME Counting, CoreInv, NEW w \in Workers, NEW k \in Nat, NEW g, Group(g, k), NEW next \in Labels \ ({"emit"} \cup Idle),
           pc[w] \notin {"emit", "stopped"}, Room(w, k), append_atomic(w, g, next),
           UNCHANGED <<setup, queue, lost, healed>>
    PROVE  Turns(w)
<1> DEFINE b == batch[w]
<1>1. /\ b \in Seq(Kinds) /\ g \in Seq(Kinds) /\ taken[w] = <<>> /\ setup \in Setups
      /\ batch \in [Workers -> Seq(Kinds)] /\ taken \in [Workers -> Seq(Kinds)]
      /\ after \in [Workers -> Labels] /\ outstanding \in Nat /\ stale \in BOOLEAN
  BY DEF CoreInv, CoreType, Group, Fits
<1>2. (\A i \in Places(b, {"app"}) : i <= TimerBatch) /\ Places(b, {"shutdown"}) = {} BY DEF CoreInv, Fits
<1>3. TimerBatch \in Nat BY <1>1, SetupFacts
<1>4. /\ b \o g \in Seq(Kinds) /\ Count(b) \in Nat /\ Count(g) = k /\ Count(b \o g) = Count(b) + k
      /\ \A i \in Places(b \o g, {"app"}) : i \in Places(b, {"app"}) \/ i \in (Len(b) + 1)..(Len(b) + k)
      /\ Places(b \o g, {"shutdown"}) = {}
  BY <1>1, <1>2, ConcatCount, Zenon
<1>5. Places(<<>>, {"app"}) = {} /\ Places(<<>>, {"shutdown"}) = {} BY NoPlaces
<1>6. Count(<<>>) = 0 BY <1>5, EmptyCount DEF Count
<1>7. /\ "emit" \in Labels /\ "emit" \notin Idle /\ <<>> \in Seq(Kinds)
      /\ next \in Labels /\ next # "emit" /\ next \notin Idle
  BY DEF Labels, Idle
<1>8. CASE g # <<>> /\ b # <<>> /\ Len(b) + Len(g) > MaxBatch
  <2>1. Flush(w, b, g, next) BY <1>8 DEF append_atomic
  <2>2. \A i \in Places(g, {"app"}) : i <= TimerBatch
    <3>0. Len(b) \in Nat BY <1>1
    <3>1. k = 0 \/ k <= TimerBatch BY <3>0, <1>3 DEF Room
    <3>2. Places(g, {"app"}) = 1..k BY DEF Group
    <3>3. \A i \in 1..k : i <= TimerBatch BY <3>1, <1>3
    <3> QED BY <3>2, <3>3
  <2>3. Fits("emit", next, b, g) BY <2>2, <1>2, <1>7 DEF Fits, Group
  <2>4. Turn(w, k, "emit", next, b, g)
    BY <1>4, <2>1, <2>3, Zenon DEF Turn, Flush, Goto, record_event_batch_flush
  <2> QED BY <1>1, <1>7, <2>4 DEF Turns
<1>9. CASE ~(g # <<>> /\ b # <<>> /\ Len(b) + Len(g) > MaxBatch)
  <2>1. /\ batch' = [batch EXCEPT ![w] = b \o g] /\ pc' = [pc EXCEPT ![w] = next]
        /\ UNCHANGED <<taken, after, outstanding, stale>>
    BY <1>9 DEF append_atomic, Goto
  <2>2. \A i \in Places(b \o g, {"app"}) : i <= TimerBatch
    <3>1. k = 0 \/ Len(b) + k <= TimerBatch BY DEF Room
    <3>2. \A i \in (Len(b) + 1)..(Len(b) + k) : i <= TimerBatch BY <3>1, <1>1, <1>3
    <3> QED BY <3>2, <1>2, <1>4
  <2>3. Fits(next, after[w], <<>>, b \o g) BY <2>2, <1>4, <1>5, <1>7 DEF Fits
  <2>4. taken' = [taken EXCEPT ![w] = <<>>] /\ after' = [after EXCEPT ![w] = after[w]] BY <1>1, <2>1
  <2>5. outstanding' = outstanding + Len(<<>>) BY <1>1, <2>1
  <2>6. Turn(w, k, next, after[w], <<>>, b \o g)
    <3>1. Count(<<>>) + Count(b \o g) = Count(b) + k BY <1>4, <1>6
    <3> HIDE DEF b
    <3>2. stale' \in BOOLEAN BY <1>1, <2>1
    <3> QED BY <2>1, <2>3, <2>4, <2>5, <3>1, <3>2, Zenon DEF Turn, b
  <2>7. after[w] \in Labels BY <1>1
  <2> QED BY <1>4, <1>7, <2>6, <2>7, Zenon DEF Turns
<1> QED BY <1>8, <1>9

\* A step to an idle place with an empty batch is a turn.
LEMMA EmptyTurns ==
    ASSUME Counting, CoreInv, NEW w \in Workers, NEW next \in Labels \ {"emit"},
           pc[w] \notin {"emit", "stopped"}, batch[w] = <<>>, Goto(w, next),
           UNCHANGED <<batch, taken, after, outstanding>>, stale' \in BOOLEAN,
           UNCHANGED <<setup, queue, lost, healed>>
    PROVE  Turns(w)
<1>1. /\ taken[w] = <<>> /\ after[w] \in Labels /\ outstanding \in Nat
      /\ batch \in [Workers -> Seq(Kinds)] /\ taken \in [Workers -> Seq(Kinds)]
      /\ after \in [Workers -> Labels]
  BY DEF CoreInv, CoreType, Fits
<1>2. <<>> \in Seq(Kinds) /\ next \in Labels OBVIOUS
<1>3. Fits(next, after[w], <<>>, <<>>) BY NoPlaces DEF Fits
<1>4. Count(<<>>) = 0 BY NoPlaces, EmptyCount, Zenon DEF Count
<1>5. /\ taken' = [taken EXCEPT ![w] = <<>>] /\ batch' = [batch EXCEPT ![w] = <<>>]
      /\ after' = [after EXCEPT ![w] = after[w]] /\ outstanding' = outstanding + Len(<<>>)
  BY <1>1
<1>6. Count(<<>>) + Count(<<>>) = Count(batch[w]) + 0 BY <1>4
<1>7. Turn(w, 0, next, after[w], <<>>, <<>>) BY <1>3, <1>5, <1>6, Zenon DEF Turn, Room, Goto
<1> QED BY <1>1, <1>2, <1>7 DEF Turns

\* c budgets of what b leaves of m are within c times m, even with b added.
LEMMA BudgetsFit ==
    ASSUME NEW m \in Nat, NEW b \in Nat, NEW c \in Nat \ {0}, b <= m
    PROVE  b + c * (m - b) <= m * c
<1>1. PICK d \in Nat : c = d + 1
  <2>1. c - 1 \in Nat /\ c = (c - 1) + 1 OBVIOUS
  <2> QED BY <2>1
<1>2. PICK e \in Nat : m = b + e
  <2>1. m - b \in Nat /\ m = b + (m - b) OBVIOUS
  <2> QED BY <2>1
<1>3. m - b = e BY <1>2
<1>4. b * d \in Nat BY <1>1
<1>5. (d + 1) * e = d * e + e /\ (b + e) * (d + 1) = b * d + d * e + b + e BY <1>1, <1>2
<1>6. d * e \in Nat BY <1>1, <1>2
<1> QED BY <1>1, <1>2, <1>3, <1>4, <1>5, <1>6

\* The budget for app events leaves room for them, also when each connection gets it.
LEMMA BudgetRoom ==
    ASSUME CoreInv, NEW w \in Workers, ready[w] \in Nat
    PROVE  /\ app_event_budget(w) \in Nat /\ Conns * app_event_budget(w) \in Nat
           /\ Conns \in Nat \ {0}
           /\ \A k \in 0..(Conns * app_event_budget(w)) : Room(w, k)
           /\ \A k \in 0..app_event_budget(w) : Room(w, k)
<1>1. MaxBatch \in Nat /\ HighWater \in Nat /\ Conns \in Nat \ {0} BY SetupFacts DEF CoreInv, CoreType
<1>2. Len(batch[w]) \in Nat /\ outstanding \in Nat BY DEF CoreInv, CoreType
<1>3. app_event_budget(w) \in Nat BY <1>1, <1>2 DEF app_event_budget, Minus
<1>4. Conns * app_event_budget(w) \in Nat /\ app_event_budget(w) <= Conns * app_event_budget(w)
  <2> DEFINE e == app_event_budget(w)
  <2>1. e \in Nat BY <1>3
  <2> HIDE DEF e
  <2>2. \A c \in Nat \ {0} : c * e \in Nat /\ e <= c * e
    <3> SUFFICES ASSUME NEW c \in Nat \ {0} PROVE c * e \in Nat /\ e <= c * e OBVIOUS
    <3>1. 0 <= c * (e - 0) /\ e = e - 0 BY <2>1
    <3>2. (c - 1) \in Nat OBVIOUS
    <3>3. (c - 1) * e \in Nat /\ c * e = (c - 1) * e + e BY <2>1, <3>2
    <3> QED BY <2>1, <3>3
  <2> QED BY <1>1, <2>2 DEF e
<1>5. \/ /\ outstanding < HighWater /\ Len(batch[w]) <= MaxBatch
         /\ app_event_budget(w) = MaxBatch - Len(batch[w])
      \/ app_event_budget(w) = 0
  <2>1. CASE outstanding >= HighWater BY <2>1 DEF app_event_budget
  <2>2. CASE ~(outstanding >= HighWater)
    <3>1. app_event_budget(w) = Minus(MaxBatch, Len(batch[w])) BY <2>2 DEF app_event_budget
    <3>2. outstanding < HighWater BY <2>2, <1>1, <1>2
    <3>3. \A x, y \in Nat : Minus(x, y) = 0 \/ (y <= x /\ Minus(x, y) = x - y) BY DEF Minus
    <3>4. \/ Minus(MaxBatch, Len(batch[w])) = 0
          \/ Len(batch[w]) <= MaxBatch /\ Minus(MaxBatch, Len(batch[w])) = MaxBatch - Len(batch[w])
      BY <3>3, <1>1, <1>2
    <3> QED BY <3>1, <3>2, <3>4, Zenon
  <2> QED BY <2>1, <2>2
<1>6. ASSUME NEW k \in 0..(Conns * app_event_budget(w)) PROVE Room(w, k)
  <2>1. CASE /\ outstanding < HighWater /\ Len(batch[w]) <= MaxBatch
             /\ app_event_budget(w) = MaxBatch - Len(batch[w])
    <3>1. Len(batch[w]) + Conns * app_event_budget(w) <= MaxBatch * Conns BY <2>1, <1>1, <1>2, BudgetsFit
    <3>2. MaxBatch * Conns \in Nat BY <1>1
    <3>3. Len(batch[w]) + k <= TimerBatch BY <3>1, <3>2, <1>2, <1>4 DEF TimerBatch
    <3> QED BY <2>1, <3>3 DEF Room
  <2>2. CASE app_event_budget(w) = 0
    <3>1. Conns * app_event_budget(w) = 0 BY <2>2, <1>1
    <3> QED BY <3>1 DEF Room
  <2> QED BY <2>1, <2>2, <1>5
<1>7. \A k \in 0..app_event_budget(w) : k \in 0..(Conns * app_event_budget(w)) BY <1>3, <1>4
<1> QED BY <1>1, <1>3, <1>4, <1>6, <1>7

\* What expire_timers may find is ready, and fits the batches of all connections.
LEMMA ExpireFacts ==
    ASSUME CoreInv, NEW w \in Workers, ready[w] \in Nat, NEW k \in expire_timers(w)
    PROVE  k \in Nat /\ k <= ready[w] /\ Room(w, k)
<1>1. Conns * app_event_budget(w) \in Nat BY BudgetRoom
<1>2. /\ Lesser(Conns * app_event_budget(w), ready[w]) \in Nat
      /\ Lesser(Conns * app_event_budget(w), ready[w]) <= Conns * app_event_budget(w)
      /\ Lesser(Conns * app_event_budget(w), ready[w]) <= ready[w]
  BY <1>1, LesserFacts
<1>3. k \in 0..Lesser(Conns * app_event_budget(w), ready[w]) BY DEF expire_timers
<1>4. k \in Nat /\ k <= ready[w] /\ k \in 0..(Conns * app_event_budget(w)) BY <1>1, <1>2, <1>3
<1> QED BY <1>4, BudgetRoom

\* What collect_app_events may find is ready, and fits the budget.
LEMMA CollectFacts ==
    ASSUME CoreInv, NEW w \in Workers, ready[w] \in Nat, NEW m \in Nat
    PROVE  /\ collect_app_events(w, m) \in Nat /\ collect_app_events(w, m) <= ready[w]
           /\ Room(w, collect_app_events(w, m))
           /\ collect_app_events(w, m) = ready[w] \/ collect_app_events(w, m) + m >= app_event_budget(w)
<1>1. app_event_budget(w) \in Nat BY BudgetRoom
<1>2. /\ Minus(app_event_budget(w), m) \in Nat /\ Minus(app_event_budget(w), m) <= app_event_budget(w)
      /\ Minus(app_event_budget(w), m) + m >= app_event_budget(w)
  BY <1>1 DEF Minus
<1>3. /\ collect_app_events(w, m) \in Nat /\ collect_app_events(w, m) <= ready[w]
      /\ collect_app_events(w, m) <= Minus(app_event_budget(w), m)
      /\ collect_app_events(w, m) = ready[w] \/ collect_app_events(w, m) = Minus(app_event_budget(w), m)
  BY <1>2, LesserFacts DEF collect_app_events
<1>4. collect_app_events(w, m) \in 0..app_event_budget(w) BY <1>1, <1>2, <1>3
<1>5. Room(w, collect_app_events(w, m)) BY <1>4, BudgetRoom
<1> QED BY <1>1, <1>2, <1>3, <1>5

\* The group poll_app_events appends, and what it leaves.
LEMMA PolledGroup ==
    ASSUME CoreInv, NEW w \in Workers, ready[w] \in Nat, PollAppEvents(w)
    PROVE  \E n \in 0..1 : \E m \in Nat :
             /\ m <= n /\ ControlGroup(w, n)
             /\ ready' = [ready EXCEPT ![w] = ready[w] - collect_app_events(w, m)]
             /\ append_atomic(w, Copies("app", collect_app_events(w, m)) \o Copies("ctl", n), "drains")
<1>1. PICK n \in (IF app_event_budget(w) = 0 THEN {0} ELSE 0..1) :
        \E m \in 0..Lesser(n, Conns - 1) :
             /\ ControlGroup(w, n)
             /\ ready' = [ready EXCEPT ![w] = ready[w] - collect_app_events(w, m)]
             /\ append_atomic(w, Copies("app", collect_app_events(w, m)) \o Copies("ctl", n), "drains")
  BY Zenon DEF PollAppEvents
<1>2. PICK m \in 0..Lesser(n, Conns - 1) :
             /\ ControlGroup(w, n)
             /\ ready' = [ready EXCEPT ![w] = ready[w] - collect_app_events(w, m)]
             /\ append_atomic(w, Copies("app", collect_app_events(w, m)) \o Copies("ctl", n), "drains")
  BY <1>1
<1>3. n \in 0..1 /\ n \in Nat BY <1>1
<1>4. Conns - 1 \in Nat BY BudgetRoom
<1>5. Lesser(n, Conns - 1) \in Nat /\ Lesser(n, Conns - 1) <= n BY <1>3, <1>4, LesserFacts
<1>6. m \in Nat /\ m <= n BY <1>2, <1>3, <1>5
<1> QED BY <1>2, <1>3, <1>6, Zenon

\* Every step of a worker that collects or flushes is a turn.
LEMMA CollectingTurns ==
    ASSUME Counting, CoreInv, RestType, NEW w \in Workers,
           \/ DispatchCommand(w) \/ ProcessPackets(w) \/ ProcessTimers(w) \/ PollAppEvents(w)
           \/ DrainsAndWrites(w) \/ CleanupClosed(w) \/ Deliver(w) \/ RuntimeError(w)
           \/ PushShutdownComplete(w)
    PROVE  Turns(w)
<1>1. /\ batch[w] \in Seq(Kinds) /\ ready[w] \in Nat /\ stale \in BOOLEAN
      /\ Fits(pc[w], after[w], taken[w], batch[w])
      /\ left[w].ctl \in Nat /\ Places(batch[w], {"shutdown"}) = {}
  <2>1. setup \in Setups BY DEF CoreInv, CoreType
  <2>2. setup.ctl \in Nat BY <2>1, SetupFacts
  <2>3. left[w] \in [app : 0..setup.app, ctl : 0..setup.ctl, cmd : 0..setup.sends] BY DEF RestType
  <2>4. left[w].ctl \in Nat BY <2>2, <2>3
  <2> QED BY <2>4 DEF CoreInv, CoreType, RestType, Fits
<1>2. {"commands", "timers", "app", "drains", "cleanup", "deliver"} \subseteq Labels \ ({"emit"} \cup Idle)
  BY DEF Labels, Idle
<1>3. {"top", "poll", "sentinel", "stopped", "cleanup"} \subseteq Labels \ {"emit"} BY DEF Labels
<1>4. \A n \in Nat : Group(Copies("ctl", n), 0) BY Groups
<1>5. Room(w, 0) BY DEF Room
<1>6. CASE DispatchCommand(w)
  <2>1. pc[w] = "commands" /\ UNCHANGED <<setup, queue, lost, healed>> BY <1>6 DEF DispatchCommand, script
  <2>2. CASE Head(cmds[w]) = "shutdown"
    <3>1. CASE batch[w] = <<>>
      <4>1. Goto(w, "sentinel") /\ UNCHANGED <<batch, taken, after, outstanding, stale>>
        BY <1>6, <2>2, <3>1 DEF DispatchCommand
      <4> QED BY <4>1, <2>1, <3>1, <1>1, <1>3, EmptyTurns, ZenonT(30)
    <3>2. CASE batch[w] # <<>>
      <4>1. Flush(w, batch[w], <<>>, "sentinel") BY <1>6, <2>2, <3>2 DEF DispatchCommand
      <4> QED BY <4>1, <2>1, <1>1, <1>3, FlushTurns, ZenonT(30)
    <3> QED BY <3>1, <3>2
  <2>3. CASE Head(cmds[w]) # "shutdown"
    <3>1. PICK n \in 0..1 : append_atomic(w, Copies("ctl", n), "commands") BY <1>6, <2>3 DEF DispatchCommand
    <3> QED BY <3>1, <2>1, <1>2, <1>4, <1>5, AppendTurns
  <2> QED BY <2>2, <2>3
<1>7. CASE ProcessPackets(w)
  <2>1. pc[w] = "commands" /\ UNCHANGED <<setup, queue, lost, healed>> BY <1>7, ZenonT(30) DEF ProcessPackets, script
  <2>2. PICK n \in (IF packets[w] THEN 0..Lesser(1, left[w].ctl) ELSE {0}) : append_atomic(w, Copies("ctl", n), "timers")
    BY <1>7 DEF ProcessPackets
  <2>3. n \in Nat
    <3>1. Lesser(1, left[w].ctl) \in Nat BY <1>1, LesserFacts, ZenonT(30)
    <3> QED BY <2>2, <3>1, SMTT(30)
  <2> QED BY <2>1, <2>2, <2>3, <1>2, <1>4, <1>5, AppendTurns
<1>8. CASE ProcessTimers(w)
  <2>1. pc[w] = "timers" /\ UNCHANGED <<setup, queue, lost, healed>> BY <1>8 DEF ProcessTimers, script
  <2>2. PICK k \in expire_timers(w), n \in 0..1 :
           append_atomic(w, Copies("app", k) \o Copies("ctl", n), "app")
    BY <1>8 DEF ProcessTimers
  <2>3. k \in Nat /\ n \in Nat /\ Room(w, k) BY <2>2, <1>1, ExpireFacts
  <2>4. Group(Copies("app", k) \o Copies("ctl", n), k) BY <2>3, Groups
  <2> QED BY <2>1, <2>2, <2>3, <2>4, <1>2, AppendTurns, ZenonT(30)
<1>9. CASE PollAppEvents(w)
  <2>1. pc[w] = "app" /\ UNCHANGED <<setup, queue, lost, healed>> BY <1>9 DEF PollAppEvents, script
  <2>2. PICK n \in 0..1 : \E m \in Nat :
           append_atomic(w, Copies("app", collect_app_events(w, m)) \o Copies("ctl", n), "drains")
    BY <1>1, <1>9, PolledGroup
  <2>3. PICK m \in Nat :
           append_atomic(w, Copies("app", collect_app_events(w, m)) \o Copies("ctl", n), "drains")
    BY <2>2
  <2> DEFINE k == collect_app_events(w, m)
  <2>4. k \in Nat /\ n \in Nat /\ Room(w, k)
    <3>1. ready[w] \in Nat BY <1>1
    <3>2. n \in Nat OBVIOUS
    <3> QED BY <3>1, <3>2, CollectFacts, Zenon
  <2>5. append_atomic(w, Copies("app", k) \o Copies("ctl", n), "drains") BY <2>3
  <2> HIDE DEF k
  <2>6. Group(Copies("app", k) \o Copies("ctl", n), k) BY <2>4, Groups
  <2> QED BY <2>1, <2>4, <2>5, <2>6, <1>2, AppendTurns, ZenonT(30)
<1>10. CASE DrainsAndWrites(w)
  <2>1. pc[w] = "drains" /\ UNCHANGED <<setup, queue, lost, healed>> BY <1>10 DEF DrainsAndWrites, script
  <2>2. PICK n \in 0..1 : append_atomic(w, Copies("ctl", n), "cleanup") BY <1>10 DEF DrainsAndWrites
  <2> QED BY <2>1, <2>2, <1>2, <1>4, <1>5, AppendTurns
<1>11. CASE CleanupClosed(w)
  <2>1. pc[w] = "cleanup" /\ UNCHANGED <<setup, queue, lost, healed>> BY <1>11, ZenonT(30) DEF CleanupClosed, script
  <2>2. CASE Len(batch[w]) >= MaxBatch
    <3>1. Flush(w, batch[w], <<>>, "cleanup") BY <1>11, <2>2, Zenon DEF CleanupClosed
    <3> QED BY <3>1, <2>1, <1>1, <1>3, FlushTurns, ZenonT(30)
  <2>3. CASE ~(Len(batch[w]) >= MaxBatch)
    <3>1. PICK n \in 0..1 : append_atomic(w, Copies("ctl", n), "deliver") BY <1>11, <2>3, ZenonT(30) DEF CleanupClosed
    <3> QED BY <3>1, <2>1, <1>2, <1>4, <1>5, AppendTurns
  <2> QED BY <2>2, <2>3
<1>12. CASE Deliver(w)
  <2>1. pc[w] = "deliver" /\ UNCHANGED <<setup, queue, lost, healed>> BY <1>12, Zenon DEF Deliver, script
  <2>2. PICK next \in {"top", "sentinel"} :
           IF batch[w] = <<>>
           THEN Goto(w, next) /\ UNCHANGED <<batch, taken, after, outstanding, stale>>
           ELSE Flush(w, batch[w], <<>>, next)
    BY <1>12 DEF Deliver
  <2>3. next \in Labels \ {"emit"} BY <1>3
  <2>4. CASE batch[w] = <<>> BY <2>1, <2>2, <2>3, <2>4, <1>1, EmptyTurns, ZenonT(30)
  <2>5. CASE batch[w] # <<>> BY <2>1, <2>2, <2>3, <2>5, <1>1, FlushTurns
  <2> QED BY <2>4, <2>5, ZenonT(30)
<1>13. CASE RuntimeError(w)
  <2> DEFINE e == Append(batch[w], "ctl")
  <2>1. /\ pc[w] \notin {"emit", "stopped"} /\ UNCHANGED <<setup, queue, lost, healed>>
        /\ Flush(w, e, <<>>, "sentinel")
    <3>1. pc[w] \in {"poll", "commands", "timers", "cleanup"} /\ Flush(w, e, <<>>, "sentinel")
      BY <1>13, Zenon DEF RuntimeError
    <3>2. UNCHANGED <<setup, queue, lost, healed>> BY <1>13, Zenon DEF RuntimeError, script
    <3> QED BY <3>1, <3>2
  <2>2. e \in Seq(Kinds) BY <1>1 DEF Kinds
  <2>3. Places(e, {"app"}) = Places(batch[w], {"app"}) /\ Places(e, {"shutdown"}) = {} BY <1>1 DEF Places
  <2>4. Count(e) = Count(batch[w]) BY <2>3 DEF Count
  <2> HIDE DEF e
  <2> QED BY <2>1, <2>2, <2>3, <2>4, <1>3, FlushTurns, ZenonT(30)
<1>14. CASE PushShutdownComplete(w)
  <2>1. /\ pc[w] = "sentinel" /\ UNCHANGED <<setup, queue, lost, healed>>
        /\ Flush(w, <<"shutdown">>, <<>>, "stopped")
    BY <1>14 DEF PushShutdownComplete, script
  <2>2. batch[w] = <<>> BY <2>1, <1>1 DEF Fits, Idle
  <2>3. Places(<<"shutdown">>, {"app"}) = {} BY DEF Places
  <2>4. Count(<<"shutdown">>) = Count(batch[w]) BY <2>2, <2>3, NoPlaces DEF Count
  <2>5. <<"shutdown">> \in Seq(Kinds) BY DEF Kinds
  <2> QED BY <2>1, <2>4, <2>5, <1>3, FlushTurns, Zenon
<1> QED BY <1>6, <1>7, <1>8, <1>9, <1>10, <1>11, <1>12, <1>13, <1>14

-----------------------------------------------------------------------------
(* What a step does to the counts. *)

Handed(k) == Cardinality(Spread([w \in Workers |-> Places(taken[w], k)]))
Waiting(k) == Cardinality(Spread([b \in Bindings |-> Queued(queue[b], k)]))

\* There are finitely many workers and bindings.
LEMMA FiniteIndex == ASSUME Counting PROVE IsFiniteSet(Workers) /\ IsFiniteSet(Bindings)
<1> DEFINE S == {u.bindings : u \in Setups}
<1>1. IsFiniteSet(S)
  <2> DEFINE f == [u \in Setups |-> u.bindings]
  <2>1. Onto(f, Setups, S) BY DEF Onto
  <2> HIDE DEF f, S
  <2> QED BY <2>1, DeliveryAssumption, ImageCount
<1>2. ASSUME NEW T \in S PROVE IsFiniteSet(T) /\ \A b \in T : IsFiniteSet(b)
  BY DeliveryAssumption DEF Setup
<1> HIDE DEF S
<1>3. IsFiniteSet(UNION S) BY <1>1, <1>2, UnionFinite
<1>4. Bindings = UNION S BY DEF Bindings, S
<1>5. \A b \in UNION S : IsFiniteSet(b) BY <1>2
<1>6. IsFiniteSet(UNION Bindings) BY <1>3, <1>4, <1>5, UnionFinite
<1>7. Workers = UNION Bindings BY DEF Workers
<1> QED BY <1>3, <1>4, <1>6, <1>7

\* A worker's taken events are replaced.
LEMMA TakenChange ==
    ASSUME Counting, CoreType, NEW w \in Workers, NEW t \in Seq(Kinds), taken' = [taken EXCEPT ![w] = t], NEW k
    PROVE  /\ Handed(k) \in Nat /\ Handed(k)' \in Nat
           /\ Cardinality(Places(taken[w], k)) \in Nat /\ Cardinality(Places(t, k)) \in Nat
           /\ Handed(k) >= Cardinality(Places(taken[w], k))
           /\ Handed(k)' = Handed(k) - Cardinality(Places(taken[w], k)) + Cardinality(Places(t, k))
<1> DEFINE F == [v \in Workers |-> Places(taken[v], k)]
           G == [v \in Workers |-> Places(taken'[v], k)]
<1>1. taken \in [Workers -> Seq(Kinds)] BY DEF CoreType
<1>2. taken' \in [Workers -> Seq(Kinds)] BY <1>1
<1>3. Family(F, Workers) BY <1>1, FiniteIndex, PlacesCount DEF Family
<1>4. Family(G, Workers) BY <1>2, FiniteIndex, PlacesCount DEF Family
<1>5. F[w] = Places(taken[w], k) /\ G[w] = Places(t, k) /\ \A v \in Workers : v # w => G[v] = F[v] BY <1>1
<1>6. Handed(k) = Cardinality(Spread(F)) /\ Handed(k)' = Cardinality(Spread(G)) BY DEF Handed
<1> HIDE DEF F, G
<1> QED BY <1>3, <1>4, <1>5, <1>6, SpreadChange

\* A worker's collected events are replaced.
LEMMA BatchChange ==
    ASSUME Counting, CoreType, NEW w \in Workers, NEW c \in Seq(Kinds), batch' = [batch EXCEPT ![w] = c], NEW k
    PROVE  /\ Collected(k) \in Nat /\ Collected(k)' \in Nat
           /\ Cardinality(Places(batch[w], k)) \in Nat /\ Cardinality(Places(c, k)) \in Nat
           /\ Collected(k) >= Cardinality(Places(batch[w], k))
           /\ Collected(k)' = Collected(k) - Cardinality(Places(batch[w], k)) + Cardinality(Places(c, k))
<1> DEFINE F == [v \in Workers |-> Places(batch[v], k)]
           G == [v \in Workers |-> Places(batch'[v], k)]
<1>1. batch \in [Workers -> Seq(Kinds)] BY DEF CoreType
<1>2. batch' \in [Workers -> Seq(Kinds)] BY <1>1
<1>3. Family(F, Workers) BY <1>1, FiniteIndex, PlacesCount DEF Family
<1>4. Family(G, Workers) BY <1>2, FiniteIndex, PlacesCount DEF Family
<1>5. F[w] = Places(batch[w], k) /\ G[w] = Places(c, k) /\ \A v \in Workers : v # w => G[v] = F[v] BY <1>1
<1>6. Collected(k) = Cardinality(Spread(F)) /\ Collected(k)' = Cardinality(Spread(G)) BY DEF Collected
<1> HIDE DEF F, G
<1> QED BY <1>3, <1>4, <1>5, <1>6, SpreadChange

\* The queue of a binding is replaced.
LEMMA QueueChange ==
    ASSUME Counting, CoreType, NEW b \in Bindings, NEW q \in Seq(Batches), queue' = [queue EXCEPT ![b] = q], NEW k
    PROVE  /\ Waiting(k) \in Nat /\ Waiting(k)' \in Nat
           /\ Cardinality(Queued(queue[b], k)) \in Nat /\ Cardinality(Queued(q, k)) \in Nat
           /\ Waiting(k) >= Cardinality(Queued(queue[b], k))
           /\ Waiting(k)' = Waiting(k) - Cardinality(Queued(queue[b], k)) + Cardinality(Queued(q, k))
<1> DEFINE F == [c \in Bindings |-> Queued(queue[c], k)]
           G == [c \in Bindings |-> Queued(queue'[c], k)]
<1>1. queue \in [Bindings -> Seq(Batches)] BY DEF CoreType
<1>2. queue' \in [Bindings -> Seq(Batches)] BY <1>1
<1>3. Family(F, Bindings) BY <1>1, FiniteIndex, QueueFamily DEF Family
<1>4. Family(G, Bindings) BY <1>2, FiniteIndex, QueueFamily DEF Family
<1>5. F[b] = Queued(queue[b], k) /\ G[b] = Queued(q, k) /\ \A c \in Bindings : c # b => G[c] = F[c] BY <1>1
<1>6. Waiting(k) = Cardinality(Spread(F)) /\ Waiting(k)' = Cardinality(Spread(G)) BY DEF Waiting
<1> HIDE DEF F, G
<1> QED BY <1>3, <1>4, <1>5, <1>6, SpreadChange

\* The counts are numbers, and app events are some of all events.
LEMMA CountsAreNumbers ==
    ASSUME Counting, CoreType, NEW k
    PROVE  /\ Handed(k) \in Nat /\ Waiting(k) \in Nat /\ Collected(k) \in Nat
           /\ Backlog(k) = Handed(k) + Waiting(k)
<1>1. Family([w \in Workers |-> Places(taken[w], k)], Workers)
  BY FiniteIndex, PlacesCount DEF Family, CoreType
<1>2. Family([w \in Workers |-> Places(batch[w], k)], Workers)
  BY FiniteIndex, PlacesCount DEF Family, CoreType
<1>3. Family([b \in Bindings |-> Queued(queue[b], k)], Bindings)
  BY FiniteIndex, QueueFamily DEF Family, CoreType
<1> QED BY <1>1, <1>2, <1>3, SpreadFinite, ZenonT(30) DEF Handed, Waiting, Collected, Backlog

\* There are no more app events than events.
LEMMA AppsAreEvents ==
    ASSUME Counting, CoreType
    PROVE  Handed({"app"}) <= Handed(Kinds) /\ Waiting({"app"}) <= Waiting(Kinds)
<1>1. \A e : Places(e, {"app"}) \subseteq Places(e, Kinds) BY DEF Places, Kinds
<1>2. Family([w \in Workers |-> Places(taken[w], Kinds)], Workers)
  BY FiniteIndex, PlacesCount DEF Family, CoreType
<1>3. Family([b \in Bindings |-> Queued(queue[b], Kinds)], Bindings)
  BY FiniteIndex, QueueFamily DEF Family, CoreType
<1>4. Spread([w \in Workers |-> Places(taken[w], {"app"})]) \subseteq Spread([w \in Workers |-> Places(taken[w], Kinds)])
  BY <1>1 DEF Spread
<1>5. \A q : Queued(q, {"app"}) \subseteq Queued(q, Kinds) BY <1>1 DEF Queued, Spread
<1>6. Spread([b \in Bindings |-> Queued(queue[b], {"app"})]) \subseteq Spread([b \in Bindings |-> Queued(queue[b], Kinds)])
  BY <1>5 DEF Spread
<1>7. IsFiniteSet(Spread([w \in Workers |-> Places(taken[w], Kinds)])) BY <1>2, SpreadFinite
<1>8. IsFiniteSet(Spread([b \in Bindings |-> Queued(queue[b], Kinds)])) BY <1>3, SpreadFinite
<1>9. Handed({"app"}) <= Handed(Kinds) BY <1>4, <1>7, SubsetCount DEF Handed
<1>10. Waiting({"app"}) <= Waiting(Kinds) BY <1>6, <1>8, SubsetCount DEF Waiting
<1> QED BY <1>9, <1>10

\* Collected app events fit into one batch for every worker of the process, also after
\* those of one worker are replaced by a whole batch of them.
LEMMA CollectedBounded ==
    ASSUME Counting, CoreInv, NEW w \in Present
    PROVE  /\ Cardinality(Present) \in Nat
           /\ Collected({"app"}) - Count(batch[w]) + TimerBatch <= TimerBatch * Cardinality(Present)
<1> DEFINE F == [v \in Workers |-> Places(batch[v], {"app"})]
           G == [F EXCEPT ![w] = 1..TimerBatch]
<1>1. setup \in Setups /\ batch \in [Workers -> Seq(Kinds)] BY DEF CoreInv, CoreType
<1>2. TimerBatch \in Nat /\ w \in Workers BY <1>1, SetupFacts, OwnerFacts
<1>3. IsFiniteSet(1..TimerBatch) /\ Cardinality(1..TimerBatch) = TimerBatch
  <2>1. IsFiniteSet(1..TimerBatch) /\ Cardinality(1..TimerBatch) = IF 1 > TimerBatch THEN 0 ELSE TimerBatch - 1 + 1
    BY <1>2, IntervalCount
  <2> QED BY <2>1, <1>2
<1>4. Family(F, Workers) BY <1>1, FiniteIndex, PlacesCount DEF Family
<1>5. Family(G, Workers) BY <1>2, <1>3, <1>4 DEF Family
<1>6. Present \subseteq Workers BY <1>1, OwnerFacts
<1>7. IsFiniteSet(Present) /\ Cardinality(Present) \in Nat BY <1>6, FiniteIndex, SubsetCount, CountIsNumber
<1>8. \A v \in Workers : G[v] \subseteq 1..TimerBatch /\ (v \notin Present => G[v] = {})
  <2>1. \A v \in Workers : Places(batch[v], {"app"}) \subseteq 1..TimerBatch
    <3>1. ASSUME NEW v \in Workers, NEW i \in Places(batch[v], {"app"}) PROVE i \in 1..TimerBatch
      <4>1. i <= TimerBatch BY <3>1 DEF CoreInv, Fits
      <4>2. i \in 1..Len(batch[v]) BY <1>1, <3>1 DEF Places
      <4> QED BY <4>1, <4>2, <1>2
    <3> QED BY <3>1
  <2>2. \A v \in Workers : v \notin Present => Places(batch[v], {"app"}) = {} BY NoPlaces DEF CoreInv
  <2> QED BY <2>1, <2>2
<1>9. Spread(G) \subseteq Present \X (1..TimerBatch)
  <2>1. ASSUME NEW p \in Spread(G) PROVE p \in Present \X (1..TimerBatch)
    <3> HIDE DEF G
    <3>1. PICK v \in Workers : p \in {v} \X G[v] BY <1>5, SpreadElement DEF Family
    <3> QED BY <3>1, <1>8
  <2> QED BY <2>1
<1>10. Cardinality(Spread(G)) <= Cardinality(Present) * TimerBatch
  <2> HIDE DEF G
  <2>1. /\ IsFiniteSet(Present \X (1..TimerBatch))
        /\ Cardinality(Present \X (1..TimerBatch)) = Cardinality(Present) * Cardinality(1..TimerBatch)
    BY <1>3, <1>7, ProductCount, ZenonT(30)
  <2> QED BY <2>1, <1>3, <1>9, SubsetCount
<1>11. F[w] = Places(batch[w], {"app"}) /\ G[w] = 1..TimerBatch /\ \A v \in Workers : v # w => G[v] = F[v]
  BY <1>2
<1>12. Collected({"app"}) = Cardinality(Spread(F)) BY DEF Collected
<1> HIDE DEF F, G
<1>13. /\ Cardinality(Spread(F)) \in Nat /\ Cardinality(F[w]) \in Nat
       /\ Cardinality(Spread(G)) = Cardinality(Spread(F)) - Cardinality(F[w]) + Cardinality(G[w])
  BY <1>2, <1>4, <1>5, <1>11, SpreadChange
<1>14. Cardinality(Spread(G)) = Collected({"app"}) - Count(batch[w]) + TimerBatch
  BY <1>3, <1>11, <1>12, <1>13 DEF Count
<1>15. Cardinality(Present) * TimerBatch = TimerBatch * Cardinality(Present) BY <1>2, <1>7
<1> QED BY <1>7, <1>10, <1>14, <1>15

-----------------------------------------------------------------------------
(* The gauge and the bound on app events. *)

\* The gauge, as the proofs use it.
Gauge == /\ outstanding <= Handed(Kinds) + Waiting(Kinds) + lost
         /\ ~healed => outstanding = Handed(Kinds) + Waiting(Kinds) + lost

Total == Handed({"app"}) + Waiting({"app"}) + Collected({"app"})

\* The bound on app events, as the proofs use it.
Bound == ~healed => Total <= HighWater - 1 + TimerBatch * Cardinality(Present)

\* With nothing but the gauge reset or the rest changed, both stay.
LEMMA QuietKeeps ==
    ASSUME Counting, CoreInv, Gauge, Bound, UNCHANGED <<setup, taken, batch, queue, lost>>,
           UNCHANGED <<outstanding, healed>> \/ (outstanding' = 0 /\ healed')
    PROVE  Gauge' /\ Bound'
<1>1. Handed(Kinds)' = Handed(Kinds) /\ Waiting(Kinds)' = Waiting(Kinds)
  BY DEF Handed, Waiting
<1>2. Total' = Total BY DEF Total, Handed, Waiting, Collected
<1>3. HighWater' = HighWater /\ TimerBatch' = TimerBatch /\ Present' = Present
  BY DEF HighWater, TimerBatch, MaxBatch, Conns, Present
<1>4. Handed(Kinds) \in Nat /\ Waiting(Kinds) \in Nat /\ lost \in Nat
  BY CountsAreNumbers DEF CoreInv, CoreType
<1> QED BY <1>1, <1>2, <1>3, <1>4 DEF Gauge, Bound

\* A turn counts what it takes; the app events it adds find room.
LEMMA TurnKeeps ==
    ASSUME Counting, CoreInv, Gauge, Bound, NEW w \in Workers, Turns(w)
    PROVE  Gauge' /\ Bound'
<1>1. PICK k \in Nat, p \in Labels, a \in Labels, t \in Seq(Kinds), c \in Seq(Kinds) : Turn(w, k, p, a, t, c)
  BY DEF Turns
<1>2. /\ taken' = [taken EXCEPT ![w] = t] /\ batch' = [batch EXCEPT ![w] = c]
      /\ outstanding' = outstanding + Len(t) /\ UNCHANGED <<setup, queue, lost, healed>>
      /\ Count(t) + Count(c) = Count(batch[w]) + k /\ Room(w, k)
      /\ pc[w] \notin {"emit", "stopped"}
  BY <1>1 DEF Turn
<1>3. CoreType /\ outstanding \in Nat /\ lost \in Nat /\ setup \in Setups /\ batch[w] \in Seq(Kinds)
  BY DEF CoreInv, CoreType
<1>4. taken[w] = <<>> BY <1>2 DEF CoreInv, Fits
<1>5. \A kinds : Cardinality(Places(taken[w], kinds)) = 0 BY <1>4, NoPlaces, EmptyCount, ZenonT(30)
<1>6. /\ Handed(Kinds) \in Nat /\ Waiting(Kinds) \in Nat /\ Waiting({"app"}) \in Nat /\ Handed({"app"}) \in Nat
      /\ Handed({"app"}) <= Handed(Kinds) /\ Waiting({"app"}) <= Waiting(Kinds)
  BY <1>3, CountsAreNumbers, AppsAreEvents
<1>7. Waiting(Kinds)' = Waiting(Kinds) /\ Waiting({"app"})' = Waiting({"app"}) BY <1>2 DEF Waiting
<1>8. Handed(Kinds)' = Handed(Kinds) + Len(t)
  <2>1. Handed(Kinds)' = Handed(Kinds) - Cardinality(Places(taken[w], Kinds)) + Cardinality(Places(t, Kinds))
    BY <1>2, <1>3, TakenChange, ZenonT(30)
  <2>2. Cardinality(Places(t, Kinds)) = Len(t) BY PlacesCount
  <2>3. Len(t) \in Nat OBVIOUS
  <2> QED BY <2>1, <2>2, <2>3, <1>5, <1>6
<1>9. Handed({"app"})' = Handed({"app"}) + Count(t) /\ Count(t) \in Nat
  <2>1. /\ Handed({"app"})' = Handed({"app"}) - Cardinality(Places(taken[w], {"app"})) + Cardinality(Places(t, {"app"}))
        /\ Cardinality(Places(t, {"app"})) \in Nat
    BY <1>2, <1>3, TakenChange, ZenonT(30)
  <2> QED BY <2>1, <1>5, <1>6 DEF Count
<1>10. /\ Collected({"app"})' = Collected({"app"}) - Count(batch[w]) + Count(c)
       /\ Collected({"app"}) \in Nat /\ Count(batch[w]) \in Nat /\ Count(c) \in Nat
  BY <1>2, <1>3, BatchChange, ZenonT(30) DEF Count
<1>11. Total' = Total + k
  <2> DEFINE h == Handed({"app"})
             q == Waiting({"app"})
             l == Collected({"app"})
             x == Count(t)
             y == Count(c)
             z == Count(batch[w])
  <2>1. Total' = (h + x) + q + (l - z + y) BY <1>7, <1>9, <1>10 DEF Total
  <2>2. Total = h + q + l BY DEF Total
  <2>3. x + y = z + k /\ k \in Nat BY <1>1, <1>2
  <2>4. h \in Nat /\ q \in Nat /\ l \in Nat /\ x \in Nat /\ y \in Nat /\ z \in Nat BY <1>6, <1>9, <1>10
  <2> HIDE DEF h, q, l, x, y, z
  <2> QED BY <2>1, <2>2, <2>3, <2>4
<1>12. Len(t) \in Nat OBVIOUS
<1>13. Gauge' BY <1>2, <1>3, <1>6, <1>7, <1>8, <1>12, SMTT(30) DEF Gauge
<1>14. HighWater' = HighWater /\ TimerBatch' = TimerBatch /\ Present' = Present
  BY <1>2, ZenonT(30) DEF HighWater, TimerBatch, MaxBatch, Conns, Present
<1>15. Total \in Nat BY <1>6, <1>10, SMTT(30) DEF Total
<1>16. CASE k = 0
  <2>1. Total' = Total /\ healed' = healed BY <1>2, <1>11, <1>15, <1>16
  <2> QED BY <2>1, <1>13, <1>14 DEF Bound
<1>17. CASE k # 0
  <2>1. outstanding < HighWater /\ Len(batch[w]) + k <= TimerBatch BY <1>2, <1>17 DEF Room
  <2>2. w \in Present BY <1>2 DEF CoreInv
  <2>3. /\ Cardinality(Present) \in Nat
        /\ Collected({"app"}) - Count(batch[w]) + TimerBatch <= TimerBatch * Cardinality(Present)
    BY <2>2, CollectedBounded
  <2>4. Count(batch[w]) <= Len(batch[w]) /\ Len(batch[w]) \in Nat BY <1>3, PlacesCount DEF Count
  <2>5. TimerBatch \in Nat /\ HighWater \in Nat BY <1>3, SetupFacts
  <2>6. TimerBatch * Cardinality(Present) \in Nat BY <2>3, <2>5
  <2> DEFINE limit == TimerBatch * Cardinality(Present)
  <2> HIDE DEF limit
  <2>7. Collected({"app"}) + k <= limit
    <3>1. Collected({"app"}) - Count(batch[w]) + TimerBatch <= limit /\ limit \in Nat BY <2>3, <2>6 DEF limit
    <3> QED BY <3>1, <2>1, <2>4, <2>5, <1>10, SMTT(30)
  <2>8. ~healed => Handed({"app"}) + Waiting({"app"}) <= HighWater - 1
    BY <2>1, <2>5, <1>3, <1>6, SMTT(30) DEF Gauge
  <2>9. ~healed => Total' <= HighWater - 1 + limit
    <3> DEFINE h == Handed({"app"}) + Waiting({"app"})
               l == Collected({"app"})
    <3>1. limit \in Nat /\ HighWater \in Nat /\ k \in Nat BY <2>5, <2>6 DEF limit
    <3>2. Total' = h + l + k BY <1>11 DEF Total
    <3>3. h \in Nat /\ l \in Nat /\ l + k <= limit BY <2>7, <1>6, <1>10, SMTT(30)
    <3>4. ~healed => h <= HighWater - 1 BY <2>8
    <3> HIDE DEF h, l
    <3> QED BY <3>1, <3>2, <3>3, <3>4
  <2> QED BY <2>9, <1>2, <1>13, <1>14 DEF Bound, limit
<1> QED BY <1>13, <1>16, <1>17

\* A batch that is handed over moves from the worker to the queue.
LEMMA HandedKeeps ==
    ASSUME Counting, CoreInv, Gauge, Bound, NEW w \in Workers, NEW b \in Bindings,
           taken' = [taken EXCEPT ![w] = <<>>],
           queue' = [queue EXCEPT ![b] = Append(queue[b], [from |-> w, events |-> taken[w]])],
           UNCHANGED <<setup, batch, lost, outstanding, healed>>
    PROVE  Gauge' /\ Bound'
<1> DEFINE m == [from |-> w, events |-> taken[w]]
<1>1. CoreType /\ queue[b] \in Seq(Batches) /\ m \in Batches /\ m.events = taken[w] /\ <<>> \in Seq(Kinds)
  <2>1. CoreType /\ queue[b] \in Seq(Batches) /\ taken[w] \in Seq(Kinds) BY DEF CoreInv, CoreType
  <2>2. m \in Batches /\ m.events = taken[w] BY <2>1 DEF Batches
  <2> QED BY <2>1, <2>2
<1> HIDE DEF m
<1>2. Append(queue[b], m) \in Seq(Batches) BY <1>1
<1>3. ASSUME NEW k
      PROVE  Handed(k)' + Waiting(k)' = Handed(k) + Waiting(k)
  <2>1. /\ Handed(k) \in Nat /\ Cardinality(Places(taken[w], k)) \in Nat
        /\ Handed(k)' = Handed(k) - Cardinality(Places(taken[w], k)) + Cardinality(Places(<<>>, k))
    BY <1>1, TakenChange, Zenon
  <2>2. Cardinality(Places(<<>>, k)) = 0 BY NoPlaces, EmptyCount, Zenon
  <2>3. /\ Waiting(k) \in Nat /\ Cardinality(Queued(queue[b], k)) \in Nat
        /\ Waiting(k)' = Waiting(k) - Cardinality(Queued(queue[b], k)) + Cardinality(Queued(Append(queue[b], m), k))
    BY <1>1, <1>2, QueueChange, ZenonT(30) DEF m
  <2>4. Cardinality(Queued(Append(queue[b], m), k)) = Cardinality(Queued(queue[b], k)) + Cardinality(Places(taken[w], k))
    BY <1>1, QueuedAppend, Zenon
  <2> QED BY <2>1, <2>2, <2>3, <2>4
<1>4. Collected({"app"})' = Collected({"app"}) BY DEF Collected
<1>5. HighWater' = HighWater /\ TimerBatch' = TimerBatch /\ Present' = Present
  BY DEF HighWater, TimerBatch, MaxBatch, Conns, Present
<1>6. Gauge' BY <1>3 DEF Gauge
<1>7. Total' = Total BY <1>3, <1>4 DEF Total
<1> QED BY <1>5, <1>6, <1>7 DEF Bound

\* A batch that is dropped or acknowledged leaves the count and the gauge.
LEMMA ReleaseKeeps ==
    ASSUME Counting, CoreInv, Gauge, Bound, NEW n \in Nat, outstanding' = Minus(outstanding, n),
           Handed(Kinds)' \in Nat, Waiting(Kinds)' \in Nat,
           Handed(Kinds)' + Waiting(Kinds)' + n = Handed(Kinds) + Waiting(Kinds),
           Handed({"app"})' + Waiting({"app"})' <= Handed({"app"}) + Waiting({"app"}),
           Handed({"app"})' \in Nat, Waiting({"app"})' \in Nat,
           UNCHANGED <<setup, batch, lost, healed>>
    PROVE  Gauge' /\ Bound'
<1>1. /\ outstanding \in Nat /\ lost \in Nat /\ setup \in Setups
      /\ Handed(Kinds) \in Nat /\ Waiting(Kinds) \in Nat
      /\ Handed({"app"}) \in Nat /\ Waiting({"app"}) \in Nat /\ Collected({"app"}) \in Nat
  BY CountsAreNumbers DEF CoreInv, CoreType
<1>2. Gauge' BY <1>1 DEF Gauge, Minus
<1>3. Collected({"app"})' = Collected({"app"}) BY DEF Collected
<1>4. Total' <= Total /\ Total \in Nat /\ Total' \in Nat BY <1>1, <1>3 DEF Total
<1>5. HighWater' = HighWater /\ TimerBatch' = TimerBatch /\ Present' = Present
  BY DEF HighWater, TimerBatch, MaxBatch, Conns, Present
<1>6. HighWater \in Nat BY <1>1, SetupFacts
<1>7. IsFiniteSet(Present) /\ Cardinality(Present) \in Nat
  <2>1. Present \subseteq Workers BY <1>1, OwnerFacts
  <2> QED BY <2>1, FiniteIndex, SubsetCount, CountIsNumber
<1>8. TimerBatch \in Nat BY <1>1, SetupFacts
<1>9. TimerBatch * Cardinality(Present) \in Nat BY <1>7, <1>8
<1> DEFINE limit == TimerBatch * Cardinality(Present)
<1> HIDE DEF limit
<1>10. limit \in Nat BY <1>9 DEF limit
<1>11. (~healed => Total <= HighWater - 1 + limit) BY DEF Bound, limit
<1>12. (~healed => Total' <= HighWater - 1 + limit) BY <1>4, <1>6, <1>10, <1>11
<1> QED BY <1>2, <1>5, <1>12 DEF Bound, limit

\* A batch that is dropped.
LEMMA DroppedKeeps ==
    ASSUME Counting, CoreInv, Gauge, Bound, NEW w \in Workers,
           taken' = [taken EXCEPT ![w] = <<>>], outstanding' = Minus(outstanding, Len(taken[w])),
           UNCHANGED <<setup, batch, queue, lost, healed>>
    PROVE  Gauge' /\ Bound'
<1>1. CoreType /\ taken[w] \in Seq(Kinds) /\ <<>> \in Seq(Kinds) BY DEF CoreInv, CoreType
<1>2. Len(taken[w]) \in Nat BY <1>1
<1>3. ASSUME NEW k
      PROVE  /\ Handed(k)' \in Nat /\ Waiting(k)' \in Nat /\ Cardinality(Places(taken[w], k)) \in Nat
             /\ Handed(k) \in Nat /\ Waiting(k) \in Nat
             /\ Handed(k)' + Waiting(k)' + Cardinality(Places(taken[w], k)) = Handed(k) + Waiting(k)
  <2>1. /\ Handed(k) \in Nat /\ Handed(k)' \in Nat /\ Cardinality(Places(taken[w], k)) \in Nat
        /\ Handed(k)' = Handed(k) - Cardinality(Places(taken[w], k)) + Cardinality(Places(<<>>, k))
    BY <1>1, TakenChange, Zenon
  <2>2. Cardinality(Places(<<>>, k)) = 0 BY NoPlaces, EmptyCount, Zenon
  <2>3. Waiting(k)' = Waiting(k) /\ Waiting(k) \in Nat BY <1>1, CountsAreNumbers DEF Waiting
  <2> QED BY <2>1, <2>2, <2>3
<1>4. Cardinality(Places(taken[w], Kinds)) = Len(taken[w]) BY <1>1, PlacesCount
<1>5. Handed({"app"})' + Waiting({"app"})' <= Handed({"app"}) + Waiting({"app"}) BY <1>3
<1> QED BY <1>2, <1>3, <1>4, <1>5, ReleaseKeeps, Zenon

\* A batch that is acknowledged.
LEMMA AckedKeeps ==
    ASSUME Counting, CoreInv, Gauge, Bound, NEW b \in Bindings, queue[b] # <<>>,
           queue' = [queue EXCEPT ![b] = Tail(queue[b])],
           outstanding' = Minus(outstanding, Len(Head(queue[b]).events)),
           UNCHANGED <<setup, batch, taken, lost, healed>>
    PROVE  Gauge' /\ Bound'
<1>1. CoreType /\ queue[b] \in Seq(Batches) BY DEF CoreInv, CoreType
<1>2. Tail(queue[b]) \in Seq(Batches) /\ Head(queue[b]) \in Batches BY <1>1
<1>3. Head(queue[b]).events \in Seq(Kinds) BY <1>2 DEF Batches
<1> DEFINE e == Head(queue[b]).events
<1> HIDE DEF e
<1>4. e \in Seq(Kinds) /\ Len(e) \in Nat BY <1>3 DEF e
<1>5. ASSUME NEW k
      PROVE  /\ Handed(k)' \in Nat /\ Waiting(k)' \in Nat /\ Cardinality(Places(e, k)) \in Nat
             /\ Handed(k) \in Nat /\ Waiting(k) \in Nat
             /\ Handed(k)' + Waiting(k)' + Cardinality(Places(e, k)) = Handed(k) + Waiting(k)
  <2>1. /\ Waiting(k) \in Nat /\ Waiting(k)' \in Nat
        /\ Cardinality(Queued(queue[b], k)) \in Nat /\ Cardinality(Queued(Tail(queue[b]), k)) \in Nat
        /\ Waiting(k)' = Waiting(k) - Cardinality(Queued(queue[b], k)) + Cardinality(Queued(Tail(queue[b]), k))
    BY <1>1, <1>2, QueueChange, Zenon
  <2>2. Cardinality(Queued(queue[b], k)) = Cardinality(Queued(Tail(queue[b]), k)) + Cardinality(Places(e, k))
    BY <1>1, QueuedTail DEF e
  <2>3. Handed(k)' = Handed(k) /\ Handed(k) \in Nat BY <1>1, CountsAreNumbers, Zenon DEF Handed
  <2>4. Cardinality(Places(e, k)) \in Nat BY <1>4, PlacesCount
  <2> QED BY <2>1, <2>2, <2>3, <2>4, SMTT(30)
<1>6. Cardinality(Places(e, Kinds)) = Len(e) BY <1>4, PlacesCount
<1>7. Handed({"app"})' + Waiting({"app"})' <= Handed({"app"}) + Waiting({"app"}) BY <1>5
<1>8. outstanding' = Minus(outstanding, Len(e)) BY DEF e
<1> QED BY <1>4, <1>5, <1>6, <1>7, <1>8, ReleaseKeeps

\* The queue of an environment that ends is lost, and stays counted.
LEMMA TornKeeps ==
    ASSUME Counting, CoreInv, Gauge, Bound, NEW b \in Bindings, queue' = [queue EXCEPT ![b] = <<>>],
           lost' = lost + Cardinality(Queued(queue[b], Kinds)),
           UNCHANGED <<setup, batch, taken, outstanding, healed>>
    PROVE  Gauge' /\ Bound'
<1>1. CoreType /\ <<>> \in Seq(Batches) /\ lost \in Nat /\ outstanding \in Nat /\ setup \in Setups
  BY DEF CoreInv, CoreType
<1>2. ASSUME NEW k
      PROVE  /\ Waiting(k) \in Nat /\ Waiting(k)' \in Nat /\ Cardinality(Queued(queue[b], k)) \in Nat
             /\ Waiting(k) = Waiting(k)' + Cardinality(Queued(queue[b], k))
             /\ Handed(k)' = Handed(k) /\ Handed(k) \in Nat
  <2>1. /\ Waiting(k) \in Nat /\ Waiting(k)' \in Nat /\ Cardinality(Queued(queue[b], k)) \in Nat
        /\ Waiting(k)' = Waiting(k) - Cardinality(Queued(queue[b], k)) + Cardinality(Queued(<<>>, k))
    BY <1>1, QueueChange, Zenon
  <2>2. Cardinality(Queued(<<>>, k)) = 0 BY NothingQueued, EmptyCount, Zenon
  <2>3. Handed(k)' = Handed(k) /\ Handed(k) \in Nat BY <1>1, CountsAreNumbers, Zenon DEF Handed
  <2> QED BY <2>1, <2>2, <2>3
<1>3. Gauge' BY <1>1, <1>2, SMTT(30) DEF Gauge
<1>4. Collected({"app"})' = Collected({"app"}) /\ Collected({"app"}) \in Nat BY <1>1, CountsAreNumbers, Zenon DEF Collected
<1>5. Total' <= Total /\ Total \in Nat /\ Total' \in Nat BY <1>2, <1>4, SMTT(30) DEF Total
<1>6. HighWater' = HighWater /\ TimerBatch' = TimerBatch /\ Present' = Present
  BY DEF HighWater, TimerBatch, MaxBatch, Conns, Present
<1>7. HighWater \in Nat /\ TimerBatch \in Nat BY <1>1, SetupFacts
<1>8. IsFiniteSet(Present) /\ Cardinality(Present) \in Nat
  <2>1. Present \subseteq Workers BY <1>1, OwnerFacts
  <2> QED BY <2>1, FiniteIndex, SubsetCount, CountIsNumber
<1> DEFINE limit == TimerBatch * Cardinality(Present)
<1>9. limit \in Nat BY <1>7, <1>8
<1> HIDE DEF limit
<1>10. (~healed => Total <= HighWater - 1 + limit) BY DEF Bound, limit
<1>11. (~healed => Total' <= HighWater - 1 + limit) BY <1>5, <1>7, <1>9, <1>10
<1> QED BY <1>3, <1>6, <1>11 DEF Bound, limit

-----------------------------------------------------------------------------
(* Every step keeps the types, the gauge and the bound. *)

\* Names that depend only on the setup do not change with the rest.
LEMMA SameSetup ==
    ASSUME UNCHANGED setup
    PROVE  Present' = Present /\ MaxBatch' = MaxBatch /\ TimerBatch' = TimerBatch
           /\ HighWater' = HighWater /\ Faults' = Faults
           /\ \A w : Owner(w)' = Owner(w)
BY DEF Present, MaxBatch, Conns, TimerBatch, HighWater, Faults, Owner

\* One worker moves to another place and fits there.
LEMMA WorkerMoves ==
    ASSUME CoreInv, NEW w \in Present, UNCHANGED <<setup, healed, lost>>,
           NEW p \in Labels, NEW a \in Labels, NEW t \in Seq(Kinds), NEW c \in Seq(Kinds),
           pc' = [pc EXCEPT ![w] = p], after' = [after EXCEPT ![w] = a],
           taken' = [taken EXCEPT ![w] = t], batch' = [batch EXCEPT ![w] = c], Fits(p, a, t, c),
           outstanding' \in Nat, stale' \in BOOLEAN, queue' \in [Bindings -> Seq(Batches)]
    PROVE  CoreInv'
<1>1. w \in Workers BY OwnerFacts, ZenonT(30) DEF CoreInv, CoreType
<1>2. CoreType' BY <1>1 DEF CoreInv, CoreType
<1>3. Present' = Present /\ TimerBatch' = TimerBatch BY SameSetup
<1>4. ASSUME NEW v \in Workers
      PROVE  /\ Fits(pc[v], after[v], taken[v], batch[v])'
             /\ v \notin Present' => pc'[v] = "stopped" /\ batch'[v] = <<>>
  <2>1. CASE v = w
    <3>1. pc'[v] = p /\ after'[v] = a /\ taken'[v] = t /\ batch'[v] = c BY <1>1, <2>1 DEF CoreInv, CoreType
    <3> QED BY <2>1, <3>1, <1>3, ZenonT(30) DEF Fits
  <2>2. CASE v # w
    <3>1. pc'[v] = pc[v] /\ after'[v] = after[v] /\ taken'[v] = taken[v] /\ batch'[v] = batch[v]
      BY <2>2 DEF CoreInv, CoreType
    <3> QED BY <3>1, <1>3, ZenonT(30) DEF CoreInv, Fits
  <2> QED BY <2>1, <2>2
<1> QED BY <1>2, <1>4 DEF CoreInv

\* The workers stay where they are.
LEMMA WorkersStay ==
    ASSUME CoreInv, UNCHANGED <<setup, pc, after, taken, batch>>,
           outstanding' \in Nat, stale' \in BOOLEAN, healed' \in BOOLEAN, lost' \in Nat,
           queue' \in [Bindings -> Seq(Batches)]
    PROVE  CoreInv'
<1>1. CoreType' BY DEF CoreInv, CoreType
<1>2. Present' = Present /\ TimerBatch' = TimerBatch BY SameSetup
<1> QED BY <1>1, <1>2, ZenonT(30) DEF CoreInv, Fits

\* A worker that acts belongs to the process.
LEMMA ActiveIsPresent ==
    ASSUME CoreInv, NEW w \in Workers, pc[w] # "stopped" PROVE w \in Present
BY DEF CoreInv

\* A turn keeps the invariant of the workers.
LEMMA TurnCore == ASSUME CoreInv, NEW w \in Workers, Turns(w) PROVE CoreInv'
<1>1. PICK k \in Nat, p \in Labels, a \in Labels, t \in Seq(Kinds), c \in Seq(Kinds) : Turn(w, k, p, a, t, c)
  BY DEF Turns
<1>2. w \in Present BY <1>1, ActiveIsPresent DEF Turn
<1>3. outstanding' \in Nat /\ queue' \in [Bindings -> Seq(Batches)] BY <1>1 DEF Turn, CoreInv, CoreType
<1> QED BY <1>1, <1>2, <1>3, WorkerMoves, Zenon DEF Turn

Part == CoreInv /\ Gauge /\ Bound

\* Handing a batch over (TsfnEventSink::emit) keeps it.
LEMMA EmitPart == ASSUME Counting, Part, NEW w \in Workers, Emit(w) PROVE Part'
<1>1. CoreInv /\ Gauge /\ Bound /\ pc[w] = "emit" BY DEF Part, Emit
<1>2. w \in Present /\ Owner(w) \in Bindings BY <1>1, ActiveIsPresent, OwnerFacts, ZenonT(30) DEF CoreInv, CoreType
<1>3. /\ taken \in [Workers -> Seq(Kinds)] /\ batch \in [Workers -> Seq(Kinds)] /\ pc \in [Workers -> Labels]
      /\ after \in [Workers -> Labels] /\ outstanding \in Nat /\ stale \in BOOLEAN
      /\ queue \in [Bindings -> Seq(Batches)] /\ Fits(pc[w], after[w], taken[w], batch[w])
  BY <1>1 DEF CoreInv, CoreType
<1>4. /\ taken' = [taken EXCEPT ![w] = <<>>] /\ UNCHANGED <<setup, batch, after, lost, healed>>
  BY ZenonT(30) DEF Emit
<1>5. batch' = [batch EXCEPT ![w] = batch[w]] /\ after' = [after EXCEPT ![w] = after[w]] BY <1>3, <1>4
<1>6. <<>> \in Seq(Kinds) /\ batch[w] \in Seq(Kinds) /\ after[w] \in Labels /\ taken[w] \in Seq(Kinds) BY <1>3
<1>7. ASSUME NEW p \in Labels, p = after[w] \/ p = "stopped" \/ (p = "sentinel" /\ after[w] \in {"top", "sentinel"})
      PROVE  Fits(p, after[w], <<>>, batch[w])
  BY <1>1, <1>3, <1>7, NoPlaces DEF Fits, Idle
<1>8. CASE js[Owner(w)] # "dead"
  <2> DEFINE m == [from |-> w, events |-> taken[w]]
  <2>1. /\ queue' = [queue EXCEPT ![Owner(w)] = Append(queue[Owner(w)], m)]
        /\ pc' = [pc EXCEPT ![w] = after[w]] /\ UNCHANGED <<outstanding, stale>>
    BY <1>2, <1>3, <1>8 DEF Emit, Goto
  <2>2. m \in Batches BY <1>6 DEF Batches
  <2>3. queue' \in [Bindings -> Seq(Batches)] BY <1>2, <1>3, <2>1, <2>2
  <2>4. CoreInv'
    <3>1. Fits(after[w], after[w], <<>>, batch[w]) BY <1>6, <1>7
    <3>2. outstanding' \in Nat /\ stale' \in BOOLEAN BY <1>3, <2>1
    <3> QED BY <1>1, <1>2, <1>4, <1>5, <1>6, <2>1, <2>3, <3>1, <3>2, WorkerMoves, ZenonT(30)
  <2>5. Gauge' /\ Bound' BY <1>1, <1>2, <1>4, <2>1, HandedKeeps, ZenonT(30)
  <2> QED BY <2>4, <2>5 DEF Part
<1>9. CASE js[Owner(w)] = "dead"
  <2> DEFINE p == IF after[w] \in {"top", "sentinel"} THEN "sentinel" ELSE "stopped"
  <2>1. /\ outstanding' = Minus(outstanding, Len(taken[w])) /\ stale' = FALSE
        /\ pc' = [pc EXCEPT ![w] = p] /\ UNCHANGED queue
    BY <1>9 DEF Emit, Goto, release_event_batch_outstanding
  <2>2. p \in Labels /\ (p = "stopped" \/ (p = "sentinel" /\ after[w] \in {"top", "sentinel"})) BY DEF Labels
  <2>3. outstanding' \in Nat
    <3>1. Len(taken[w]) \in Nat BY <1>6
    <3> QED BY <3>1, <2>1, <1>3 DEF Minus
  <2> HIDE DEF p
  <2>4. CoreInv'
    <3>1. Fits(p, after[w], <<>>, batch[w]) BY <1>7, <2>2, Zenon
    <3> QED BY <1>1, <1>2, <1>3, <1>4, <1>5, <1>6, <2>1, <2>2, <2>3, <3>1, WorkerMoves, ZenonT(30)
  <2>5. Gauge' /\ Bound' BY <1>1, <1>4, <2>1, DroppedKeeps, ZenonT(30)
  <2> QED BY <2>4, <2>5 DEF Part
<1> QED BY <1>8, <1>9

\* Dropping a batch keeps it.
LEMMA EmitFailsPart == ASSUME Counting, Part, NEW w \in Workers, EmitFails(w) PROVE Part'
<1>1. CoreInv /\ Gauge /\ Bound /\ pc[w] = "emit" BY DEF Part, EmitFails
<1>2. w \in Present BY <1>1, ActiveIsPresent
<1>3. /\ taken \in [Workers -> Seq(Kinds)] /\ batch \in [Workers -> Seq(Kinds)] /\ pc \in [Workers -> Labels]
      /\ after \in [Workers -> Labels] /\ outstanding \in Nat
      /\ queue \in [Bindings -> Seq(Batches)] /\ Fits(pc[w], after[w], taken[w], batch[w])
  BY <1>1 DEF CoreInv, CoreType
<1>4. /\ taken' = [taken EXCEPT ![w] = <<>>] /\ UNCHANGED <<setup, batch, after, lost, healed, queue>>
      /\ pc' = [pc EXCEPT ![w] = after[w]]
      /\ outstanding' = Minus(outstanding, Len(taken[w])) /\ stale' = FALSE
  BY Zenon DEF EmitFails, Goto, release_event_batch_outstanding, script
<1>5. batch' = [batch EXCEPT ![w] = batch[w]] /\ after' = [after EXCEPT ![w] = after[w]] BY <1>3, <1>4
<1>6. <<>> \in Seq(Kinds) /\ batch[w] \in Seq(Kinds) /\ after[w] \in Labels /\ Len(taken[w]) \in Nat BY <1>3
<1>7. Fits(after[w], after[w], <<>>, batch[w]) BY <1>1, <1>3, NoPlaces DEF Fits, Idle
<1>8. outstanding' \in Nat BY <1>3, <1>4, <1>6 DEF Minus
<1>9. CoreInv' BY <1>1, <1>2, <1>3, <1>4, <1>5, <1>6, <1>7, <1>8, WorkerMoves, Zenon
<1>10. Gauge' /\ Bound' BY <1>1, <1>4, DroppedKeeps, ZenonT(30)
<1> QED BY <1>9, <1>10 DEF Part

\* Going round keeps it: the watchdog only lowers the gauge, and says so.
LEMMA RoundPart == ASSUME Counting, Part, NEW w \in Workers, EnterPoll(w) \/ PollReturns(w) PROVE Part'
<1>1. CoreInv /\ Gauge /\ Bound BY DEF Part
<1>2. pc[w] \in {"top", "poll"} /\ UNCHANGED <<setup, taken, batch, after, queue, lost>>
  BY DEF EnterPoll, PollReturns, script
<1>3. PICK p \in {"poll", "commands"} : pc' = [pc EXCEPT ![w] = p] BY DEF EnterPoll, PollReturns, Goto
<1>4. /\ UNCHANGED <<outstanding, healed>> \/ (outstanding' = 0 /\ healed')
      /\ outstanding' \in Nat /\ stale' \in BOOLEAN /\ healed' \in BOOLEAN
  <2>1. outstanding \in Nat /\ stale \in BOOLEAN /\ healed \in BOOLEAN BY <1>1 DEF CoreInv, CoreType
  <2>2. CASE UNCHANGED gauge BY <2>1, <2>2 DEF gauge
  <2>3. CASE outstanding' = 0 /\ stale' = FALSE /\ healed' = TRUE BY <2>3, ZenonT(30)
  <2> QED BY <2>2, <2>3, Zenon DEF EnterPoll, PollReturns, SelfHeal
<1>5. Gauge' /\ Bound' BY <1>1, <1>2, <1>4, QuietKeeps
<1>6. w \in Present BY <1>1, <1>2, ActiveIsPresent
<1>7. /\ batch[w] = <<>> /\ taken[w] = <<>> /\ Fits(pc[w], after[w], taken[w], batch[w])
  BY <1>1, <1>2, Zenon DEF CoreInv, Fits, Idle
<1>8. Fits(p, after[w], taken[w], batch[w]) BY <1>3, <1>7, ZenonT(30) DEF Fits, Idle
<1>9. CoreInv'
  <2>1. CoreType'
    <3>1. p \in Labels BY DEF Labels
    <3> QED BY <1>1, <1>2, <1>3, <1>4, <3>1 DEF CoreInv, CoreType
  <2>2. Present' = Present /\ TimerBatch' = TimerBatch BY <1>2, SameSetup
  <2>3. ASSUME NEW v \in Workers
        PROVE  /\ Fits(pc[v], after[v], taken[v], batch[v])'
               /\ v \notin Present' => pc'[v] = "stopped" /\ batch'[v] = <<>>
    <3>1. CASE v = w
      <4>1. pc'[v] = p BY <1>1, <1>3, <3>1 DEF CoreInv, CoreType
      <4> QED BY <3>1, <4>1, <1>2, <1>6, <1>8, <2>2 DEF Fits
    <3>2. CASE v # w
      <4>1. pc'[v] = pc[v] BY <1>1, <1>3, <3>2 DEF CoreInv, CoreType
      <4> QED BY <4>1, <1>1, <1>2, <2>2, ZenonT(30) DEF CoreInv, Fits
    <3> QED BY <3>1, <3>2, ZenonT(30)
  <2> QED BY <2>1, <2>3, Zenon DEF CoreInv
<1> QED BY <1>5, <1>9 DEF Part

\* Acknowledging a batch keeps it.
LEMMA DispatchPart == ASSUME Counting, Part, NEW b \in Bindings, Dispatch(b) PROVE Part'
<1>1. CoreInv /\ Gauge /\ Bound BY DEF Part
<1>2. queue \in [Bindings -> Seq(Batches)] /\ outstanding \in Nat /\ healed \in BOOLEAN /\ lost \in Nat
  BY <1>1 DEF CoreInv, CoreType
<1>3. /\ queue[b] # <<>> /\ queue' = [queue EXCEPT ![b] = Tail(queue[b])]
      /\ outstanding' = Minus(outstanding, Len(Head(queue[b]).events)) /\ stale' = FALSE
      /\ UNCHANGED <<setup, pc, after, batch, taken, lost, healed>>
  BY <1>2 DEF Dispatch, release_event_batch_outstanding
<1>4. Head(queue[b]) \in Batches /\ Tail(queue[b]) \in Seq(Batches) BY <1>2, <1>3
<1>5. Head(queue[b]).events \in Seq(Kinds) BY <1>4 DEF Batches
<1>6. Len(Head(queue[b]).events) \in Nat BY <1>5
<1>7. outstanding' \in Nat BY <1>2, <1>3, <1>6 DEF Minus
<1>8. queue' \in [Bindings -> Seq(Batches)] BY <1>2, <1>3, <1>4
<1>9. CoreInv' BY <1>1, <1>2, <1>3, <1>7, <1>8, WorkersStay, Zenon
<1>10. Gauge' /\ Bound' BY <1>1, <1>3, AckedKeeps, Zenon
<1> QED BY <1>9, <1>10 DEF Part

\* The end of an environment keeps it.
LEMMA TeardownPart == ASSUME Counting, Part, NEW b \in Bindings, Teardown(b) PROVE Part'
<1>1. CoreInv /\ Gauge /\ Bound BY DEF Part
<1>2. /\ queue \in [Bindings -> Seq(Batches)] /\ outstanding \in Nat /\ healed \in BOOLEAN /\ lost \in Nat
      /\ stale \in BOOLEAN
  BY <1>1 DEF CoreInv, CoreType
<1>3. /\ queue' = [queue EXCEPT ![b] = <<>>] /\ lost' = lost + Cardinality(Queued(queue[b], Kinds))
      /\ UNCHANGED <<setup, pc, after, batch, taken, outstanding, stale, healed>>
  BY DEF Teardown, gauge
<1>4. Cardinality(Queued(queue[b], Kinds)) \in Nat BY <1>2, QueueFamily, ZenonT(30)
<1>5. lost' \in Nat /\ queue' \in [Bindings -> Seq(Batches)] BY <1>2, <1>3, <1>4
<1>6. CoreInv' BY <1>1, <1>2, <1>3, <1>5, WorkersStay
<1>7. Gauge' /\ Bound' BY <1>1, <1>3, TornKeeps, Zenon
<1> QED BY <1>6, <1>7 DEF Part

\* A step that leaves workers, queues and gauge alone keeps it.
LEMMA OtherPart ==
    ASSUME Counting, Part, UNCHANGED <<setup, pc, after, taken, batch, queue, lost, outstanding, healed>>, stale' \in BOOLEAN
    PROVE  Part'
<1>1. CoreInv /\ Gauge /\ Bound BY DEF Part
<1>2. CoreInv' BY <1>1, WorkersStay DEF CoreInv, CoreType
<1>3. Gauge' /\ Bound' BY <1>1, QuietKeeps
<1> QED BY <1>2, <1>3 DEF Part

\* Every step keeps types, gauge and bound.
LEMMA NextPart == ASSUME Counting, Part, RestType, [Next]_vars PROVE Part'
<1>1. stale \in BOOLEAN /\ CoreInv /\ Gauge /\ Bound BY DEF Part, CoreInv, CoreType
<1>2. ASSUME NEW w \in Workers, WorkerStep(w) \/ TimerFires(w) \/ EmitFails(w) \/ RuntimeError(w)
                                \/ SendCommand(w) \/ PacketArrives(w)
      PROVE  Part'
  <2>1. CASE Emit(w) BY <2>1, EmitPart
  <2>2. CASE EnterPoll(w) \/ Woken(w) \/ TimerFires(w) BY <2>2, RoundPart DEF Woken, TimerFires
  <2>3. CASE EmitFails(w) BY <2>3, EmitFailsPart
  <2>4. CASE SendCommand(w) \/ PacketArrives(w)
    BY <2>4, <1>1, OtherPart DEF SendCommand, PacketArrives, gauge, script
  <2>5. CASE \/ DispatchCommand(w) \/ ProcessPackets(w) \/ ProcessTimers(w) \/ PollAppEvents(w)
             \/ DrainsAndWrites(w) \/ CleanupClosed(w) \/ Deliver(w) \/ RuntimeError(w)
             \/ PushShutdownComplete(w)
    <3>1. Turns(w) BY <2>5, <1>1, CollectingTurns
    <3> QED BY <3>1, <1>1, TurnCore, TurnKeeps DEF Part
  <2> QED BY <1>2, <2>1, <2>2, <2>3, <2>4, <2>5 DEF WorkerStep
<1>3. ASSUME NEW b \in Bindings, ScriptStep(b) \/ Close(b) \/ Teardown(b) PROVE Part'
  <2>1. CASE Dispatch(b) BY <2>1, DispatchPart
  <2>2. CASE Teardown(b) BY <2>2, TeardownPart
  <2>3. CASE StartJoin(b) \/ JoinWorker(b) \/ ClearMaps(b) \/ Close(b)
    BY <2>3, <1>1, OtherPart, ZenonT(30) DEF StartJoin, JoinWorker, ClearMaps, Close, gauge, worker
  <2> QED BY <1>3, <2>1, <2>2, <2>3 DEF ScriptStep
<1>4. CASE ClockPasses BY <1>4, OtherPart DEF ClockPasses, worker, script
<1>5. CASE UNCHANGED vars BY <1>1, <1>5, OtherPart DEF vars, gauge, worker, script
<1> QED BY <1>2, <1>3, <1>4, <1>5 DEF Next
=============================================================================
