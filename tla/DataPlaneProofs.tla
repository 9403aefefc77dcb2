--------------------------- MODULE DataPlaneProofs --------------------------
(***************************************************************************)
(* What a data-plane session and its operation broker guarantee, for every *)
(* value of the constants: the broker's map stays within its capacity and  *)
(* its queue exact; the session's counters are the sums they stand for,    *)
(* its links agree, no resource is out of reach and no wakeup is lost.     *)
(***************************************************************************)
EXTENDS DataPlaneTables

INSTANCE FiniteSetTheorems

USE BrokerAssumption DEF Ids

-----------------------------------------------------------------------------
(* The operation broker. *)

\* The inductive invariant: type and exactness together.
IInv == Good(broker)

\* The inductive step, one lemma per method.
LEMMA InductiveInvariant == Spec => []IInv
<1>1. Init => IInv
  BY DEF IInv, Init, New, Good, Exact, Broker, States
<1>2. IInv /\ [Next]_broker => IInv'
  <2> SUFFICES ASSUME Good(broker), [Next]_broker PROVE Good(broker')
    BY DEF IInv
  <2>1. CASE Admit
    BY <2>1, AdmittedGood DEF Admit
  <2>2. CASE Drain
    BY <2>2, DrainedGood DEF Drain
  <2>3. CASE DiscardAll
    BY <2>3, RemovedGood DEF DiscardAll
  <2>4. ASSUME NEW id \in Ids, NEW cancel \in BOOLEAN, Resolve(id, cancel)
        PROVE  Good(broker')
    BY <2>4, ResolvedGood DEF Resolve
  <2>5. ASSUME NEW id \in Ids, Free(id)
        PROVE  Good(broker')
    BY <2>5, FreedGood DEF Free
  <2>6. ASSUME NEW id \in Ids, Take(id)
        PROVE  Good(broker')
    BY <2>6, RemovedGood DEF Take
  <2>7. CASE UNCHANGED broker
    BY <2>7
  <2> QED BY <2>1, <2>2, <2>3, <2>4, <2>5, <2>6, <2>7 DEF Next
<1> QED BY <1>1, <1>2, PTL DEF Spec

\* Such a step keeps the map within its capacity: it adds one entry at most, below the limit.
LEMMA MovesWithin ==
  ASSUME Good(broker), WithinCapacity, Moves(broker, broker')
  PROVE  WithinCapacity'
<1>1. IsFiniteSet(Ids)
  BY FS_Interval
<1>2. IsFiniteSet(Live(broker)) /\ Cardinality(Live(broker)) \in Nat
  BY <1>1, FS_Subset, FS_CardinalityType DEF Live
<1>3. CASE Live(broker') \subseteq Live(broker)
  <2>1. Cardinality(Live(broker')) <= Cardinality(Live(broker)) /\ Cardinality(Live(broker')) \in Nat
    BY <1>2, <1>3, FS_Subset, FS_CardinalityType
  <2> QED BY <1>2, <2>1 DEF WithinCapacity
<1>4. CASE ~(Live(broker') \subseteq Live(broker))
  <2> DEFINE n == broker.next_id
  <2>1. PICK id \in Ids : id \in Live(broker') /\ id \notin Live(broker)
    BY <1>4 DEF Live
  <2>2. id = n /\ CanAdmit(broker)
    BY <2>1 DEF Moves, Live
  <2>3. Live(broker') \subseteq Live(broker) \cup {n}
    BY DEF Moves, Live
  <2>4. n \notin Live(broker) /\ Cardinality(Live(broker)) < MaxOperations
    BY <2>1, <2>2 DEF CanAdmit
  <2> HIDE DEF n
  <2>5. /\ IsFiniteSet(Live(broker) \cup {n})
        /\ Cardinality(Live(broker) \cup {n}) = Cardinality(Live(broker)) + 1
    BY <1>2, <2>4, FS_AddElement
  <2>6. /\ Cardinality(Live(broker')) <= Cardinality(Live(broker) \cup {n})
        /\ Cardinality(Live(broker')) \in Nat
    BY <2>3, <2>5, FS_Subset, FS_CardinalityType
  <2> QED BY <1>2, <2>4, <2>5, <2>6 DEF WithinCapacity
<1> QED BY <1>3, <1>4

\* The map of a new broker is empty.
LEMMA EmptyWithin ==
  ASSUME broker = New
  PROVE  WithinCapacity
<1>1. Live(broker) = {}
  BY DEF New, Live
<1> QED BY <1>1, FS_EmptySet DEF WithinCapacity

\* Every step of the broker.
LEMMA BrokerMoves ==
  ASSUME IInv, [Next]_broker
  PROVE  Moves(broker, broker')
<1>1. Good(broker)
  BY DEF IInv
<1> QED BY <1>1, MethodsMove DEF Next, Admit, Drain, DiscardAll, Resolve, Free, Take

\* The map never exceeds max_operations, running futures of freed operations included:
\* admit is the only call that adds an entry, and it adds one below the limit.
THEOREM CapacityHolds == Spec => []WithinCapacity
<1>1. Init => WithinCapacity
  BY EmptyWithin DEF Init
<1>2. IInv /\ WithinCapacity /\ [Next]_broker => WithinCapacity'
  BY BrokerMoves, MovesWithin DEF IInv
<1> QED BY <1>1, <1>2, InductiveInvariant, PTL DEF Spec

\* The completion queue holds exactly the operations whose outcome nobody has drained, each
\* once, and the map only ids below next_operation_id; for any capacity and any id width.
THEOREM QueueIsExact == Spec => [](TypeOK /\ CompletionsExact)
<1>1. IInv => TypeOK /\ CompletionsExact
  BY DEF IInv, Good, Exact, TypeOK, CompletionsExact
<1> QED BY <1>1, InductiveInvariant, PTL

\* No id is ever admitted twice and none moves back: resolve, free, drain and take only move
\* an operation forward, and admit uses an id above every one used before.
THEOREM OperationsNeverGoBack == Spec => NeverBack
<1> DEFINE Forward == \A id \in Ids :
             IF id < broker.next_id THEN Rank(broker'.op[id]) >= Rank(broker.op[id])
             ELSE broker'.op[id] \in {"none", "pending"}
<1>1. IInv /\ [Next]_broker => [Forward]_broker
  BY BrokerMoves, MovesForward DEF IInv
<1> QED BY <1>1, InductiveInvariant, PTL DEF Spec, NeverBack

-----------------------------------------------------------------------------
(* What the calls do to a set of operations. *)

\* Operation ids and resource ids are bounded, so every set of them is finite.
LEMMA IdsFinite == IsFiniteSet(Ids) /\ IsFiniteSet(Resources)
<1>1. MaxOperationId - 1 \in Int /\ MaxResourceId - 1 \in Int /\ 1 \in Int
  BY SessionAssumption
<1> QED BY <1>1, FS_Interval DEF Resources

\* A function on 1 .. n is a sequence.
LEMMA TupleIsSeq ==
  ASSUME NEW T, NEW n \in Nat, NEW q \in [1 .. n -> T]
  PROVE  q \in Seq(T) /\ Len(q) = n
OBVIOUS

\* The elements of two sequences put together.
LEMMA ConcatFacts ==
  ASSUME NEW T, NEW c \in Seq(T), NEW q \in Seq(T)
  PROVE  /\ c \o q \in Seq(T) /\ Len(c \o q) = Len(c) + Len(q) /\ Len(c) \in Nat
         /\ \A i \in 1 .. Len(c) : (c \o q)[i] = c[i]
         /\ \A i \in 1 .. Len(q) : (c \o q)[Len(c) + i] = q[i]
OBVIOUS

\* Whatever the order in which the set is walked, every operation of it is queued once
\* (queue_error_locked).
LEMMA CancelledFacts == CancelFacts
<1> SUFFICES ASSUME NEW b, NEW S \in SUBSET Ids, Good(b), \A id \in S : b.op[id] = "pending", CancelAll(b, S)
             PROVE  Cancelled(b, S)
  BY DEF CancelFacts
<1> DEFINE n == Cardinality(S)
           op == [id \in Ids |-> IF id \in S THEN "queued" ELSE b.op[id]]
           c == b.completions
<1>1. PICK q \in Orders(S) : broker' = [b EXCEPT !.op = op, !.completions = c \o q]
  BY Zenon DEF CancelAll
<1>2. IsFiniteSet(S) /\ n \in Nat
  BY IdsFinite, FS_Subset, FS_CardinalityType, Zenon
<1>3. q \in [1 .. n -> S] /\ \A i, j \in 1 .. n : q[i] = q[j] => i = j
  BY DEF Orders
<1>4. \A x \in S : \E i \in 1 .. n : q[i] = x
  <2>1. q \in Injection(1 .. n, S)
    BY <1>3 DEF Injection, IsInjective
  <2>2. Cardinality(1 .. n) = n
    BY <1>2, FS_Interval
  <2>3. q \in Surjection(1 .. n, S)
    BY <1>2, <2>1, <2>2, FS_Injection
  <2> QED BY <2>3 DEF Surjection
<1> HIDE DEF n
<1>5. /\ c \in Seq(Ids) /\ b \in Broker
      /\ \A id \in Ids : b.op[id] = "queued" <=> \E i \in 1 .. Len(c) : c[i] = id
      /\ \A i, j \in 1 .. Len(c) : c[i] = c[j] => i = j
      /\ \A id \in Ids : id >= b.next_id => b.op[id] = "none"
  BY DEF Good, Exact, Broker
<1>6. q \in Seq(Ids) /\ Len(q) = n
  <2>1. q \in [1 .. n -> Ids]
    BY <1>3, Zenon
  <2> QED BY <1>2, <2>1, TupleIsSeq
<1>7. /\ broker'.op = op /\ broker'.completions = c \o q /\ broker'.next_id = b.next_id
  BY <1>1, <1>5 DEF Broker
<1> DEFINE d == c \o q
<1>8. /\ d \in Seq(Ids) /\ Len(d) = Len(c) + n /\ Len(c) \in Nat
      /\ \A i \in 1 .. Len(c) : d[i] = c[i]
      /\ \A i \in 1 .. n : d[Len(c) + i] = q[i]
  <2> HIDE DEF c
  <2>0. c \in Seq(Ids) /\ q \in Seq(Ids)
    BY <1>5, <1>6
  <2>1. /\ d \in Seq(Ids) /\ Len(d) = Len(c) + Len(q) /\ Len(c) \in Nat
        /\ \A i \in 1 .. Len(c) : d[i] = c[i]
        /\ \A i \in 1 .. Len(q) : d[Len(c) + i] = q[i]
    BY <2>0, ConcatFacts
  <2> QED BY <1>6, <2>1, Zenon
<1>9. \A i \in 1 .. Len(d) : \/ i \in 1 .. Len(c) /\ d[i] = c[i] /\ c[i] \notin S /\ c[i] \in Ids
                             \/ i - Len(c) \in 1 .. n /\ d[i] = q[i - Len(c)] /\ q[i - Len(c)] \in S
  <2> SUFFICES ASSUME NEW i \in 1 .. Len(d)
               PROVE  \/ i \in 1 .. Len(c) /\ d[i] = c[i] /\ c[i] \notin S /\ c[i] \in Ids
                      \/ i - Len(c) \in 1 .. n /\ d[i] = q[i - Len(c)] /\ q[i - Len(c)] \in S
    OBVIOUS
  <2>1. CASE i <= Len(c)
    <3>1. i \in 1 .. Len(c) /\ c[i] \in Ids
      BY <1>5, <1>8, <2>1
    <3>2. c[i] \notin S
      BY <1>5, <3>1, Zenon
    <3> QED BY <1>8, <3>1, <3>2
  <2>2. CASE i > Len(c)
    <3>1. i - Len(c) \in 1 .. n /\ Len(c) + (i - Len(c)) = i
      BY <1>2, <1>8, <2>2
    <3> QED BY <1>3, <1>8, <3>1, Zenon
  <2> QED BY <1>8, <2>1, <2>2
<1> HIDE DEF d, op, c
<1>10. \A i, j \in 1 .. Len(d) : d[i] = d[j] => i = j
  <2> SUFFICES ASSUME NEW i \in 1 .. Len(d), NEW j \in 1 .. Len(d), d[i] = d[j] PROVE i = j
    OBVIOUS
  <2>1. CASE i \in 1 .. Len(c) /\ j \in 1 .. Len(c)
    BY <1>5, <1>8, <2>1
  <2>2. CASE i - Len(c) \in 1 .. n /\ j - Len(c) \in 1 .. n
    <3>1. d[i] = q[i - Len(c)] /\ d[j] = q[j - Len(c)]
      BY <1>8, <1>9, <2>2
    <3>2. i - Len(c) = j - Len(c)
      BY <1>3, <2>2, <3>1, Zenon
    <3> QED BY <1>8, <3>2
  <2> QED BY <1>9, <2>1, <2>2, Zenon
<1>11. ASSUME NEW x \in Ids
       PROVE  op[x] = "queued" <=> \E i \in 1 .. Len(d) : d[i] = x
  <2>1. op[x] = IF x \in S THEN "queued" ELSE b.op[x]
    BY DEF op
  <2>2. ASSUME x \in S PROVE \E i \in 1 .. Len(d) : d[i] = x
    <3>1. PICK i \in 1 .. n : q[i] = x
      BY <1>4, <2>2
    <3>2. Len(c) + i \in 1 .. Len(d)
      BY <1>2, <1>8
    <3>3. d[Len(c) + i] = x
      BY <1>8, <3>1
    <3> QED BY <3>2, <3>3
  <2>3. ASSUME x \notin S, b.op[x] = "queued" PROVE \E i \in 1 .. Len(d) : d[i] = x
    <3>1. PICK i \in 1 .. Len(c) : c[i] = x
      BY <1>5, <2>3
    <3>2. i \in 1 .. Len(d) /\ d[i] = x
      BY <1>2, <1>8, <3>1
    <3> QED BY <3>2
  <2>4. ASSUME NEW i \in 1 .. Len(d), d[i] = x, x \notin S PROVE b.op[x] = "queued"
    BY <1>5, <1>9, <2>4
  <2> QED BY <2>1, <2>2, <2>3, <2>4
<1>12. broker' \in Broker
  <2>1. op \in [Ids -> States]
    BY <1>5 DEF op, Broker, States
  <2> QED BY <1>1, <1>5, <1>8, <2>1, Zenon DEF Broker, d
<1>13. \A x \in Ids : x >= broker'.next_id => broker'.op[x] = "none"
  BY <1>5, <1>7 DEF op
<1>14. Good(broker')
  BY <1>7, <1>10, <1>11, <1>12, <1>13 DEF Good, Exact, d
<1>15. \A id \in Ids : broker'.op[id] = IF id \in S THEN "queued" ELSE b.op[id]
  BY <1>7 DEF op
<1>16. S = {} => broker'.completions = c
  <2> SUFFICES ASSUME S = {} PROVE c \o q = c
    BY <1>7
  <2>1. n = 0
    BY FS_EmptySet DEF n
  <2>2. q = <<>>
    BY <1>6, <2>1
  <2> QED BY <1>5, <2>2
<1> QED BY <1>14, <1>15, <1>16 DEF Cancelled, c

-----------------------------------------------------------------------------
(* Sums over the operations. *)

\* A set of natural numbers that is not empty has a least one.
LEMMA LeastNat ==
  ASSUME NEW S \in SUBSET Nat, S # {}
  PROVE  \E x \in S : \A y \in S : x <= y
<1>1. PICK x \in S : \A y \in S : ~(<<y, x>> \in OpToRel(<, Nat))
  BY WFMin, NatLessThanWellFounded, Zenon
<1>2. \A y \in S : ~(y < x)
  BY <1>1, Zenon DEF OpToRel
<1> QED BY <1>2

\* The running totals of f, and the total: what Bytes adds up in some order, in the order of
\* the ids.
Weights == [Ids -> Nat]
Totals(f, n, p) == /\ p \in [0 .. n -> Nat] /\ p[0] = 0
                   /\ \A i \in 1 .. n : p[i] = p[i - 1] + f[i]
Last == MaxOperationId - 1
Sum(f) == (CHOOSE p : Totals(f, Last, p))[Last]

\* Running totals exist.
LEMMA TotalsExist ==
  ASSUME NEW f \in Weights
  PROVE  Totals(f, Last, CHOOSE p : Totals(f, Last, p)) /\ Last \in Nat
<1>0. Last \in Nat
  BY DEF Last
<1> DEFINE Bad == {n \in 0 .. Last : ~ \E p : Totals(f, n, p)}
<1>1. Bad = {}
  <2> SUFFICES ASSUME Bad # {} PROVE FALSE
    OBVIOUS
  <2>1. PICK n \in Bad : \A m \in Bad : n <= m
    <3>1. Bad \in SUBSET Nat
      BY <1>0
    <3> HIDE DEF Bad
    <3> QED BY <3>1, LeastNat
  <2>2. n \in 0 .. Last /\ ~ \E p : Totals(f, n, p)
    OBVIOUS
  <2>3. n # 0
    <3>1. Totals(f, 0, [i \in 0 .. 0 |-> 0])
      BY DEF Totals
    <3> QED BY <2>2, <3>1
  <2>4. n - 1 \in 0 .. Last /\ n - 1 \notin Bad /\ n \in Ids
    <3> HIDE DEF Bad
    <3> QED BY <1>0, <2>1, <2>2, <2>3 DEF Last
  <2>5. PICK p : Totals(f, n - 1, p)
    BY <2>4
  <2> DEFINE r == [i \in 0 .. n |-> IF i = n THEN p[n - 1] + f[n] ELSE p[i]]
  <2>6. n \in Nat /\ n - 1 \in Nat /\ f[n] \in Nat
    BY <1>0, <2>2, <2>4 DEF Weights
  <2>7. r \in [0 .. n -> Nat] /\ r[0] = 0
    BY <2>3, <2>5, <2>6 DEF Totals
  <2>8. ASSUME NEW i \in 1 .. n PROVE r[i] = r[i - 1] + f[i]
    <3>1. CASE i = n
      BY <2>6, <3>1
    <3>2. CASE i # n
      <4>1. i \in 1 .. (n - 1) /\ i - 1 \in 0 .. n /\ i - 1 # n /\ i \in 0 .. n
        BY <2>6, <3>2
      <4>2. r[i] = p[i] /\ r[i - 1] = p[i - 1]
        BY <3>2, <4>1
      <4> QED BY <2>5, <4>1, <4>2 DEF Totals
    <3> QED BY <3>1, <3>2
  <2>9. Totals(f, n, r)
    BY <2>7, <2>8, Zenon DEF Totals
  <2> QED BY <2>2, <2>9
<1>2. \E p : Totals(f, Last, p)
  BY <1>0, <1>1
<1> QED BY <1>0, <1>2, Zenon

\* Totals add up where the weights do.
LEMMA SumAdds ==
  ASSUME NEW f \in Weights, NEW g \in Weights, NEW h \in Weights,
         \A i \in Ids : f[i] = g[i] + h[i]
  PROVE  Sum(f) = Sum(g) + Sum(h) /\ Sum(f) \in Nat /\ Sum(g) \in Nat /\ Sum(h) \in Nat
<1> DEFINE p == CHOOSE x : Totals(f, Last, x)
           q == CHOOSE x : Totals(g, Last, x)
           r == CHOOSE x : Totals(h, Last, x)
<1>1. Totals(f, Last, p) /\ Totals(g, Last, q) /\ Totals(h, Last, r) /\ Last \in Nat
  BY TotalsExist
<1>2. Sum(f) = p[Last] /\ Sum(g) = q[Last] /\ Sum(h) = r[Last]
  BY DEF Sum
<1> HIDE DEF p, q, r
<1> DEFINE Bad == {n \in 0 .. Last : p[n] # q[n] + r[n]}
<1>3. Bad = {}
  <2> SUFFICES ASSUME Bad # {} PROVE FALSE
    OBVIOUS
  <2>1. PICK n \in Bad : \A m \in Bad : n <= m
    <3>1. Bad \in SUBSET Nat
      BY <1>1
    <3> HIDE DEF Bad
    <3> QED BY <3>1, LeastNat
  <2>2. n \in 0 .. Last /\ p[n] # q[n] + r[n]
    OBVIOUS
  <2>3. n # 0
    BY <1>1, <2>2 DEF Totals
  <2>4. n - 1 \in 0 .. Last /\ n - 1 \notin Bad /\ n \in 1 .. Last /\ n \in Ids
    <3> HIDE DEF Bad
    <3> QED BY <1>1, <2>1, <2>2, <2>3 DEF Last
  <2>5. p[n - 1] = q[n - 1] + r[n - 1]
    BY <2>4
  <2>6. p[n] = p[n - 1] + f[n] /\ q[n] = q[n - 1] + g[n] /\ r[n] = r[n - 1] + h[n]
    BY <1>1, <2>4 DEF Totals
  <2>7. /\ q[n - 1] \in Nat /\ r[n - 1] \in Nat /\ g[n] \in Nat /\ h[n] \in Nat
        /\ f[n] = g[n] + h[n]
    BY <1>1, <2>4 DEF Totals, Weights
  <2> QED BY <2>2, <2>5, <2>6, <2>7
<1>4. Last \in 0 .. Last /\ p[Last] \in Nat /\ q[Last] \in Nat /\ r[Last] \in Nat
  BY <1>1 DEF Totals
<1>5. p[Last] = q[Last] + r[Last]
  BY <1>3, <1>4
<1> QED BY <1>2, <1>4, <1>5

\* A weight on one operation only is the total, and no weight is zero.
LEMMA SumOne ==
  ASSUME NEW f \in Weights, NEW k \in Ids, \A i \in Ids : i # k => f[i] = 0
  PROVE  Sum(f) = f[k]
<1> DEFINE p == CHOOSE x : Totals(f, Last, x)
<1>1. Totals(f, Last, p) /\ Last \in Nat /\ Sum(f) = p[Last]
  BY TotalsExist DEF Sum
<1> HIDE DEF p
<1> DEFINE Bad == {n \in 0 .. Last : p[n] # IF n < k THEN 0 ELSE f[k]}
<1>2. Bad = {}
  <2> SUFFICES ASSUME Bad # {} PROVE FALSE
    OBVIOUS
  <2>1. PICK n \in Bad : \A m \in Bad : n <= m
    <3>1. Bad \in SUBSET Nat
      BY <1>1
    <3> HIDE DEF Bad
    <3> QED BY <3>1, LeastNat
  <2>2. n \in 0 .. Last /\ p[n] # IF n < k THEN 0 ELSE f[k]
    OBVIOUS
  <2>3. n # 0
    BY <1>1, <2>2 DEF Totals
  <2>4. n - 1 \in 0 .. Last /\ n - 1 \notin Bad /\ n \in 1 .. Last /\ n \in Ids
    <3> HIDE DEF Bad
    <3> QED BY <1>1, <2>1, <2>2, <2>3 DEF Last
  <2>5. p[n - 1] = IF n - 1 < k THEN 0 ELSE f[k]
    BY <2>4
  <2>6. p[n] = p[n - 1] + f[n] /\ f[n] \in Nat /\ f[k] \in Nat
    BY <1>1, <2>4 DEF Totals, Weights
  <2>7. n # k => f[n] = 0
    BY <2>4
  <2> QED BY <2>2, <2>4, <2>5, <2>6, <2>7
<1>3. Last \in 0 .. Last /\ ~(Last < k)
  BY <1>1 DEF Last
<1> QED BY <1>1, <1>2, <1>3

\* Nothing adds up to zero.
LEMMA SumNone ==
  ASSUME NEW f \in Weights, \A i \in Ids : f[i] = 0
  PROVE  Sum(f) = 0
<1>1. Sum(f) = Sum(f) + Sum(f) /\ Sum(f) \in Nat
  <2>1. \A i \in Ids : f[i] = f[i] + f[i]
    OBVIOUS
  <2> QED BY <2>1, SumAdds
<1> QED BY <1>1

\* The bytes of the operations of S, as weights.
BytesOf(m, S) == [i \in Ids |-> IF i \in S THEN m[i].bytes ELSE 0]

\* The weights of a set of operations are natural numbers.
LEMMA BytesOfFacts ==
  ASSUME NEW m \in [Ids -> Meta], NEW S
  PROVE  /\ BytesOf(m, S) \in Weights
         /\ \A i \in Ids : BytesOf(m, S)[i] = IF i \in S THEN m[i].bytes ELSE 0
         /\ \A i \in Ids : m[i].bytes \in Nat
<1>1. \A i \in Ids : m[i].bytes \in Nat
  BY DEF Meta
<1> QED BY <1>1 DEF BytesOf, Weights

\* Bytes, which adds up in whatever order the set gives its elements, is the total.
LEMMA BytesIsSum ==
  ASSUME meta \in [Ids -> Meta], NEW S \in SUBSET Ids
  PROVE  Bytes(S) = Sum(BytesOf(meta, S))
<1> DEFINE pick(s) == CHOOSE x \in s : TRUE
           body(g) == [s \in SUBSET S |-> IF s = {} THEN 0 ELSE meta[pick(s)].bytes + g[s \ {pick(s)}]]
           t == [s \in SUBSET S |-> Sum(BytesOf(meta, s))]
           iter == CHOOSE g : g = body(g)
<1>1. Bytes(S) = iter[S]
  BY Zenon DEF Bytes, MapThenSumSet, MapThenFoldSet
<1>2. \A s \in SUBSET S : s # {} => pick(s) \in s
  OBVIOUS
<1>3. ASSUME NEW s \in SUBSET S, s # {}
      PROVE  Sum(BytesOf(meta, s)) = meta[pick(s)].bytes + Sum(BytesOf(meta, s \ {pick(s)}))
  <2> DEFINE x == pick(s)
  <2>1. x \in s /\ x \in Ids
    BY <1>2, <1>3, Zenon
  <2> HIDE DEF x
  <2>2. /\ BytesOf(meta, s) \in Weights /\ BytesOf(meta, {x}) \in Weights /\ BytesOf(meta, s \ {x}) \in Weights
        /\ \A i \in Ids : BytesOf(meta, s)[i] = BytesOf(meta, {x})[i] + BytesOf(meta, s \ {x})[i]
    <3>1. /\ BytesOf(meta, s) \in Weights /\ BytesOf(meta, {x}) \in Weights /\ BytesOf(meta, s \ {x}) \in Weights
      BY BytesOfFacts, Zenon
    <3>2. ASSUME NEW i \in Ids PROVE BytesOf(meta, s)[i] = BytesOf(meta, {x})[i] + BytesOf(meta, s \ {x})[i]
      <4>1. /\ BytesOf(meta, s)[i] = IF i \in s THEN meta[i].bytes ELSE 0
            /\ BytesOf(meta, {x})[i] = IF i \in {x} THEN meta[i].bytes ELSE 0
            /\ BytesOf(meta, s \ {x})[i] = IF i \in s \ {x} THEN meta[i].bytes ELSE 0
            /\ meta[i].bytes \in Nat
        BY BytesOfFacts, ZenonT(30)
      <4> QED BY <2>1, <4>1
    <3> QED BY <3>1, <3>2, Zenon
  <2>3. Sum(BytesOf(meta, s)) = Sum(BytesOf(meta, {x})) + Sum(BytesOf(meta, s \ {x}))
    BY <2>2, SumAdds, Zenon
  <2>4. BytesOf(meta, {x})[x] = meta[x].bytes /\ \A i \in Ids : i # x => BytesOf(meta, {x})[i] = 0
    BY <2>1, BytesOfFacts
  <2>5. Sum(BytesOf(meta, {x})) = meta[x].bytes
    BY <2>1, <2>2, <2>4, SumOne, Zenon
  <2> QED BY <2>3, <2>5 DEF x
<1>4. Sum(BytesOf(meta, {})) = 0
  <2>1. BytesOf(meta, {}) \in Weights /\ \A i \in Ids : BytesOf(meta, {})[i] = 0
    BY BytesOfFacts
  <2> QED BY <2>1, SumNone
<1> HIDE DEF pick
<1>5. t = body(t)
  <2>1. ASSUME NEW s \in SUBSET S
        PROVE  t[s] = IF s = {} THEN 0 ELSE meta[pick(s)].bytes + t[s \ {pick(s)}]
    <3>1. CASE s = {}
      BY <1>4, <3>1
    <3>2. CASE s # {}
      <4>1. t[s] = Sum(BytesOf(meta, s)) /\ t[s \ {pick(s)}] = Sum(BytesOf(meta, s \ {pick(s)}))
        BY Zenon
      <4> QED BY <1>3, <3>2, <4>1, Zenon
    <3> QED BY <3>1, <3>2
  <2> QED BY <2>1, Zenon
<1> HIDE DEF t
<1>6. iter = body(iter)
  BY <1>5, Zenon
<1> HIDE DEF iter
<1>7. \A s \in SUBSET S : iter[s] = IF s = {} THEN 0 ELSE meta[pick(s)].bytes + iter[s \ {pick(s)}]
  BY <1>6, Zenon
<1>8. \A s \in SUBSET S : t[s] = IF s = {} THEN 0 ELSE meta[pick(s)].bytes + t[s \ {pick(s)}]
  BY <1>5, Zenon
<1>9. \A s \in SUBSET S : IsFiniteSet(s) /\ Cardinality(s) \in Nat
  BY IdsFinite, FS_Subset, FS_CardinalityType, Zenon
<1> DEFINE Bad == {n \in Nat : \E s \in SUBSET S : Cardinality(s) = n /\ iter[s] # t[s]}
<1>10. Bad = {}
  <2> SUFFICES ASSUME Bad # {} PROVE FALSE
    OBVIOUS
  <2>1. PICK n \in Bad : \A m \in Bad : n <= m
    <3>1. Bad \in SUBSET Nat
      OBVIOUS
    <3> HIDE DEF Bad
    <3> QED BY <3>1, LeastNat
  <2>2. PICK s \in SUBSET S : Cardinality(s) = n /\ iter[s] # t[s]
    OBVIOUS
  <2>3. s # {} /\ pick(s) \in s
    BY <1>2, <1>7, <1>8, <2>2
  <2> DEFINE u == s \ {pick(s)}
  <2>4. u \in SUBSET S
    BY Zenon
  <2>5. Cardinality(u) = n - 1 /\ Cardinality(u) \in Nat /\ n \in Nat
    BY <1>9, <2>2, <2>3, <2>4, FS_RemoveElement
  <2>6. Cardinality(u) \notin Bad
    <3> HIDE DEF Bad, u
    <3> QED BY <2>1, <2>5
  <2>7. iter[u] = t[u]
    BY <2>4, <2>5, <2>6, Zenon
  <2> QED BY <1>7, <1>8, <2>2, <2>3, <2>7, Zenon
<1>11. iter[S] = t[S]
  BY <1>9, <1>10
<1> QED BY <1>1, <1>11 DEF t

\* Weights that are given back come off the total.
LEMMA RetainedDrops ==
  ASSUME NEW m \in [Ids -> Meta], NEW k \in [Ids -> Meta], NEW d \in Weights,
         \A i \in Ids : m[i].bytes = k[i].bytes + d[i]
  PROVE  /\ Sum(BytesOf(m, Ids)) = Sum(BytesOf(k, Ids)) + Sum(d)
         /\ Sum(BytesOf(m, Ids)) \in Nat /\ Sum(BytesOf(k, Ids)) \in Nat /\ Sum(d) \in Nat
<1>1. BytesOf(m, Ids) \in Weights /\ BytesOf(k, Ids) \in Weights
  BY BytesOfFacts, Zenon
<1>2. \A i \in Ids : BytesOf(m, Ids)[i] = m[i].bytes /\ BytesOf(k, Ids)[i] = k[i].bytes
  BY BytesOfFacts, ZenonT(30)
<1>3. \A i \in Ids : BytesOf(m, Ids)[i] = BytesOf(k, Ids)[i] + d[i]
  BY <1>2
<1> QED BY <1>1, <1>3, SumAdds, Zenon

\* The same for one operation.
LEMMA RetainedDropsOne ==
  ASSUME NEW m \in [Ids -> Meta], NEW k \in [Ids -> Meta], NEW id \in Ids, NEW n \in Nat,
         m[id].bytes = k[id].bytes + n, \A i \in Ids : i # id => m[i].bytes = k[i].bytes
  PROVE  /\ Sum(BytesOf(m, Ids)) = Sum(BytesOf(k, Ids)) + n
         /\ Sum(BytesOf(m, Ids)) \in Nat /\ Sum(BytesOf(k, Ids)) \in Nat
<1> DEFINE d == [i \in Ids |-> IF i = id THEN n ELSE 0]
<1>1. d \in Weights /\ d[id] = n /\ \A i \in Ids : i # id => d[i] = 0
  BY DEF Weights
<1>2. \A i \in Ids : m[i].bytes = k[i].bytes + d[i]
  <2> SUFFICES ASSUME NEW i \in Ids PROVE m[i].bytes = k[i].bytes + d[i]
    OBVIOUS
  <2>1. m[i].bytes \in Nat /\ k[i].bytes \in Nat
    BY BytesOfFacts, Zenon
  <2> QED BY <1>1, <2>1
<1> HIDE DEF d
<1>3. Sum(d) = n
  BY <1>1, SumOne
<1> QED BY <1>1, <1>2, <1>3, RetainedDrops, Zenon

\* The operations with a reservation, and the two counters.
Reserving(m) == {id \in Ids : m[id].reserves}
CountInv ==
  /\ reserved = Cardinality(Reserving(meta))
  /\ retained = Sum(BytesOf(meta, Ids))
  /\ Cardinality(Open) + reserved <= MaxResources
  /\ retained <= MaxResultBytes

\* What is counted is finite.
LEMMA CountTypes ==
  ASSUME NEW m \in [Ids -> Meta]
  PROVE  /\ IsFiniteSet(Reserving(m)) /\ Cardinality(Reserving(m)) \in Nat
         /\ IsFiniteSet(Open) /\ Cardinality(Open) \in Nat
         /\ IsFiniteSet(Open') /\ Cardinality(Open') \in Nat
         /\ Sum(BytesOf(m, Ids)) \in Nat
<1>1. Reserving(m) \in SUBSET Ids /\ Open \in SUBSET Resources /\ Open' \in SUBSET Resources
  BY DEF Reserving, Open
<1>2. IsFiniteSet(Reserving(m)) /\ IsFiniteSet(Open) /\ IsFiniteSet(Open')
  BY <1>1, IdsFinite, FS_Subset
<1>3. Sum(BytesOf(m, Ids)) \in Nat
  <2> DEFINE z == [i \in Ids |-> 0]
  <2>1. z \in Weights
    BY DEF Weights
  <2>2. \A i \in Ids : m[i].bytes = m[i].bytes + z[i]
    BY BytesOfFacts
  <2> HIDE DEF z
  <2> QED BY <2>1, <2>2, RetainedDrops
<1> QED BY <1>2, <1>3, FS_CardinalityType

\* Nothing that is counted changes.
LEMMA CountStays ==
  ASSUME CountInv, meta' = meta, reserved' = reserved, retained' = retained, Open' = Open
  PROVE  CountInv'
BY DEF CountInv

\* release_operation_locked for the operations of S: both counters lose exactly what those hold,
\* and saturating_sub never saturates.
LEMMA SettleCounts ==
  ASSUME TabInv, TabInv', CountInv, NEW S \in SUBSET Ids, NEW C, Settle(S, C)
  PROVE  CountInv'
<1>1. meta \in [Ids -> Meta] /\ meta' \in [Ids -> Meta]
  BY DEF TabInv, TabTypes
<1>2. \A i \in Ids : meta'[i] = IF i \in S THEN NoMeta ELSE meta[i]
  BY Zenon DEF Settle
<1>3. retained' = Sum(BytesOf(meta', Ids)) /\ retained' <= retained /\ retained' \in Nat /\ retained \in Nat
  <2> DEFINE d == BytesOf(meta, S)
  <2>1. d \in Weights /\ \A i \in Ids : d[i] = (IF i \in S THEN meta[i].bytes ELSE 0) /\ meta[i].bytes \in Nat
    BY <1>1, BytesOfFacts, Zenon
  <2>2. Bytes(S) = Sum(d)
    BY <1>1, BytesIsSum
  <2> HIDE DEF d
  <2>3. \A i \in Ids : meta[i].bytes = meta'[i].bytes + d[i]
    BY <1>2, <2>1, KindFacts
  <2>4. /\ Sum(BytesOf(meta, Ids)) = Sum(BytesOf(meta', Ids)) + Sum(d)
        /\ Sum(BytesOf(meta, Ids)) \in Nat /\ Sum(BytesOf(meta', Ids)) \in Nat /\ Sum(d) \in Nat
    BY <1>1, <2>1, <2>3, RetainedDrops
  <2>5. retained' = Minus(retained, Sum(d)) /\ retained = Sum(BytesOf(meta, Ids))
    BY <2>2 DEF Settle, CountInv
  <2> QED BY <2>4, <2>5 DEF Minus
<1>4. reserved' = Cardinality(Reserving(meta')) /\ reserved' <= reserved /\ reserved' \in Nat /\ reserved \in Nat
  <2> DEFINE R == Reserving(meta)
             T == {id \in S : meta[id].reserves}
  <2>1. Reserving(meta') = R \ S
    BY <1>2, KindFacts DEF Reserving
  <2>2. R \cap S = T
    BY Zenon DEF Reserving
  <2>3. reserved = Cardinality(R) /\ reserved' = Minus(reserved, Cardinality(T))
    BY Zenon DEF CountInv, Settle
  <2>4. IsFiniteSet(R) /\ Cardinality(R) \in Nat /\ Cardinality(Reserving(meta')) \in Nat
    BY <1>1, CountTypes
  <2> HIDE DEF R, T
  <2>5. Cardinality(R \ S) = Cardinality(R) - Cardinality(R \cap S)
    BY <2>4, FS_Difference, Zenon
  <2>6. IsFiniteSet(T) /\ Cardinality(T) \in Nat
    <3>1. T \in SUBSET R
      BY <2>2
    <3> QED BY <2>4, <3>1, FS_Subset, FS_CardinalityType
  <2>7. Cardinality(Reserving(meta')) = Cardinality(R) - Cardinality(T)
    BY <2>1, <2>2, <2>5, Zenon
  <2> QED BY <2>3, <2>4, <2>6, <2>7 DEF Minus
<1>5. Cardinality(Open') <= Cardinality(Open) /\ Cardinality(Open') \in Nat /\ Cardinality(Open) \in Nat
  <2>1. ASSUME NEW r \in Resources, entries'[r].type # "none" PROVE entries[r].type # "none"
    <3>1. entries[r] \in Entry
      BY DEF TabInv, TabTypes
    <3>2. entries'[r] = IF r \in C THEN Closed
            ELSE [entries[r] EXCEPT !.pending = @ \ {x \in S : meta[x].target = r}]
      BY Zenon DEF Settle
    <3> QED BY <2>1, <3>1, <3>2, KindFacts DEF Entry
  <2>2. Open' \in SUBSET Open
    BY <2>1 DEF Open
  <2> QED BY <1>1, <2>2, CountTypes, FS_Subset
<1> QED BY <1>3, <1>4, <1>5, SessionAssumption DEF CountInv

\* admit_locked reserves within the limits, for an id that holds nothing.
LEMMA SubmitCounts ==
  ASSUME TabInv, TabInv', CountInv, NEW kind \in Kinds, NEW r \in Resources \cup {0}, NEW bytes \in Sizes,
         Submit(kind, r, bytes)
  PROVE  CountInv'
<1> DEFINE id == broker.next_id
           res == Creates[kind] # "none"
           new == [kind |-> kind, target |-> r, bytes |-> bytes, reserves |-> res]
<1>1. meta \in [Ids -> Meta] /\ meta' \in [Ids -> Meta] /\ entries \in [Resources -> Entry]
  BY DEF TabInv, TabTypes
<1>2. id \in Ids /\ broker.op[id] = "none" /\ bytes \in Nat
  <2>1. id \in Ids
    BY DEF Submit, Admits, CanAdmit, TabInv, TabTypes, Broker
  <2> QED BY <2>1, SessionAssumption DEF TabInv, Good, Exact
<1>3. /\ meta' = [meta EXCEPT ![id] = new] /\ retained' = retained + bytes
      /\ reserved' = (IF res THEN reserved + 1 ELSE reserved)
      /\ entries' = IF r = 0 THEN entries ELSE [entries EXCEPT ![r].pending = @ \cup {id}]
      /\ retained + bytes <= MaxResultBytes
      /\ res => Cardinality(Open) + reserved < MaxResources
  BY DEF Submit, Admits
<1>4. meta[id].bytes = 0 /\ meta[id].reserves = FALSE
  <2>1. OpInv(id) /\ meta[id] \in Meta
    BY <1>1, <1>2 DEF TabInv
  <2> QED BY <1>2, <2>1 DEF OpInv, Holding, Meta
<1> HIDE DEF id
<1>5. /\ meta'[id].bytes = bytes /\ (meta'[id].reserves <=> res)
      /\ \A i \in Ids : i # id => meta'[i] = meta[i]
  <2>1. meta'[id] = new /\ \A i \in Ids : i # id => meta'[i] = meta[i]
    BY <1>1, <1>2, <1>3, Zenon
  <2>2. new.bytes = bytes /\ new.reserves = res
    BY Zenon
  <2> HIDE DEF new
  <2> QED BY <2>1, <2>2, Zenon
<1> HIDE DEF new, res
<1>6. retained' = Sum(BytesOf(meta', Ids)) /\ retained' \in Nat
  <2>1. meta'[id].bytes = meta[id].bytes + bytes
    BY <1>2, <1>4, <1>5
  <2>2. /\ Sum(BytesOf(meta', Ids)) = Sum(BytesOf(meta, Ids)) + bytes
        /\ Sum(BytesOf(meta', Ids)) \in Nat
    <3>1. \A i \in Ids : i # id => meta'[i].bytes = meta[i].bytes
      BY <1>5
    <3> QED BY <1>1, <1>2, <2>1, <3>1, RetainedDropsOne
  <2> QED BY <1>3, <2>2 DEF CountInv
<1>7. Open' = Open
  <2>1. ASSUME NEW i \in Resources PROVE entries'[i].type = entries[i].type
    <3>1. entries[i] \in Entry
      BY <1>1
    <3>2. CASE i = r /\ r # 0
      <4>1. entries'[i] = [entries[i] EXCEPT !.pending = @ \cup {id}]
        BY <1>1, <1>3, <3>2
      <4> QED BY <3>1, <4>1 DEF Entry
    <3>3. CASE ~(i = r /\ r # 0)
      BY <1>1, <1>3, <3>3
    <3> QED BY <3>2, <3>3
  <2> QED BY <2>1 DEF Open
<1>8. /\ reserved \in Nat /\ Cardinality(Reserving(meta')) = IF res THEN reserved + 1 ELSE reserved
  <2>1. reserved = Cardinality(Reserving(meta)) /\ IsFiniteSet(Reserving(meta)) /\ Cardinality(Reserving(meta)) \in Nat
    BY <1>1, CountTypes DEF CountInv
  <2>2. id \notin Reserving(meta)
    BY <1>4 DEF Reserving
  <2>3. CASE res
    <3>1. Reserving(meta') = Reserving(meta) \cup {id}
      BY <1>2, <1>5, <2>3 DEF Reserving
    <3>2. Cardinality(Reserving(meta) \cup {id}) = Cardinality(Reserving(meta)) + 1
      BY <2>1, <2>2, FS_AddElement, Zenon
    <3> QED BY <2>1, <2>3, <3>1, <3>2
  <2>4. CASE ~res
    <3>1. Reserving(meta') = Reserving(meta)
      BY <1>4, <1>5, <2>4 DEF Reserving
    <3> QED BY <2>1, <2>4, <3>1
  <2> QED BY <2>3, <2>4
<1>9. Cardinality(Open) \in Nat
  BY <1>1, CountTypes
<1> QED BY <1>3, <1>6, <1>7, <1>8, <1>9, SessionAssumption DEF CountInv

\* finalize_success_locked turns a reservation into a resource, and gives back what the
\* outcome does not keep.
LEMMA FinalizeCounts ==
  ASSUME TabInv, TabInv', CountInv, NEW id \in Ids, broker.op[id] = "pending", NEW kept \in Kept(id),
         Finalize(id, kept)
  PROVE  CountInv'
<1> DEFINE type == Creates[meta[id].kind]
           r == IF type = "none" THEN 0 ELSE next_resource
           res == meta[id].reserves
<1>1. /\ meta \in [Ids -> Meta] /\ meta' \in [Ids -> Meta] /\ entries \in [Resources -> Entry]
      /\ next_resource \in Nat
  BY DEF TabInv, TabTypes
<1>2. OpInv(id) /\ (res <=> type # "none") /\ res \in BOOLEAN
  <2>1. OpInv(id) /\ meta[id] \in Meta
    BY <1>1 DEF TabInv
  <2> QED BY <2>1 DEF OpInv, Meta
<1>3. /\ meta' = [meta EXCEPT ![id] = [NoMeta EXCEPT !.bytes = kept]]
      /\ retained' = retained - (meta[id].bytes - kept)
      /\ reserved' = Minus(reserved, IF res THEN 1 ELSE 0)
      /\ entries' = [i \in Resources |->
           IF i = r THEN [type |-> type, pending |-> {}]
           ELSE IF i = meta[id].target THEN [entries[i] EXCEPT !.pending = @ \ {id}]
           ELSE entries[i]]
  BY Zenon DEF Finalize
<1>4. meta[id].bytes \in Nat /\ kept \in 0 .. meta[id].bytes
  <2>1. meta[id].bytes \in Nat
    BY <1>1 DEF Meta
  <2> QED BY <2>1 DEF Kept
<1>5. /\ meta'[id].bytes = kept /\ meta'[id].reserves = FALSE
      /\ \A i \in Ids : i # id => meta'[i] = meta[i]
  <2>1. meta'[id] = [NoMeta EXCEPT !.bytes = kept] /\ \A i \in Ids : i # id => meta'[i] = meta[i]
    BY <1>1, <1>3, Zenon
  <2> QED BY <2>1 DEF NoMeta
<1> HIDE DEF res
<1>6. retained' = Sum(BytesOf(meta', Ids)) /\ retained' \in Nat /\ retained' <= retained /\ retained \in Nat
  <2> DEFINE n == meta[id].bytes - kept
  <2>1. n \in Nat /\ meta[id].bytes = meta'[id].bytes + n
    BY <1>4, <1>5
  <2> HIDE DEF n
  <2>2. /\ Sum(BytesOf(meta, Ids)) = Sum(BytesOf(meta', Ids)) + n
        /\ Sum(BytesOf(meta, Ids)) \in Nat /\ Sum(BytesOf(meta', Ids)) \in Nat
    BY <1>1, <1>5, <2>1, RetainedDropsOne
  <2>3. retained' = retained - n /\ retained = Sum(BytesOf(meta, Ids))
    BY <1>3 DEF CountInv, n
  <2> QED BY <2>1, <2>2, <2>3
<1>7. /\ reserved \in Nat /\ reserved' = Cardinality(Reserving(meta'))
      /\ reserved' \in Nat /\ reserved = IF res THEN reserved' + 1 ELSE reserved'
  <2>1. reserved = Cardinality(Reserving(meta)) /\ IsFiniteSet(Reserving(meta)) /\ Cardinality(Reserving(meta)) \in Nat
    BY <1>1, CountTypes DEF CountInv
  <2>2. Reserving(meta') = Reserving(meta) \ {id} /\ Cardinality(Reserving(meta')) \in Nat
    <3>1. Cardinality(Reserving(meta')) \in Nat
      BY <1>1, CountTypes
    <3> QED BY <1>5, <3>1 DEF Reserving
  <2>3. Cardinality(Reserving(meta) \ {id}) =
          IF id \in Reserving(meta) THEN Cardinality(Reserving(meta)) - 1 ELSE Cardinality(Reserving(meta))
    BY <2>1, FS_RemoveElement, Zenon
  <2>4. id \in Reserving(meta) <=> res
    BY DEF Reserving, res
  <2>5. Cardinality(Reserving(meta')) = IF res THEN reserved - 1 ELSE reserved
    BY <2>1, <2>2, <2>3, <2>4
  <2> QED BY <1>2, <1>3, <2>1, <2>2, <2>5 DEF Minus
<1>8. /\ Cardinality(Open) \in Nat /\ Cardinality(Open') \in Nat
      /\ Cardinality(Open') <= IF res THEN Cardinality(Open) + 1 ELSE Cardinality(Open)
  <2>1. IsFiniteSet(Open) /\ Cardinality(Open) \in Nat /\ IsFiniteSet(Open') /\ Cardinality(Open') \in Nat
    BY <1>1, CountTypes
  <2>2. ASSUME NEW i \in Resources, i # r PROVE entries'[i].type = entries[i].type
    <3>1. entries[i] \in Entry
      BY <1>1
    <3>2. entries'[i] = IF i = meta[id].target THEN [entries[i] EXCEPT !.pending = @ \ {id}] ELSE entries[i]
      BY <1>3, <2>2, Zenon
    <3> QED BY <3>1, <3>2 DEF Entry
  <2>3. Open' \in SUBSET (Open \cup {r})
    BY <2>2 DEF Open
  <2>4. CASE res
    <3>1. /\ IsFiniteSet(Open \cup {r})
          /\ Cardinality(Open \cup {r}) = IF r \in Open THEN Cardinality(Open) ELSE Cardinality(Open) + 1
      <4> HIDE DEF r
      <4> QED BY <2>1, FS_AddElement
    <3>2. Cardinality(Open') <= Cardinality(Open \cup {r})
      BY <2>3, <3>1, FS_Subset
    <3> QED BY <2>1, <2>4, <3>1, <3>2
  <2>5. CASE ~res
    <3>1. 0 \notin Resources /\ r = 0
      BY <1>2, <2>5, SessionAssumption DEF Resources
    <3>2. Open' \in SUBSET Open
      BY <2>3, <3>1 DEF Open
    <3> QED BY <2>1, <2>5, <3>2, FS_Subset
  <2> QED BY <2>4, <2>5
<1> QED BY <1>2, <1>6, <1>7, <1>8, SessionAssumption, SMTT(30) DEF CountInv

\* take_result_with gives back the bytes of the outcome; discard_all gives everything back.
LEMMA TakeCounts ==
  ASSUME TabInv, TabInv', CountInv, NEW id \in Ids, TakeResult(id)
  PROVE  CountInv'
<1>1. meta \in [Ids -> Meta] /\ meta' \in [Ids -> Meta]
  BY DEF TabInv, TabTypes
<1>2. /\ retained' = Minus(retained, meta[id].bytes) /\ meta' = [meta EXCEPT ![id].bytes = 0]
      /\ reserved' = reserved /\ entries' = entries
  BY DEF TakeResult
<1>3. meta[id].bytes \in Nat
  BY <1>1 DEF Meta
<1>4. meta'[id] = [meta[id] EXCEPT !.bytes = 0] /\ \A i \in Ids : i # id => meta'[i] = meta[i]
  BY <1>1, <1>2, Zenon
<1>5. meta'[id].bytes = 0 /\ meta'[id].reserves = meta[id].reserves
  <2>1. meta[id] \in Meta
    BY <1>1
  <2> QED BY <1>4, <2>1 DEF Meta
<1>6. /\ Sum(BytesOf(meta, Ids)) = Sum(BytesOf(meta', Ids)) + meta[id].bytes
      /\ Sum(BytesOf(meta, Ids)) \in Nat /\ Sum(BytesOf(meta', Ids)) \in Nat
  <2>1. meta[id].bytes = meta'[id].bytes + meta[id].bytes
    BY <1>3, <1>5
  <2>2. \A i \in Ids : i # id => meta[i].bytes = meta'[i].bytes
    BY <1>4
  <2> QED BY <1>1, <1>3, <2>1, <2>2, RetainedDropsOne, Zenon
<1>7. retained' = Sum(BytesOf(meta', Ids)) /\ retained' <= retained /\ retained' \in Nat /\ retained \in Nat
  BY <1>2, <1>3, <1>6 DEF CountInv, Minus
<1>8. Reserving(meta') = Reserving(meta) /\ Open' = Open
  <2>1. \A i \in Ids : meta'[i].reserves = meta[i].reserves
    BY <1>4, <1>5, Zenon
  <2> QED BY <1>2, <2>1 DEF Reserving, Open
<1> QED BY <1>2, <1>7, <1>8, SessionAssumption DEF CountInv

\* discard_all resets both counters together with what they count.
LEMMA DiscardCounts ==
  ASSUME TabInv', meta' = [id \in Ids |-> NoMeta], reserved' = 0, retained' = 0,
         \A r \in Resources : entries'[r] = Closed
  PROVE  CountInv'
<1>1. meta' \in [Ids -> Meta] /\ \A i \in Ids : meta'[i] = NoMeta
  BY Zenon DEF TabInv, TabTypes
<1>2. Reserving(meta') = {} /\ Open' = {}
  BY <1>1, KindFacts DEF Reserving, Open
<1>3. Sum(BytesOf(meta', Ids)) = 0
  <2>1. BytesOf(meta', Ids) \in Weights /\ \A i \in Ids : BytesOf(meta', Ids)[i] = meta'[i].bytes
    BY <1>1, BytesOfFacts, Zenon
  <2>2. \A i \in Ids : BytesOf(meta', Ids)[i] = 0
    BY <1>1, <2>1, KindFacts
  <2> QED BY <2>1, <2>2, SumNone
<1>4. Cardinality({}) = 0
  BY FS_EmptySet
<1>5. /\ reserved' = Cardinality(Reserving(meta')) /\ retained' = Sum(BytesOf(meta', Ids))
      /\ Cardinality(Open') = 0
  BY <1>2, <1>3, <1>4, Zenon
<1>6. 0 <= MaxResources /\ 0 <= MaxResultBytes
  BY SessionAssumption
<1> QED BY <1>5, <1>6 DEF CountInv

\* The counters are kept by every step.
LEMMA CountStep ==
  ASSUME TabInv, TabInv', CountInv, [SessionNext]_vars
  PROVE  CountInv'
<1>1. ASSUME UNCHANGED <<meta, reserved, retained, entries>> PROVE CountInv'
  BY <1>1, CountStays DEF Open
<1>2. CASE WaiterStep \/ UNCHANGED vars \/ Start \/ DrainCompletion
  BY <1>1, <1>2 DEF WaiterStep, Notify, Wait, Woken, WaitTimeout, CallNotified, Notified, vars, session,
                    Start, DrainCompletion
<1>3. CASE Stop
  BY <1>3, SettleCounts DEF Stop
<1>4. CASE DiscardEverything
  <2>1. \A r \in Resources : entries'[r] = Closed
    BY <1>4, Zenon DEF DiscardEverything, Emptied
  <2> QED BY <1>4, <2>1, DiscardCounts DEF DiscardEverything
<1>5. ASSUME NEW id \in Ids, CancelOperation(id) PROVE CountInv'
  <2>1. {id} \in SUBSET Ids
    OBVIOUS
  <2> QED BY <1>1, <1>5, <2>1, SettleCounts DEF CancelOperation
<1>6. ASSUME NEW id \in Ids, FreeOperation(id) PROVE CountInv'
  <2> DEFINE r == IF broker.op[id] = "pending" THEN 0 ELSE created[id]
             victims == IF r \in Open THEN PendingOn(r) ELSE {}
             S == {id} \cup victims
  <2>1. Settle(S, {r})
    BY <1>6 DEF FreeOperation
  <2>2. victims \in SUBSET Ids
    BY LinkedPending DEF Open
  <2>3. S \in SUBSET Ids
    BY <2>2
  <2> HIDE DEF S, r, victims
  <2> QED BY <2>1, <2>3, SettleCounts
<1>7. ASSUME NEW r \in Resources, CloseResource(r) PROVE CountInv'
  <2>1. PendingOn(r) \in SUBSET Ids /\ Settle(PendingOn(r), {r})
    BY <1>7, LinkedPending DEF CloseResource
  <2> QED BY <2>1, SettleCounts
<1>8. CASE \E kind \in Kinds, r \in Resources \cup {0}, bytes \in Sizes : Submit(kind, r, bytes)
  BY <1>8, SubmitCounts
<1>9. ASSUME NEW id \in Ids, TakeResult(id) PROVE CountInv'
  BY <1>9, TakeCounts
<1>10. ASSUME NEW id \in Ids, TaskEnds(id) PROVE CountInv'
  <2>1. CASE broker.op[id] # "pending"
    BY <1>1, <1>10, <2>1 DEF TaskEnds
  <2>2. CASE broker.op[id] = "pending" /\ \E kept \in Kept(id) : Finalize(id, kept)
    BY <2>2, FinalizeCounts
  <2>3. CASE Settle({id}, {})
    <3>1. {id} \in SUBSET Ids
      OBVIOUS
    <3> QED BY <2>3, <3>1, SettleCounts
  <2> QED BY <1>10, <2>1, <2>2, <2>3 DEF TaskEnds
<1> QED BY <1>2, <1>3, <1>4, <1>5, <1>6, <1>7, <1>8, <1>9, <1>10 DEF SessionNext, WaiterStep

-----------------------------------------------------------------------------

\* The inductive invariant of the session.
SessionIInv == TabInv /\ StopInv /\ WaitTypes /\ CountInv /\ (OneAsync => WakeInv)

\* The tables, the waiters and the counters together are inductive: a call's effect on the
\* counters is known only when the tables say what the operation held.
LEMMA SessionInvariant == SessionSpec => []SessionIInv
<1>1. SessionInit => SessionIInv
  <2> SUFFICES ASSUME SessionInit PROVE SessionIInv
    OBVIOUS
  <2>1. Good(broker) /\ \A id \in Ids : broker.op[id] = "none"
    BY DEF SessionInit, Init, New, Good, Exact, Broker, States
  <2>2. /\ \A r \in Resources : entries[r] = Closed
        /\ \A id \in Ids : meta[id] = NoMeta /\ created[id] = 0 /\ task[id] = "none"
        /\ handed = {} /\ lifecycle = "created" /\ next_resource = 1
    BY DEF SessionInit
  <2>3. TabTypes
    <3>1. entries \in [Resources -> Entry] /\ meta \in [Ids -> Meta]
      BY KindFacts, Zenon DEF SessionInit
    <3>2. /\ created \in [Ids -> 0 .. MaxResourceId] /\ next_resource \in 1 .. MaxResourceId
          /\ task \in [Ids -> {"none", "running", "cancelled"}]
      BY SessionAssumption DEF SessionInit
    <3> QED BY <2>1, <2>2, <3>1, <3>2 DEF TabTypes, Good
  <2>4. \A id \in Ids : OpInv(id)
    BY <2>1, <2>2, KindFacts DEF OpInv, Holding
  <2>5. \A r \in Resources : ResInv(r)
    BY <2>2, KindFacts DEF ResInv
  <2>6. TabInv
    BY <2>1, <2>2, <2>3, <2>4, <2>5 DEF TabInv, OneHolder
  <2>7. StopInv /\ WaitTypes /\ WakeInv
    <3>1. /\ notes = 0 /\ generation = 0 /\ permit = FALSE
          /\ 0 \in 0 .. (MaxDiscards + 1) /\ 0 <= MaxDiscards
      BY SessionAssumption DEF SessionInit
    <3>2. /\ waiter = [w \in Waiters |-> [at |-> "out", gen |-> 0]]
          /\ async = [a \in AsyncWaiters |-> "out"]
      BY DEF SessionInit
    <3>3. WaitTypes
      BY <3>1, <3>2, Zenon DEF WaitTypes
    <3>4. WakeInv
      BY <3>2 DEF WakeInv
    <3> QED BY <2>2, <3>1, <3>3, <3>4 DEF StopInv
  <2>8. CountInv
    <3>1. meta \in [Ids -> Meta]
      BY <2>3 DEF TabTypes
    <3>2. Reserving(meta) = {} /\ Open = {}
      BY <2>2, KindFacts DEF Reserving, Open
    <3>3. BytesOf(meta, Ids) \in Weights /\ \A i \in Ids : BytesOf(meta, Ids)[i] = meta[i].bytes
      BY <3>1, BytesOfFacts, Zenon
    <3>4. \A i \in Ids : BytesOf(meta, Ids)[i] = 0
      BY <2>2, <3>3, KindFacts
    <3>5. Sum(BytesOf(meta, Ids)) = 0 /\ Cardinality({}) = 0
      BY <3>3, <3>4, SumNone, FS_EmptySet
    <3>6. reserved = 0 /\ retained = 0
      BY DEF SessionInit
    <3> QED BY <3>2, <3>5, <3>6, SessionAssumption DEF CountInv
  <2> QED BY <2>6, <2>7, <2>8 DEF SessionIInv
<1>2. SessionIInv /\ [SessionNext]_vars => SessionIInv'
  <2> SUFFICES ASSUME TabInv, StopInv, WaitTypes, CountInv, OneAsync => WakeInv, [SessionNext]_vars
               PROVE  SessionIInv'
    BY DEF SessionIInv
  <2>1. TabInv'
    BY TabStep, CancelledFacts
  <2>2. WaitTypes' /\ StopInv' /\ (OneAsync /\ WakeInv => WakeInv')
    BY WakeStep, CancelledFacts
  <2>3. CountInv'
    BY <2>1, CountStep
  <2> QED BY <2>1, <2>2, <2>3 DEF SessionIInv, OneAsync
<1> QED BY <1>1, <1>2, PTL DEF SessionSpec

\* Tables, counters and waiters keep their types in every session, whatever its limits, and
\* the ids of resources stop before they overflow (next_resource_id).
THEOREM SessionTypes == SessionSpec => []SessionTypeOK
<1>1. SessionIInv => SessionTypeOK
  <2> SUFFICES ASSUME TabInv, WaitTypes, CountInv PROVE SessionTypeOK
    BY DEF SessionIInv
  <2>1. reserved \in Nat /\ retained \in Nat
    BY CountTypes DEF CountInv, TabInv, TabTypes
  <2> QED BY <2>1 DEF SessionTypeOK, TypeOK, TabInv, TabTypes, WaitTypes
<1> QED BY <1>1, SessionInvariant, PTL

\* The session keeps the broker's queue exact through all its calls: those that answer several
\* operations at once (close_resource, discard_all, stop), and a future that ends late.
THEOREM SessionQueueIsExact == SessionSpec => []CompletionsExact
<1>1. SessionIInv => CompletionsExact
  BY DEF SessionIInv, TabInv, TabTypes, Good, Exact, Broker, CompletionsExact
<1> QED BY <1>1, SessionInvariant, PTL

\* In a session, too, no operation is admitted twice or goes back, whichever of cancel, close,
\* stop, free and the end of its future comes first, and the map stays within max_operations.
THEOREM SessionNeverGoesBack == SessionSpec => NeverBack /\ []WithinCapacity
<1> DEFINE Forward == \A id \in Ids :
             IF id < broker.next_id THEN Rank(broker'.op[id]) >= Rank(broker.op[id])
             ELSE broker'.op[id] \in {"none", "pending"}
<1>1. SessionInit => WithinCapacity
  BY EmptyWithin DEF SessionInit, Init
<1>2. ASSUME SessionIInv, [SessionNext]_vars
      PROVE  [Forward]_broker /\ (WithinCapacity => WithinCapacity')
  <2>1. Good(broker) /\ Moves(broker, broker')
    BY <1>2, SessionMoves, CancelledFacts DEF SessionIInv, TabInv
  <2> QED BY <2>1, MovesForward, MovesWithin
<1> QED BY <1>1, <1>2, SessionInvariant, PTL DEF SessionSpec, NeverBack

\* The reservations kept by hand are exactly what the operations hold and stay within the
\* limits, for any limits and any number of operations (admit_locked, finalize_success_locked,
\* release_operation_locked).
THEOREM CountersBalance == SessionSpec => []ReservationsBalanced
<1>1. SessionIInv => ReservationsBalanced
  <2> SUFFICES ASSUME TabInv, CountInv PROVE ReservationsBalanced
    BY DEF SessionIInv
  <2>1. {id \in Ids : broker.op[id] = "pending" /\ meta[id].reserves} = Reserving(meta)
    BY DEF TabInv, OpInv, Reserving
  <2> DEFINE H == {id \in Ids : Holding(id)}
  <2>2. meta \in [Ids -> Meta]
    BY DEF TabInv, TabTypes
  <2>3. Bytes(H) = Sum(BytesOf(meta, H))
    BY <2>2, BytesIsSum
  <2>4. BytesOf(meta, H) = BytesOf(meta, Ids)
    <3>1. \A i \in Ids : (IF i \in H THEN meta[i].bytes ELSE 0) = (IF i \in Ids THEN meta[i].bytes ELSE 0)
      BY DEF TabInv, OpInv
    <3> QED BY <3>1, Zenon DEF BytesOf
  <2> QED BY <2>1, <2>3, <2>4, Zenon DEF ReservationsBalanced, CountInv
<1> QED BY <1>1, SessionInvariant, PTL

\* Closing a resource reaches every operation pending on it: the pending sets and the
\* operations' targets agree (submit_*, unlink_operation_locked, close_resource).
THEOREM LinksAgree == SessionSpec => []PendingLinked
<1>1. SessionIInv => PendingLinked
  BY DEF SessionIInv, TabInv, OpInv, ResInv, PendingLinked
<1> QED BY <1>1, SessionInvariant, PTL

\* No open resource is out of everybody's reach, and a stopped session has none and no future
\* left to itself (free_operation, take_result_with, complete_operation, stop).
THEOREM ResourcesReachable == SessionSpec => []NoOrphanResource
<1>1. SessionIInv => NoOrphanResource
  <2> SUFFICES ASSUME TabInv, StopInv PROVE NoOrphanResource
    BY DEF SessionIInv
  <2>1. ASSUME NEW r \in Open \ handed
        PROVE  Cardinality({id \in Ids : broker.op[id] \in {"queued", "drained"} /\ created[id] = r}) = 1
    <3>1. r \in Resources /\ r # 0
      BY SessionAssumption DEF Open, Resources
    <3>2. PICK id \in Ids : created[id] = r
      BY <3>1 DEF Open, TabInv, ResInv
    <3>3. {x \in Ids : broker.op[x] \in {"queued", "drained"} /\ created[x] = r} = {id}
      BY <3>1, <3>2 DEF TabInv, OpInv, OneHolder
    <3> QED BY <3>3, FS_Singleton, Zenon
  <2>2. ASSUME lifecycle = "stopped"
        PROVE  Open = {} /\ \A id \in Ids : task[id] # "running"
    BY <2>2 DEF StopInv, Open, TabInv, OpInv
  <2> QED BY <2>1, <2>2 DEF NoOrphanResource
<1> QED BY <1>1, SessionInvariant, PTL

\* No wakeup is lost, for any number of threads in completion_wait and one task at a time in
\* completion_notified (notify_completion after the lock is dropped).
THEOREM WakeupsArrive == SessionSpec => [](OneAsync => NoLostWakeup)
<1>1. SessionIInv => (OneAsync => NoLostWakeup)
  BY DEF SessionIInv, WakeInv, NoLostWakeup
<1> QED BY <1>1, SessionInvariant, PTL
=============================================================================
