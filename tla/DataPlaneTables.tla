--------------------------- MODULE DataPlaneTables --------------------------
(***************************************************************************)
(* The tables of a data-plane session, for every value of the constants:   *)
(* what each call of the broker does to its map and its queue, and the     *)
(* inductive invariant of the session's operations, resources, waiters and *)
(* notifications with the proof that every step keeps it. Module           *)
(* DataPlaneProofs adds the two counters and has the theorems.             *)
(***************************************************************************)
EXTENDS DataPlaneSession, TLAPS

-----------------------------------------------------------------------------
(* The operation broker. *)

USE BrokerAssumption DEF Ids

\* Taking an id off a queue that holds it once leaves a queue of the other ids, each once
\* (completions.retain in free).
LEMMA WithoutFacts ==
  ASSUME NEW q \in Seq(Ids), NEW id \in Ids,
         \A i, j \in 1 .. Len(q) : q[i] = q[j] => i = j
  PROVE  /\ Without(q, id) \in Seq(Ids)
         /\ \A x \in Ids : (\E i \in 1 .. Len(Without(q, id)) : Without(q, id)[i] = x)
                             <=> (x # id /\ \E i \in 1 .. Len(q) : q[i] = x)
         /\ \A i, j \in 1 .. Len(Without(q, id)) :
              Without(q, id)[i] = Without(q, id)[j] => i = j
<1>1. CASE ~ \E i \in 1 .. Len(q) : q[i] = id
  BY <1>1 DEF Without
<1>2. CASE \E i \in 1 .. Len(q) : q[i] = id
  <2> DEFINE k == CHOOSE i \in 1 .. Len(q) : q[i] = id
             n == Len(q) - 1
             w == [j \in 1 .. n |-> IF j < k THEN q[j] ELSE q[j + 1]]
  <2>1. k \in 1 .. Len(q) /\ q[k] = id
    BY <1>2
  <2>2. Without(q, id) = w
    BY <1>2 DEF Without
  <2>3. Len(q) \in Nat /\ n \in Nat
    BY <2>1
  <2> HIDE DEF k
  <2>4. \A j \in 1 .. n : w[j] = (IF j < k THEN q[j] ELSE q[j + 1]) /\ w[j] \in Ids
    BY <2>1, <2>3
  <2>5. w \in Seq(Ids) /\ Len(w) = n
    BY <2>3, <2>4
  <2> HIDE DEF w
  <2>6. ASSUME NEW x \in Ids
        PROVE (\E i \in 1 .. n : w[i] = x) <=> (x # id /\ \E i \in 1 .. Len(q) : q[i] = x)
    <3>1. ASSUME NEW i \in 1 .. n, w[i] = x
          PROVE  x # id /\ \E j \in 1 .. Len(q) : q[j] = x
      <4>1. CASE i < k
        <5>1. i \in 1 .. Len(q) /\ i # k /\ q[i] = x
          BY <4>1, <3>1, <2>1, <2>3, <2>4
        <5> QED BY <5>1, <2>1
      <4>2. CASE ~(i < k)
        <5>1. i + 1 \in 1 .. Len(q) /\ i + 1 # k /\ q[i + 1] = x
          BY <4>2, <3>1, <2>1, <2>3, <2>4
        <5> QED BY <5>1, <2>1
      <4> QED BY <4>1, <4>2
    <3>2. ASSUME x # id, NEW i \in 1 .. Len(q), q[i] = x
          PROVE  \E j \in 1 .. n : w[j] = x
      <4>1. CASE i < k
        <5>1. i \in 1 .. n /\ w[i] = x
          BY <4>1, <3>2, <2>1, <2>3, <2>4
        <5> QED BY <5>1
      <4>2. CASE ~(i < k)
        <5>1. i # k
          BY <3>2, <2>1
        <5>2. i - 1 \in 1 .. n /\ ~(i - 1 < k) /\ (i - 1) + 1 = i
          BY <4>2, <5>1, <2>1, <2>3
        <5>3. w[i - 1] = x
          BY <5>2, <3>2, <2>4
        <5> QED BY <5>2, <5>3
      <4> QED BY <4>1, <4>2
    <3> QED BY <3>1, <3>2
  <2>7. ASSUME NEW i \in 1 .. n, NEW j \in 1 .. n, w[i] = w[j]
        PROVE  i = j
    <3> DEFINE f(m) == IF m < k THEN m ELSE m + 1
    <3>1. f(i) \in 1 .. Len(q) /\ f(j) \in 1 .. Len(q) /\ w[i] = q[f(i)] /\ w[j] = q[f(j)]
      BY <2>1, <2>3, <2>4, SMTT(20)
    <3>2. f(i) = f(j)
      BY <3>1, <2>7, Zenon
    <3> QED BY <3>2, <2>1
  <2> QED BY <2>2, <2>5, <2>6, <2>7
<1> QED BY <1>1, <1>2

-----------------------------------------------------------------------------
\* The queue mirrors the map, for any broker record.
Exact(b) ==
  /\ \A id \in Ids : b.op[id] = "queued" <=> \E i \in 1 .. Len(b.completions) : b.completions[i] = id
  /\ \A i, j \in 1 .. Len(b.completions) : b.completions[i] = b.completions[j] => i = j
  /\ \A id \in Ids : id >= b.next_id => b.op[id] = "none"
Good(b) == b \in Broker /\ Exact(b)

\* Setting the state of one operation keeps the map a map (every method of the broker).
LEMMA SetStateType ==
  ASSUME NEW b \in Broker, NEW id \in Ids, NEW s \in States
  PROVE  [b.op EXCEPT ![id] = s] \in [Ids -> States]
BY DEF Broker

\* admit keeps the queue exact: the new id is one the map never held.
LEMMA AdmittedGood ==
  ASSUME NEW b, Good(b), CanAdmit(b)
  PROVE  Good(Admitted(b))
<1>1. b.next_id \in Ids /\ b.op[b.next_id] = "none"
  BY DEF Good, Exact, Broker, CanAdmit
<1>2. Admitted(b) \in Broker
  <2>1. b.next_id + 1 \in 1 .. MaxOperationId
    BY <1>1
  <2>2. [b.op EXCEPT ![b.next_id] = "pending"] \in [Ids -> States]
    BY <1>1 DEF Good, Broker, States
  <2> QED BY <2>1, <2>2, Zenon DEF Good, Broker, Admitted
<1>3. /\ Admitted(b).completions = b.completions
      /\ Admitted(b).next_id = b.next_id + 1
      /\ \A id \in Ids : Admitted(b).op[id] = IF id = b.next_id THEN "pending" ELSE b.op[id]
  BY DEF Good, Broker, Admitted
<1>4. b.next_id \in Nat
  BY DEF Good, Broker
<1> QED BY <1>1, <1>2, <1>3, <1>4 DEF Good, Exact

\* complete_with and cancel_with keep it exact: only a pending id is appended.
LEMMA ResolvedGood ==
  ASSUME NEW b, Good(b), NEW id \in Ids, NEW cancel \in BOOLEAN
  PROVE  Good(Resolved(b, id, cancel))
<1> DEFINE c == Resolved(b, id, cancel)
<1>1. CASE b.op[id] = "pending"
  <2>1. c = [b EXCEPT !.op[id] = "queued", !.completions = Append(@, id)]
    BY <1>1 DEF Resolved
  <2>2. c \in Broker
    <3>1. [b.op EXCEPT ![id] = "queued"] \in [Ids -> States]
      BY SetStateType, Zenon DEF Good, States
    <3>2. Append(b.completions, id) \in Seq(Ids)
      BY DEF Good, Broker
    <3> QED BY <2>1, <3>1, <3>2, Zenon DEF Good, Broker
  <2>3. /\ c.completions = Append(b.completions, id)
        /\ c.next_id = b.next_id
        /\ \A x \in Ids : c.op[x] = IF x = id THEN "queued" ELSE b.op[x]
    BY <2>1 DEF Good, Broker
  <2>4. b.completions \in Seq(Ids)
    BY DEF Good, Broker
  <2>5. /\ Len(c.completions) = Len(b.completions) + 1
        /\ \A i \in 1 .. Len(b.completions) : c.completions[i] = b.completions[i]
        /\ c.completions[Len(b.completions) + 1] = id
        /\ Len(b.completions) \in Nat
    BY <2>3, <2>4
  <2>6. \A i \in 1 .. Len(b.completions) : b.completions[i] # id
    BY <1>1 DEF Good, Exact
  <2> HIDE DEF c
  <2>7. \A x \in Ids : c.op[x] = "queued" <=> \E i \in 1 .. Len(c.completions) : c.completions[i] = x
    <3> SUFFICES ASSUME NEW x \in Ids
                 PROVE c.op[x] = "queued" <=> \E i \in 1 .. Len(c.completions) : c.completions[i] = x
      OBVIOUS
    <3>1. CASE x = id
      BY <3>1, <2>3, <2>5
    <3>2. CASE x # id
      BY <3>2, <2>3, <2>5 DEF Good, Exact
    <3> QED BY <3>1, <3>2
  <2>8. \A i, j \in 1 .. Len(c.completions) : c.completions[i] = c.completions[j] => i = j
    BY <2>5, <2>6, SMTT(20) DEF Good, Exact
  <2>9. \A x \in Ids : x >= c.next_id => c.op[x] = "none"
    BY <1>1, <2>3 DEF Good, Exact
  <2>10. Good(c)
    BY <2>2, <2>7, <2>8, <2>9 DEF Good, Exact
  <2> QED BY <2>10 DEF c
<1>2. CASE b.op[id] = "discarding" /\ ~cancel
  <2>1. c = [b EXCEPT !.op[id] = "none"]
    BY <1>2 DEF Resolved
  <2>2. c \in Broker
    <3>1. [b.op EXCEPT ![id] = "none"] \in [Ids -> States]
      BY SetStateType, Zenon DEF Good, States
    <3> QED BY <2>1, <3>1, Zenon DEF Good, Broker
  <2>3. /\ c.completions = b.completions /\ c.next_id = b.next_id
        /\ \A x \in Ids : c.op[x] = IF x = id THEN "none" ELSE b.op[x]
    BY <2>1 DEF Good, Broker
  <2> QED BY <1>2, <2>2, <2>3 DEF Good, Exact
<1>3. CASE b.op[id] # "pending" /\ ~(b.op[id] = "discarding" /\ ~cancel)
  BY <1>3 DEF Resolved
<1> QED BY <1>1, <1>2, <1>3

\* free keeps it exact: a queued operation leaves the queue with the map.
LEMMA FreedGood ==
  ASSUME NEW b, Good(b), NEW id \in Ids
  PROVE  Good(Freed(b, id))
<1> DEFINE c == Freed(b, id)
<1>1. CASE b.op[id] \in {"pending", "drained"}
  <2> DEFINE s == IF b.op[id] = "pending" THEN "discarding" ELSE "none"
  <2>1. c = [b EXCEPT !.op[id] = s]
    BY <1>1 DEF Freed
  <2>2. c \in Broker
    <3>1. [b.op EXCEPT ![id] = s] \in [Ids -> States]
      BY SetStateType, Zenon DEF Good, States
    <3> QED BY <2>1, <3>1, Zenon DEF Good, Broker
  <2>3. /\ c.completions = b.completions /\ c.next_id = b.next_id
        /\ \A x \in Ids : c.op[x] = IF x = id THEN s ELSE b.op[x]
    BY <2>1 DEF Good, Broker
  <2> QED BY <1>1, <2>2, <2>3 DEF Good, Exact
<1>2. CASE b.op[id] = "queued"
  <2> DEFINE q == b.completions
             w == Without(q, id)
  <2>1. c = [b EXCEPT !.op[id] = "none", !.completions = w]
    BY <1>2 DEF Freed
  <2>2. q \in Seq(Ids) /\ \A i, j \in 1 .. Len(q) : q[i] = q[j] => i = j
    BY DEF Good, Exact, Broker
  <2> HIDE DEF q
  <2>3. /\ w \in Seq(Ids)
        /\ \A x \in Ids : (\E i \in 1 .. Len(w) : w[i] = x)
                            <=> (x # id /\ \E i \in 1 .. Len(q) : q[i] = x)
        /\ \A i, j \in 1 .. Len(w) : w[i] = w[j] => i = j
    BY <2>2, WithoutFacts
  <2> HIDE DEF w
  <2>4. c \in Broker
    <3>1. [b.op EXCEPT ![id] = "none"] \in [Ids -> States]
      BY SetStateType, Zenon DEF Good, States
    <3> QED BY <2>1, <2>3, <3>1, Zenon DEF Good, Broker
  <2>5. /\ c.completions = w /\ c.next_id = b.next_id
        /\ \A x \in Ids : c.op[x] = IF x = id THEN "none" ELSE b.op[x]
    BY <2>1 DEF Good, Broker
  <2> HIDE DEF c
  <2>6. \A x \in Ids : b.op[x] = "queued" <=> \E i \in 1 .. Len(q) : q[i] = x
    BY DEF Good, Exact, q
  <2>7. \A x \in Ids : c.op[x] = "queued" <=> \E i \in 1 .. Len(w) : w[i] = x
    BY <2>3, <2>5, <2>6, Zenon
  <2>8. \A x \in Ids : x >= c.next_id => c.op[x] = "none"
    BY <2>5 DEF Good, Exact
  <2>9. Good(c)
    BY <2>3, <2>4, <2>5, <2>7, <2>8 DEF Good, Exact
  <2> QED BY <2>9 DEF c
<1>3. CASE b.op[id] \notin {"pending", "queued", "drained"}
  BY <1>3 DEF Freed
<1> QED BY <1>1, <1>2, <1>3

\* drain keeps it exact: the id at the head is queued, so it leaves queue and state at once.
LEMMA DrainedGood ==
  ASSUME NEW b, Good(b), b.completions # <<>>
  PROVE  Good(DrainedOne(b))
<1> DEFINE c == DrainedOne(b)
           q == b.completions
           id == Head(q)
<1>1. q \in Seq(Ids) /\ q # <<>> /\ Len(q) \in Nat /\ Len(q) >= 1
  BY DEF Good, Broker
<1>2. id = q[1] /\ id \in Ids
  BY <1>1
<1>3. b.op[id] = "queued"
  BY <1>1, <1>2 DEF Good, Exact
<1>4. c = [b EXCEPT !.op[id] = "drained", !.completions = Tail(q)]
  BY <1>3 DEF DrainedOne, Good, Broker
<1>5. Tail(q) \in Seq(Ids) /\ Len(Tail(q)) = Len(q) - 1
  <2> HIDE DEF q
  <2>1. Len(Tail(q)) = Len(q) - 1
    BY <1>1
  <2>2. Tail(q) \in Seq(Ids)
    BY <1>1
  <2> QED BY <2>1, <2>2
<1>6. \A i \in 1 .. (Len(q) - 1) : Tail(q)[i] = q[i + 1]
  BY <1>1
<1>7. c \in Broker
  <2>1. [b.op EXCEPT ![id] = "drained"] \in [Ids -> States]
    BY <1>2, SetStateType, Zenon DEF Good, States
  <2> QED BY <1>4, <1>5, <2>1, Zenon DEF Good, Broker
<1>8. /\ c.completions = Tail(q) /\ c.next_id = b.next_id
      /\ \A x \in Ids : c.op[x] = IF x = id THEN "drained" ELSE b.op[x]
  BY <1>2, <1>4 DEF Good, Broker
<1> HIDE DEF c
<1>9. /\ \A x \in Ids : b.op[x] = "queued" <=> \E i \in 1 .. Len(q) : q[i] = x
      /\ \A i, j \in 1 .. Len(q) : q[i] = q[j] => i = j
      /\ \A x \in Ids : x >= b.next_id => b.op[x] = "none"
  BY DEF Good, Exact
<1> HIDE DEF q, id
<1>10. ASSUME NEW x \in Ids
       PROVE c.op[x] = "queued" <=> \E i \in 1 .. Len(Tail(q)) : Tail(q)[i] = x
  <2>1. ASSUME NEW i \in 1 .. Len(Tail(q)), Tail(q)[i] = x
        PROVE  c.op[x] = "queued"
    <3>1. i + 1 \in 1 .. Len(q) /\ q[i + 1] = x /\ 1 \in 1 .. Len(q) /\ i + 1 # 1
      BY <2>1, <1>1, <1>5, <1>6
    <3>2. x # id
      BY <3>1, <1>2, <1>9
    <3> QED BY <3>1, <3>2, <1>8, <1>9
  <2>2. ASSUME c.op[x] = "queued"
        PROVE  \E i \in 1 .. Len(Tail(q)) : Tail(q)[i] = x
    <3>1. x # id /\ b.op[x] = "queued"
      BY <2>2, <1>8
    <3>2. PICK i \in 1 .. Len(q) : q[i] = x
      BY <3>1, <1>9
    <3>3. i # 1
      BY <3>1, <3>2, <1>2
    <3>4. i - 1 \in 1 .. Len(Tail(q)) /\ Tail(q)[i - 1] = q[(i - 1) + 1] /\ (i - 1) + 1 = i
      BY <3>3, <1>1, <1>5, <1>6
    <3> QED BY <3>2, <3>4, Zenon
  <2> QED BY <2>1, <2>2
<1>11. ASSUME NEW i \in 1 .. Len(Tail(q)), NEW j \in 1 .. Len(Tail(q)), Tail(q)[i] = Tail(q)[j]
       PROVE  i = j
  <2>1. i + 1 \in 1 .. Len(q) /\ j + 1 \in 1 .. Len(q) /\ q[i + 1] = q[j + 1]
    BY <1>11, <1>1, <1>5, <1>6, SMTT(20)
  <2>2. i + 1 = j + 1
    BY <2>1, <1>9
  <2> QED BY <2>2, <1>5, <1>1
<1>12. \A x \in Ids : x >= c.next_id => c.op[x] = "none"
  BY <1>3, <1>8, <1>9
<1>13. Good(c)
  BY <1>7, <1>8, <1>10, <1>11, <1>12 DEF Good, Exact
<1> QED BY <1>13 DEF c

\* take_with and discard_all keep it exact: what they remove is in no queue afterwards.
LEMMA RemovedGood ==
  ASSUME NEW b, Good(b)
  PROVE  /\ \A id \in Ids : CanTake(b, id) => Good(Taken(b, id))
         /\ Good(Discarded(b))
<1>1. ASSUME NEW id \in Ids, CanTake(b, id)
      PROVE  Good(Taken(b, id))
  <2>1. Taken(b, id) \in Broker
    <3>1. [b.op EXCEPT ![id] = "none"] \in [Ids -> States]
      BY SetStateType, Zenon DEF Good, States
    <3> QED BY <3>1, Zenon DEF Good, Broker, Taken
  <2>2. /\ Taken(b, id).completions = b.completions /\ Taken(b, id).next_id = b.next_id
        /\ \A x \in Ids : Taken(b, id).op[x] = IF x = id THEN "none" ELSE b.op[x]
    BY DEF Good, Broker, Taken
  <2> QED BY <1>1, <2>1, <2>2 DEF Good, Exact, CanTake
<1>2. Good(Discarded(b))
  <2>1. Discarded(b) \in Broker
    <3>1. [x \in Ids |-> "none"] \in [Ids -> States] /\ <<>> \in Seq(Ids)
      BY DEF States
    <3> QED BY <3>1, Zenon DEF Good, Broker, Discarded
  <2>2. Discarded(b).completions = <<>> /\ \A x \in Ids : Discarded(b).op[x] = "none"
    BY DEF Good, Broker, Discarded
  <2> QED BY <2>1, <2>2 DEF Good, Exact
<1> QED BY <1>1, <1>2

\* How the map of a broker may change in one step, however many calls the step makes: an
\* operation moves forward, and only admit makes one, with the next id and below the limit.
Moves(b, c) ==
  \A id \in Ids :
    IF b.op[id] = "none" THEN \/ c.op[id] = "none"
                              \/ c.op[id] = "pending" /\ id = b.next_id /\ CanAdmit(b)
    ELSE Rank(c.op[id]) >= Rank(b.op[id])

\* Such a step reuses no id: those below the counter that are gone stay gone.
LEMMA MovesForward ==
  ASSUME Good(broker), Moves(broker, broker')
  PROVE  \A id \in Ids : IF id < broker.next_id THEN Rank(broker'.op[id]) >= Rank(broker.op[id])
                         ELSE broker'.op[id] \in {"none", "pending"}
<1> SUFFICES ASSUME NEW id \in Ids
             PROVE  IF id < broker.next_id THEN Rank(broker'.op[id]) >= Rank(broker.op[id])
                    ELSE broker'.op[id] \in {"none", "pending"}
  OBVIOUS
<1>1. broker.next_id \in Nat /\ (~(id < broker.next_id) => broker.op[id] = "none")
  BY DEF Good, Exact, Broker
<1>2. CASE broker.op[id] = "none"
  BY <1>1, <1>2 DEF Moves, Rank
<1>3. CASE broker.op[id] # "none"
  BY <1>1, <1>3 DEF Moves
<1> QED BY <1>2, <1>3

\* Each method of the broker is such a step, and so is none.
LEMMA MethodsMove ==
  ASSUME NEW b, Good(b)
  PROVE  /\ CanAdmit(b) => Moves(b, Admitted(b))
         /\ b.completions # <<>> => Moves(b, DrainedOne(b))
         /\ Moves(b, Discarded(b)) /\ Moves(b, b)
         /\ \A id \in Ids : /\ \A cancel \in BOOLEAN : Moves(b, Resolved(b, id, cancel))
                            /\ Moves(b, Freed(b, id))
                            /\ CanTake(b, id) => Moves(b, Taken(b, id))
<1> USE DEF Good, Broker, Rank, States
<1>0. b.op \in [Ids -> States] /\ b.next_id \in Nat
  OBVIOUS
<1>1. ASSUME CanAdmit(b) PROVE Moves(b, Admitted(b))
  <2>1. \A x \in Ids : Admitted(b).op[x] = IF x = b.next_id THEN "pending" ELSE b.op[x]
    BY DEF Admitted
  <2>2. b.next_id \in Ids => b.op[b.next_id] = "none"
    BY DEF Exact
  <2> QED BY <1>0, <1>1, <2>1, <2>2 DEF Moves
<1>2. ASSUME b.completions # <<>> PROVE Moves(b, DrainedOne(b))
  <2>1. \A x \in Ids : DrainedOne(b).op[x] = IF x = Head(b.completions) /\ b.op[x] = "queued" THEN "drained"
                                             ELSE b.op[x]
    BY DEF DrainedOne
  <2> QED BY <1>0, <2>1 DEF Moves
<1>3. Moves(b, Discarded(b)) /\ Moves(b, b)
  BY <1>0 DEF Moves, Discarded
<1>4. ASSUME NEW id \in Ids, NEW cancel \in BOOLEAN PROVE Moves(b, Resolved(b, id, cancel))
  <2>1. \A x \in Ids : \/ Resolved(b, id, cancel).op[x] = b.op[x]
                       \/ b.op[x] = "pending" /\ Resolved(b, id, cancel).op[x] = "queued"
                       \/ b.op[x] = "discarding" /\ Resolved(b, id, cancel).op[x] = "none"
    BY DEF Resolved
  <2> QED BY <1>0, <2>1 DEF Moves
<1>5. ASSUME NEW id \in Ids PROVE Moves(b, Freed(b, id))
  <2>1. \A x \in Ids : \/ Freed(b, id).op[x] = b.op[x]
                       \/ b.op[x] = "pending" /\ Freed(b, id).op[x] = "discarding"
                       \/ b.op[x] \in {"queued", "drained"} /\ Freed(b, id).op[x] = "none"
    BY DEF Freed
  <2> QED BY <1>0, <2>1 DEF Moves
<1>6. ASSUME NEW id \in Ids, CanTake(b, id) PROVE Moves(b, Taken(b, id))
  <2>1. \A x \in Ids : Taken(b, id).op[x] = IF x = id THEN "none" ELSE b.op[x]
    BY DEF Taken
  <2>2. b.op[id] = "drained"
    BY <1>6 DEF CanTake
  <2> QED BY <1>0, <2>1, <2>2 DEF Moves
<1> QED BY <1>1, <1>2, <1>3, <1>4, <1>5, <1>6, Zenon

-----------------------------------------------------------------------------
(* The tables of the session. *)

\* The kinds of operation, and what the tables say of them.
LEMMA KindFacts ==
  /\ \A k \in DOMAIN Needs : Needs[k] \in {"none", "tcp", "listener", "udp"}
                             /\ Creates[k] \in {"none", "tcp", "listener", "udp"}
  /\ NoMeta \in Meta /\ NoMeta.target = 0 /\ NoMeta.bytes = 0 /\ NoMeta.reserves = FALSE
  /\ Closed \in Entry /\ Closed.type = "none" /\ Closed.pending = {}
<1>1. DOMAIN Needs = {"tcp_connect", "tcp_bind", "udp_bind", "tcp_accept", "tcp_read",
                      "tcp_write", "tcp_shutdown", "udp_receive", "udp_send"}
  BY DEF Needs
<1>2. \A k \in DOMAIN Needs : Needs[k] \in {"none", "tcp", "listener", "udp"}
                              /\ Creates[k] \in {"none", "tcp", "listener", "udp"}
  BY <1>1 DEF Needs, Creates
<1>3. NoMeta \in Meta
  BY <1>1, SessionAssumption DEF NoMeta, Meta
<1> QED BY <1>2, <1>3 DEF NoMeta, Closed, Entry

\* The types of the tables and the waiters; the two counters come with the sums below.
TabTypes ==
  /\ broker \in Broker
  /\ lifecycle \in {"created", "running", "stopped"}
  /\ entries \in [Resources -> Entry]
  /\ next_resource \in 1 .. MaxResourceId
  /\ meta \in [Ids -> Meta]
  /\ created \in [Ids -> 0 .. MaxResourceId]
  /\ task \in [Ids -> {"none", "running", "cancelled"}]
  /\ handed \subseteq Resources

\* What the session keeps of one operation: a future that was not told to stop has a pending
\* operation, a pending operation is linked to its target, and only what can still be taken or
\* freed keeps bytes or the id of a resource.
OpInv(id) ==
  /\ task[id] = "running" => broker.op[id] = "pending"
  /\ broker.op[id] = "pending" =>
       /\ meta[id].reserves <=> Creates[meta[id].kind] # "none"
       /\ meta[id].target # 0 => /\ meta[id].target \in Resources
                                 /\ id \in entries[meta[id].target].pending
  /\ broker.op[id] # "pending" => ~meta[id].reserves
  /\ ~Holding(id) => meta[id].bytes = 0
  /\ created[id] # 0 => broker.op[id] \in {"queued", "drained"} /\ created[id] < next_resource

\* What it keeps of one resource: only pending operations are linked to it, ids from the
\* counter on are unused, and an open resource is the host's or an outcome's.
ResInv(r) ==
  /\ \A id \in entries[r].pending : broker.op[id] = "pending" /\ meta[id].target = r
  /\ entries[r].type = "none" => entries[r].pending = {}
  /\ r >= next_resource => entries[r].type = "none"
  /\ r \in handed => entries[r].type # "none"
  /\ entries[r].type # "none" /\ r \notin handed => \E id \in Ids : created[id] = r

\* No resource is in two outcomes.
OneHolder == \A i, j \in Ids : created[i] = created[j] /\ created[i] # 0 => i = j

TabInv ==
  /\ TabTypes /\ Good(broker) /\ OneHolder
  /\ \A id \in Ids : OpInv(id)
  /\ \A r \in Resources : ResInv(r)

\* How an operation of S leaves it: a pending one is answered or given up, another one freed.
Leaves(id) ==
  \/ broker.op[id] = "pending" /\ broker'.op[id] \in {"queued", "discarding"}
  \/ broker.op[id] \in {"queued", "drained"} /\ broker'.op[id] = "none"

\* What settling the operations of S and closing the resources of C asks of the rest of a
\* step: exactly S leaves, whoever is linked to a closed resource is in S, and a freed outcome
\* takes its resource with it.
SettleStep(S, C) ==
  /\ meta' = [id \in Ids |-> IF id \in S THEN NoMeta ELSE meta[id]]
  /\ entries' = [r \in Resources |->
       IF r \in C THEN Closed
       ELSE [entries[r] EXCEPT !.pending = @ \ {id \in S : meta[id].target = r}]]
  /\ handed' = handed \ C
  /\ Good(broker')
  /\ \A id \in Ids : IF id \in S THEN Leaves(id) ELSE broker'.op[id] = broker.op[id]
  /\ \A r \in Resources : r \in C => entries[r].pending \subseteq S
  /\ created' \in [Ids -> 0 .. MaxResourceId]
  /\ \A id \in Ids : created'[id] = IF broker'.op[id] \in {"queued", "drained"} THEN created[id] ELSE 0
  /\ \A id \in S : broker'.op[id] = "none" /\ created[id] \in Resources /\ created[id] \notin C =>
       entries[created[id]].type = "none"
  /\ task' \in [Ids -> {"none", "running", "cancelled"}]
  /\ \A id \in Ids : task'[id] = "running" => task[id] = "running" /\ id \notin S
  /\ next_resource' = next_resource

\* The entries and the metadata after settling, one at a time.
LEMMA SettleValues ==
  ASSUME TabTypes, NEW S \in SUBSET Ids, NEW C, SettleStep(S, C)
  PROVE  /\ \A id \in Ids : meta'[id] = IF id \in S THEN NoMeta ELSE meta[id]
         /\ \A r \in Resources :
              /\ entries'[r].type = IF r \in C THEN "none" ELSE entries[r].type
              /\ entries'[r].pending = IF r \in C THEN {}
                                       ELSE entries[r].pending \ {id \in S : meta[id].target = r}
         /\ meta' \in [Ids -> Meta] /\ entries' \in [Resources -> Entry]
         /\ handed' \subseteq Resources
<1>1. \A id \in Ids : meta'[id] = IF id \in S THEN NoMeta ELSE meta[id]
  BY Zenon DEF SettleStep
<1>2. meta' \in [Ids -> Meta]
  BY KindFacts DEF SettleStep, TabTypes
<1>3. ASSUME NEW r \in Resources
      PROVE  /\ entries'[r].type = IF r \in C THEN "none" ELSE entries[r].type
             /\ entries'[r].pending = IF r \in C THEN {}
                                      ELSE entries[r].pending \ {id \in S : meta[id].target = r}
             /\ entries'[r] \in Entry
  <2> DEFINE e == [entries[r] EXCEPT !.pending = @ \ {id \in S : meta[id].target = r}]
  <2>1. entries'[r] = IF r \in C THEN Closed ELSE e
    BY Zenon DEF SettleStep
  <2>2. entries[r] \in Entry
    BY DEF TabTypes
  <2>3. e.type = entries[r].type /\ e.pending = entries[r].pending \ {id \in S : meta[id].target = r}
        /\ e \in Entry
    BY <2>2 DEF Entry
  <2> QED BY <2>1, <2>3, KindFacts, Zenon
<1>4. entries' \in [Resources -> Entry]
  <2>1. entries' = [r \in Resources |-> entries'[r]]
    BY Zenon DEF SettleStep
  <2> QED BY <1>3, <2>1, Zenon
<1>5. handed' \subseteq Resources
  BY DEF SettleStep, TabTypes
<1> QED BY <1>1, <1>2, <1>3, <1>4, <1>5, Zenon

\* Settling keeps the tables in order.
LEMMA SettleKeeps ==
  ASSUME TabInv, NEW S \in SUBSET Ids, NEW C, SettleStep(S, C),
         lifecycle' \in {"created", "running", "stopped"}
  PROVE  TabInv'
<1> USE DEF TabInv
<1>0. /\ \A id \in Ids : meta'[id] = IF id \in S THEN NoMeta ELSE meta[id]
      /\ \A r \in Resources :
           /\ entries'[r].type = IF r \in C THEN "none" ELSE entries[r].type
           /\ entries'[r].pending = IF r \in C THEN {}
                                    ELSE entries[r].pending \ {id \in S : meta[id].target = r}
      /\ meta' \in [Ids -> Meta] /\ entries' \in [Resources -> Entry]
      /\ handed' \subseteq Resources
  BY SettleValues, Zenon
<1>1. TabTypes'
  BY <1>0 DEF TabTypes, SettleStep, Good
<1>2. ASSUME NEW id \in Ids PROVE OpInv(id)'
  <2>1. CASE id \in S
    <3>1. meta'[id] = NoMeta /\ broker'.op[id] # "pending" /\ task'[id] # "running"
      BY <2>1, <1>0 DEF SettleStep, Leaves
    <3>2. created'[id] # 0 => broker'.op[id] \in {"queued", "drained"} /\ created'[id] = created[id]
      BY DEF SettleStep
    <3>3. OpInv(id)
      OBVIOUS
    <3> QED BY <3>1, <3>2, <3>3, KindFacts DEF OpInv, SettleStep
  <2>2. CASE id \notin S
    <3>1. meta'[id] = meta[id] /\ broker'.op[id] = broker.op[id] /\ (task'[id] = "running" => task[id] = "running")
      BY <2>2, <1>0 DEF SettleStep
    <3>2. created'[id] # 0 => broker'.op[id] \in {"queued", "drained"} /\ created'[id] = created[id]
      BY DEF SettleStep
    <3>3. OpInv(id)
      OBVIOUS
    <3>4. ASSUME meta[id].target \in Resources, id \in entries[meta[id].target].pending
          PROVE  id \in entries'[meta[id].target].pending
      BY <3>4, <2>2, <1>0 DEF SettleStep
    <3> QED BY <3>1, <3>2, <3>3, <3>4 DEF OpInv, SettleStep, Holding
  <2> QED BY <2>1, <2>2
<1>3. ASSUME NEW r \in Resources PROVE ResInv(r)'
  <2>1. ResInv(r) /\ next_resource' = next_resource
    BY DEF SettleStep
  <2>2. CASE r \in C
    BY <2>1, <2>2, <1>0, Zenon DEF ResInv, SettleStep
  <2>3. CASE r \notin C
    <3>1. ASSUME NEW id \in entries'[r].pending PROVE broker'.op[id] = "pending" /\ meta'[id].target = r
      <4>0. id \in entries[r].pending
        BY <2>3, <1>0, Zenon
      <4>1. id \in Ids /\ broker.op[id] = "pending" /\ meta[id].target = r
        BY <2>1, <4>0 DEF ResInv, Entry, TabTypes
      <4>2. id \notin S
        BY <4>0, <4>1, <2>3, <1>0, Zenon
      <4> QED BY <4>1, <4>2, <1>0 DEF SettleStep
    <3>2. ASSUME entries[r].type # "none", r \notin handed PROVE \E id \in Ids : created'[id] = r
      <4>1. PICK id \in Ids : created[id] = r
        BY <2>1, <3>2 DEF ResInv
      <4>2. broker.op[id] \in {"queued", "drained"}
        BY <4>1, SessionAssumption DEF OpInv, Resources
      <4>3. id \in S => broker'.op[id] # "none"
        BY <4>1, <3>2, <2>3 DEF SettleStep
      <4>4. broker'.op[id] \in {"queued", "drained"}
        BY <4>2, <4>3 DEF SettleStep, Leaves
      <4> QED BY <4>1, <4>4 DEF SettleStep
    <3>3. entries'[r].type = entries[r].type /\ entries'[r].pending \subseteq entries[r].pending
      BY <2>3, <1>0, Zenon
    <3>4. r \in handed' <=> r \in handed
      BY <2>3 DEF SettleStep
    <3> QED BY <2>1, <3>1, <3>2, <3>3, <3>4 DEF ResInv
  <2> QED BY <2>2, <2>3
<1>4. OneHolder'
  BY DEF OneHolder, SettleStep
<1>5. Good(broker')
  BY DEF SettleStep
<1> QED BY <1>1, <1>2, <1>3, <1>4, <1>5

\* submit_* links the new operation to its resource; the id is one nobody has used.
LEMMA SubmitKeeps ==
  ASSUME TabInv, NEW kind \in Kinds, NEW r \in Resources \cup {0}, NEW bytes \in Sizes,
         Submit(kind, r, bytes)
  PROVE  TabInv'
<1> USE DEF TabInv
<1> DEFINE id == broker.next_id
<1>1. /\ id \in Ids /\ broker.op[id] = "none" /\ broker.op \in [Ids -> States]
      /\ \A x \in Ids : broker'.op[x] = IF x = id THEN "pending" ELSE broker.op[x]
  <2>1. broker' = Admitted(broker) /\ CanAdmit(broker)
    BY DEF Submit, Admits
  <2>2. id \in Ids /\ broker.op[id] = "none"
    BY <2>1 DEF Good, Exact, Broker, CanAdmit
  <2> QED BY <2>1, <2>2 DEF Admitted, Good, Broker
<1>2. Good(broker')
  BY AdmittedGood DEF Submit, Admits
<1> DEFINE mt == [kind |-> kind, target |-> r, bytes |-> bytes, reserves |-> Creates[kind] # "none"]
<1>3. mt \in Meta /\ mt.target = r /\ (mt.reserves <=> Creates[mt.kind] # "none")
  <2>1. mt.reserves = (Creates[kind] # "none") /\ mt.kind = kind /\ mt.target = r /\ mt.bytes = bytes
    BY Zenon
  <2>2. kind \in DOMAIN Needs /\ r \in 0 .. MaxResourceId /\ bytes \in Nat
    BY SessionAssumption DEF Resources
  <2>3. mt \in Meta
    BY <2>2, Zenon DEF Meta
  <2> QED BY <2>1, <2>3, Zenon
<1>4. \A x \in Ids : meta'[x] = IF x = id THEN mt ELSE meta[x]
  BY <1>1 DEF Submit, TabTypes
<1>5. meta' \in [Ids -> Meta]
  BY <1>1, <1>3, Zenon DEF Submit, TabTypes
<1> HIDE DEF mt
<1>6. /\ entries' \in [Resources -> Entry]
      /\ \A i \in Resources :
           /\ entries'[i].type = entries[i].type
           /\ entries'[i].pending = IF i = r THEN entries[i].pending \cup {id} ELSE entries[i].pending
  <2>1. CASE r = 0
    BY <2>1 DEF Submit, TabTypes, Resources
  <2>2. CASE r \in Resources
    <3>1. entries' = [entries EXCEPT ![r].pending = @ \cup {id}]
      BY <2>2 DEF Submit, Resources
    <3> QED BY <3>1, <2>2, <1>1, ZenonT(30) DEF TabTypes, Entry
  <2> QED BY <2>1, <2>2, Zenon
<1>7. r # 0 => entries[r].type # "none"
  <2>1. Needs[kind] \in {"none", "tcp", "listener", "udp"}
    BY KindFacts, SessionAssumption
  <2> QED BY <2>1 DEF Submit
<1>8. /\ task' \in [Ids -> {"none", "running", "cancelled"}]
      /\ \A x \in Ids : x # id => task'[x] = task[x]
  BY <1>1 DEF Submit, TabTypes
<1>9. UNCHANGED <<lifecycle, next_resource, created, handed>>
  BY DEF Submit
<1>10. TabTypes'
  BY <1>2, <1>5, <1>6, <1>8, <1>9 DEF TabTypes, Good
<1>11. ASSUME NEW x \in Ids PROVE OpInv(x)'
  <2>1. OpInv(x)
    OBVIOUS
  <2>2. CASE x = id
    <3>1. meta'[x] = mt /\ broker'.op[x] = "pending" /\ created'[x] = 0
      BY <2>1, <2>2, <1>1, <1>4, <1>9 DEF OpInv
    <3>2. r # 0 => r \in Resources /\ x \in entries'[r].pending
      BY <2>2, <1>6, Zenon
    <3> QED BY <3>1, <3>2, <1>3 DEF OpInv, Holding
  <2>3. CASE x # id
    <3>1. meta'[x] = meta[x] /\ broker'.op[x] = broker.op[x] /\ task'[x] = task[x] /\ created'[x] = created[x]
      BY <2>3, <1>1, <1>4, <1>8, <1>9
    <3>2. \A i \in Resources : x \in entries[i].pending => x \in entries'[i].pending
      BY <1>6, Zenon
    <3> QED BY <2>1, <3>1, <3>2, <1>9 DEF OpInv, Holding
  <2> QED BY <2>2, <2>3
<1>12. ASSUME NEW i \in Resources PROVE ResInv(i)'
  <2>1. ResInv(i)
    OBVIOUS
  <2>2. ASSUME NEW x \in entries'[i].pending PROVE broker'.op[x] = "pending" /\ meta'[x].target = i
    <3>1. CASE x = id
      <4>1. x \notin entries[i].pending
        BY <2>1, <3>1, <1>1 DEF ResInv
      <4> QED BY <4>1, <3>1, <1>1, <1>3, <1>4, <1>6, Zenon
    <3>2. CASE x # id
      <4>1. x \in entries[i].pending
        BY <3>2, <1>6, Zenon
      <4>2. x \in Ids
        BY <4>1 DEF TabTypes, Entry
      <4> QED BY <4>1, <4>2, <2>1, <3>2, <1>1, <1>4 DEF ResInv
    <3> QED BY <3>1, <3>2
  <2>3. entries'[i].type = "none" => entries'[i].pending = {}
    <3> SUFFICES ASSUME entries'[i].type = "none" PROVE entries'[i].pending = {}
      OBVIOUS
    <3>1. i # r
      <4>1. entries[i].type = "none"
        BY <1>6, Zenon
      <4>2. i # 0
        BY SessionAssumption DEF Resources
      <4> QED BY <4>1, <4>2, <1>7
    <3> QED BY <2>1, <3>1, <1>6, Zenon DEF ResInv
  <2> QED BY <2>1, <2>2, <2>3, <1>6, <1>9, Zenon DEF ResInv
<1>13. OneHolder'
  BY <1>9 DEF OneHolder
<1> QED BY <1>2, <1>10, <1>11, <1>12, <1>13

\* finalize_success_locked: the operation is unlinked, and a new resource enters the table
\* under an id nobody has used, held by this outcome alone.
LEMMA FinalizeKeeps ==
  ASSUME TabInv, NEW id \in Ids, broker.op[id] = "pending", NEW kept \in Kept(id),
         Creates[meta[id].kind] # "none" => next_resource < MaxResourceId,
         Finalize(id, kept), broker' = Resolved(broker, id, FALSE),
         task' = [task EXCEPT ![id] = "none"], lifecycle' = lifecycle
  PROVE  TabInv'
<1> USE DEF TabInv
<1> DEFINE type == Creates[meta[id].kind]
           r == IF type = "none" THEN 0 ELSE next_resource
<1>1. /\ Good(broker')
      /\ \A x \in Ids : broker'.op[x] = IF x = id THEN "queued" ELSE broker.op[x]
  <2>1. Good(broker')
    BY ResolvedGood, Zenon
  <2> QED BY <2>1 DEF Resolved, Good, Broker
<1>2. meta[id] \in Meta /\ OpInv(id) /\ type \in {"none", "tcp", "listener", "udp"}
  BY KindFacts DEF TabTypes, Meta
<1>3. kept \in Nat
  BY <1>2 DEF Kept, Meta
<1>4. /\ r \in 0 .. MaxResourceId /\ (r # 0 => r \in Resources /\ r = next_resource /\ type # "none")
      /\ next_resource' \in 1 .. MaxResourceId /\ next_resource \in Nat
      /\ next_resource' = IF r = 0 THEN next_resource ELSE next_resource + 1
  BY <1>2, SessionAssumption DEF Finalize, TabTypes, Resources
<1>5. created' = [created EXCEPT ![id] = r] /\ handed' = handed
  BY DEF Finalize
<1>6. /\ meta' \in [Ids -> Meta] /\ meta'[id].reserves = FALSE
      /\ \A x \in Ids : x # id => meta'[x] = meta[x]
  <2>1. [NoMeta EXCEPT !.bytes = kept] \in Meta /\ [NoMeta EXCEPT !.bytes = kept].reserves = FALSE
    BY <1>3, KindFacts DEF Meta
  <2>2. meta' = [meta EXCEPT ![id] = [NoMeta EXCEPT !.bytes = kept]]
    BY DEF Finalize
  <2> QED BY <2>1, <2>2, Zenon DEF TabTypes
<1>7. ASSUME NEW i \in Resources
      PROVE  /\ entries'[i] \in Entry
             /\ i = r => entries'[i].type = type /\ entries'[i].pending = {}
             /\ i # r => entries'[i].type = entries[i].type
             /\ i # r => entries'[i].pending = IF i = meta[id].target THEN entries[i].pending \ {id}
                                               ELSE entries[i].pending
  <2>1. entries'[i] = IF i = r THEN [type |-> type, pending |-> {}]
                      ELSE IF i = meta[id].target THEN [entries[i] EXCEPT !.pending = @ \ {id}]
                      ELSE entries[i]
    BY Zenon DEF Finalize
  <2>2. entries[i] \in Entry
    BY DEF TabTypes
  <2> HIDE DEF type
  <2> QED BY <2>1, <2>2, <1>2 DEF Entry
<1>8. entries' \in [Resources -> Entry]
  <2>1. entries' = [i \in Resources |-> entries'[i]]
    BY Zenon DEF Finalize
  <2> QED BY <2>1, <1>7, Zenon
<1> HIDE DEF r, type
<1>9. TabTypes'
  <2>1. created' \in [Ids -> 0 .. MaxResourceId]
    BY <1>4, <1>5 DEF TabTypes
  <2> QED BY <2>1, <1>1, <1>4, <1>5, <1>6, <1>8, Zenon DEF TabTypes, Good
<1>10. r # 0 => entries[r].type = "none" /\ \A x \in Ids : created[x] # r
  <2> SUFFICES ASSUME r # 0 PROVE entries[r].type = "none" /\ \A x \in Ids : created[x] # r
    OBVIOUS
  <2>1. r \in Resources /\ r = next_resource /\ next_resource \in Nat
    BY <1>4 DEF TabTypes
  <2>2. ResInv(r) /\ \A x \in Ids : OpInv(x) /\ created[x] \in Nat
    BY <2>1, SessionAssumption DEF TabTypes
  <2> QED BY <2>1, <2>2 DEF ResInv, OpInv
<1>11. \A x \in Ids : created'[x] = IF x = id THEN r ELSE created[x]
  BY <1>5 DEF TabTypes
<1>12. ASSUME NEW x \in Ids PROVE OpInv(x)'
  <2>1. OpInv(x)
    OBVIOUS
  <2>2. CASE x = id
    <3>1. broker'.op[x] = "queued" /\ task'[x] = "none" /\ meta'[x].reserves = FALSE
      BY <2>2, <1>1, <1>6, Zenon DEF TabTypes
    <3>2. created'[x] # 0 => created'[x] < next_resource'
      BY <2>2, <1>4, <1>11
    <3> QED BY <3>1, <3>2, Zenon DEF OpInv, Holding
  <2>3. CASE x # id
    <3>1. meta'[x] = meta[x] /\ broker'.op[x] = broker.op[x] /\ task'[x] = task[x] /\ created'[x] = created[x]
      BY <2>3, <1>1, <1>6, <1>11, Zenon DEF TabTypes
    <3>2. \A i \in Resources : x \in entries[i].pending => x \in entries'[i].pending
      <4> SUFFICES ASSUME NEW i \in Resources, x \in entries[i].pending PROVE x \in entries'[i].pending
        OBVIOUS
      <4>1. i # r
        <5>1. ResInv(i) /\ i # 0
          BY SessionAssumption DEF Resources
        <5> QED BY <5>1, <1>10 DEF ResInv
      <4> QED BY <4>1, <1>7, <2>3, Zenon
    <3>3. created[x] # 0 => created[x] < next_resource'
      BY <2>1, <1>4 DEF OpInv, TabTypes
    <3> QED BY <2>1, <3>1, <3>2, <3>3, Zenon DEF OpInv, Holding
  <2> QED BY <2>2, <2>3
<1>13. ASSUME NEW i \in Resources PROVE ResInv(i)'
  <2>1. ResInv(i) /\ i \in Nat
    BY DEF Resources
  <2>2. CASE i = r
    <3>1. r # 0 /\ type # "none"
      BY <2>2, <1>4, SessionAssumption DEF Resources
    <3>2. i < next_resource' /\ i \notin handed
      BY <2>1, <2>2, <3>1, <1>4, <1>10 DEF ResInv
    <3>3. created'[id] = i
      BY <2>2, <1>11
    <3>4. entries'[i].type = type /\ entries'[i].pending = {}
      BY <2>2, <1>7, Zenon
    <3>5. ~(i >= next_resource')
      BY <3>2, <1>4, <2>1
    <3> QED BY <3>1, <3>2, <3>3, <3>4, <3>5, <1>5 DEF ResInv
  <2>3. CASE i # r
    <3>1. ASSUME NEW x \in entries'[i].pending PROVE broker'.op[x] = "pending" /\ meta'[x].target = i
      <4>1. x \in entries[i].pending
        BY <2>3, <1>7, Zenon
      <4>2. x \in Ids /\ broker.op[x] = "pending" /\ meta[x].target = i
        BY <2>1, <4>1 DEF ResInv, TabTypes, Entry
      <4>3. x # id
        <5>1. CASE x = id
          BY <5>1, <4>2, <2>3, <1>7, Zenon
        <5> QED BY <5>1
      <4> QED BY <4>2, <4>3, <1>1, <1>6, Zenon
    <3>2. entries'[i].type = entries[i].type /\ entries'[i].pending \subseteq entries[i].pending
      BY <2>3, <1>7, Zenon
    <3>3. ASSUME entries[i].type # "none", i \notin handed PROVE \E x \in Ids : created'[x] = i
      <4>1. PICK x \in Ids : created[x] = i
        BY <2>1, <3>3 DEF ResInv
      <4>2. x # id
        BY <4>1, SessionAssumption DEF OpInv, Resources
      <4> QED BY <4>1, <4>2, <1>11
    <3>4. i >= next_resource' => i >= next_resource
      BY <2>1, <1>4
    <3> QED BY <2>1, <3>1, <3>2, <3>3, <3>4, <1>5, Zenon DEF ResInv
  <2> QED BY <2>2, <2>3
<1>14. OneHolder'
  BY <1>10, <1>11 DEF OneHolder
<1> QED BY <1>1, <1>9, <1>12, <1>13, <1>14, Zenon

\* drain moves one operation from the queue to the drained ones, and nothing of the tables.
LEMMA DrainKeeps ==
  ASSUME TabInv, DrainCompletion
  PROVE  TabInv'
<1> USE DEF TabInv
<1>1. Good(broker')
  BY DrainedGood DEF DrainCompletion, Drain
<1>2. \A x \in Ids : \/ broker'.op[x] = broker.op[x]
                     \/ broker.op[x] = "queued" /\ broker'.op[x] = "drained"
  <2>1. broker' = DrainedOne(broker)
    BY DEF DrainCompletion, Drain
  <2> QED BY <2>1 DEF DrainedOne, Good, Broker
<1>3. UNCHANGED <<lifecycle, entries, next_resource, meta, created, task, handed>>
  BY DEF DrainCompletion, session
<1>4. TabTypes'
  BY <1>1, <1>3 DEF TabTypes, Good
<1>5. ASSUME NEW x \in Ids PROVE OpInv(x)'
  <2>1. OpInv(x)
    OBVIOUS
  <2> QED BY <2>1, <1>2, <1>3 DEF OpInv, Holding
<1>6. ASSUME NEW r \in Resources PROVE ResInv(r)'
  <2>1. ResInv(r) /\ entries[r].pending \subseteq Ids
    BY DEF TabTypes, Entry
  <2>2. \A x \in entries[r].pending : broker'.op[x] = "pending" /\ meta[x].target = r
    BY <2>1, <1>2 DEF ResInv
  <2> QED BY <2>1, <2>2, <1>3 DEF ResInv
<1> QED BY <1>1, <1>3, <1>4, <1>5, <1>6 DEF OneHolder

\* take_result_with: the host takes over the resource of the outcome.
LEMMA TakeKeeps ==
  ASSUME TabInv, NEW id \in Ids, TakeResult(id)
  PROVE  TabInv'
<1> USE DEF TabInv
<1>1. Good(broker') /\ broker.op[id] = "drained"
  BY RemovedGood DEF TakeResult, Take, CanTake
<1>2. \A x \in Ids : broker'.op[x] = IF x = id THEN "none" ELSE broker.op[x]
  BY DEF TakeResult, Take, Taken, Good, Broker
<1>3. UNCHANGED <<lifecycle, entries, next_resource, task>> /\ handed' = handed \cup ({created[id]} \cap Open)
  BY DEF TakeResult
<1>4. /\ created' \in [Ids -> 0 .. MaxResourceId]
      /\ \A x \in Ids : created'[x] = IF x = id THEN 0 ELSE created[x]
  BY SessionAssumption DEF TakeResult, TabTypes
<1>5. /\ meta' \in [Ids -> Meta] /\ meta'[id].bytes = 0
      /\ meta'[id].reserves = meta[id].reserves
      /\ \A x \in Ids : x # id => meta'[x] = meta[x]
  BY Zenon DEF TakeResult, TabTypes, Meta
<1>6. TabTypes'
  BY <1>1, <1>3, <1>4, <1>5 DEF TabTypes, Good, Open
<1>7. ASSUME NEW x \in Ids PROVE OpInv(x)'
  <2>1. OpInv(x)
    OBVIOUS
  <2>2. CASE x = id
    BY <2>1, <2>2, <1>1, <1>2, <1>3, <1>4, <1>5, ZenonT(30) DEF OpInv, Holding
  <2>3. CASE x # id
    <3>1. meta'[x] = meta[x] /\ broker'.op[x] = broker.op[x] /\ created'[x] = created[x]
      BY <2>3, <1>2, <1>4, <1>5, ZenonT(30)
    <3> QED BY <2>1, <3>1, <1>3 DEF OpInv, Holding
  <2> QED BY <2>2, <2>3
<1>8. ASSUME NEW r \in Resources PROVE ResInv(r)'
  <2>1. ResInv(r) /\ entries[r].pending \subseteq Ids
    BY DEF TabTypes, Entry
  <2>2. \A x \in entries[r].pending : broker'.op[x] = "pending" /\ meta'[x].target = r
    BY <2>1, <1>1, <1>2, <1>5 DEF ResInv
  <2>3. r \in handed' => entries[r].type # "none"
    BY <2>1, <1>3 DEF ResInv, Open
  <2>4. ASSUME entries[r].type # "none", r \notin handed' PROVE \E x \in Ids : created'[x] = r
    <3>1. PICK x \in Ids : created[x] = r
      BY <2>1, <2>4, <1>3 DEF ResInv
    <3>2. x # id
      BY <3>1, <2>4, <1>3 DEF Open
    <3> QED BY <3>1, <3>2, <1>4
  <2> QED BY <2>1, <2>2, <2>3, <2>4, <1>3 DEF ResInv
<1>9. OneHolder'
  BY <1>4 DEF OneHolder
<1> QED BY <1>1, <1>6, <1>7, <1>8, <1>9

\* discard_all leaves every table empty.
LEMMA DiscardKeeps ==
  ASSUME TabInv, DiscardEverything
  PROVE  TabInv'
<1> USE DEF TabInv
<1>1. Good(broker')
  BY RemovedGood DEF DiscardEverything
<1>2. \A x \in Ids : broker'.op[x] = "none"
  BY DEF DiscardEverything, Discarded, Good, Broker
<1>3. /\ \A x \in Ids : meta'[x] = NoMeta /\ created'[x] = 0
      /\ \A r \in Resources : entries'[r] = Closed
      /\ handed' = {} /\ UNCHANGED <<lifecycle, next_resource>>
  BY DEF DiscardEverything, Emptied
<1>4. task' \in [Ids -> {"none", "running", "cancelled"}] /\ \A x \in Ids : task'[x] # "running"
  <2>1. \A x \in Ids : task'[x] = IF x \in Live(broker) /\ task[x] = "running" THEN "cancelled" ELSE task[x]
    BY Zenon DEF DiscardEverything, Signal
  <2>2. \A x \in Ids : task[x] = "running" => x \in Live(broker)
    BY DEF OpInv, Live
  <2>3. task' = [x \in Ids |-> task'[x]]
    BY Zenon DEF DiscardEverything, Signal
  <2>4. \A x \in Ids : task'[x] \in {"none", "running", "cancelled"} /\ task'[x] # "running"
    BY <2>1, <2>2 DEF TabTypes
  <2> QED BY <2>3, <2>4, Zenon
<1>5. TabTypes'
  <2>1. meta' \in [Ids -> Meta] /\ created' \in [Ids -> 0 .. MaxResourceId] /\ entries' \in [Resources -> Entry]
    BY KindFacts, SessionAssumption DEF DiscardEverything, Emptied
  <2> QED BY <2>1, <1>1, <1>3, <1>4 DEF TabTypes, Good
<1>6. ASSUME NEW x \in Ids PROVE OpInv(x)'
  BY <1>2, <1>3, <1>4, KindFacts DEF OpInv
<1>7. ASSUME NEW r \in Resources PROVE ResInv(r)'
  BY <1>3, KindFacts DEF ResInv
<1>8. OneHolder'
  BY <1>3 DEF OneHolder
<1> QED BY <1>1, <1>5, <1>6, <1>7, <1>8

\* queue_error_locked on the operations of S: each is queued once, after what was queued before.
Cancelled(b, S) ==
  /\ Good(broker')
  /\ \A id \in Ids : broker'.op[id] = IF id \in S THEN "queued" ELSE b.op[id]
  /\ S = {} => broker'.completions = b.completions

\* Cancelling the tokens of S leaves no future of S running.
LEMMA SignalFacts ==
  ASSUME TabTypes, NEW S, Signal(S)
  PROVE  /\ task' \in [Ids -> {"none", "running", "cancelled"}]
         /\ \A id \in Ids : task'[id] = "running" => task[id] = "running" /\ id \notin S
<1>1. \A id \in Ids : task'[id] = IF id \in S /\ task[id] = "running" THEN "cancelled" ELSE task[id]
  BY Zenon DEF Signal
<1>2. task' = [id \in Ids |-> task'[id]]
  BY Zenon DEF Signal
<1>3. \A id \in Ids : task'[id] \in {"none", "running", "cancelled"}
  BY <1>1 DEF TabTypes
<1> QED BY <1>1, <1>2, <1>3, Zenon

\* Answering pending operations, with every one that is linked to a closed resource among
\* them, keeps the tables (cancel_operation, close_resource, stop and a failed operation).
LEMMA AnswerKeeps ==
  ASSUME TabInv, NEW S \in SUBSET Ids, NEW C, Settle(S, C),
         \A id \in S : broker.op[id] = "pending",
         Good(broker'),
         \A id \in Ids : broker'.op[id] = IF id \in S THEN "queued" ELSE broker.op[id],
         \A r \in Resources : r \in C => entries[r].pending \subseteq S,
         task' \in [Ids -> {"none", "running", "cancelled"}],
         \A id \in Ids : task'[id] = "running" => task[id] = "running" /\ id \notin S,
         created' = created, next_resource' = next_resource,
         lifecycle' \in {"created", "running", "stopped"}
  PROVE  TabInv'
<1>1. \A id \in Ids : IF id \in S THEN Leaves(id) ELSE broker'.op[id] = broker.op[id]
  BY DEF Leaves
<1>2. \A id \in Ids : created'[id] = IF broker'.op[id] \in {"queued", "drained"} THEN created[id] ELSE 0
  BY DEF TabInv, OpInv
<1>3. \A id \in S : broker'.op[id] # "none"
  OBVIOUS
<1>4. SettleStep(S, C)
  BY <1>1, <1>2, <1>3 DEF SettleStep, Settle, TabInv, TabTypes
<1> QED BY <1>4, SettleKeeps, Zenon

\* The same for one operation, and no resource.
LEMMA AnswerOneKeeps ==
  ASSUME TabInv, NEW id \in Ids, Settle({id}, {}), broker.op[id] = "pending", Good(broker'),
         \A x \in Ids : broker'.op[x] = IF x = id THEN "queued" ELSE broker.op[x],
         task' \in [Ids -> {"none", "running", "cancelled"}],
         \A x \in Ids : task'[x] = "running" => task[x] = "running" /\ x # id,
         created' = created, next_resource' = next_resource,
         lifecycle' \in {"created", "running", "stopped"}
  PROVE  TabInv'
<1>1. PICK S \in SUBSET Ids : S = {id}
  BY ZenonT(30)
<1>2. PICK C : C = {}
  BY Zenon
<1>3. Settle(S, C)
  BY <1>1, <1>2
<1>4. /\ \A x \in S : broker.op[x] = "pending"
      /\ \A x \in Ids : broker'.op[x] = IF x \in S THEN "queued" ELSE broker.op[x]
      /\ \A r \in Resources : r \in C => entries[r].pending \subseteq S
      /\ \A x \in Ids : task'[x] = "running" => task[x] = "running" /\ x \notin S
  BY <1>1, <1>2
<1> HIDE <1>1, <1>2
<1> QED BY <1>3, <1>4, AnswerKeeps

\* cancel_operation; a pending write is only told to stop.
LEMMA CancelKeeps ==
  ASSUME TabInv, NEW id \in Ids, CancelOperation(id),
         meta[id].kind # "tcp_write" => Cancelled(broker, {id})
  PROVE  TabInv'
<1>1. /\ task' \in [Ids -> {"none", "running", "cancelled"}]
      /\ \A x \in Ids : task'[x] = "running" => task[x] = "running" /\ x \notin {id}
  BY SignalFacts, ZenonT(30) DEF TabInv, CancelOperation
<1>2. broker.op[id] = "pending" /\ UNCHANGED <<lifecycle, next_resource, created>>
  BY DEF CancelOperation
<1>3. CASE meta[id].kind = "tcp_write"
  <2>1. UNCHANGED <<broker, meta, entries, handed>>
    BY <1>3 DEF CancelOperation
  <2>2. TabTypes' /\ Good(broker')
    BY <1>1, <1>2, <2>1 DEF TabInv, TabTypes
  <2>3. ASSUME NEW x \in Ids PROVE OpInv(x)'
    <3>1. OpInv(x)
      BY DEF TabInv
    <3> QED BY <1>1, <1>2, <2>1, <3>1 DEF OpInv, Holding
  <2>4. ASSUME NEW r \in Resources PROVE ResInv(r)'
    <3>1. ResInv(r)
      BY DEF TabInv
    <3> QED BY <1>2, <2>1, <3>1 DEF ResInv
  <2> QED BY <1>2, <2>2, <2>3, <2>4 DEF TabInv, OneHolder
<1>4. CASE meta[id].kind # "tcp_write"
  <2>1. Settle({id}, {}) /\ Cancelled(broker, {id})
    BY <1>4 DEF CancelOperation
  <2> QED BY <1>1, <1>2, <2>1, AnswerOneKeeps, Zenon DEF Cancelled, TabInv, TabTypes
<1> QED BY <1>3, <1>4, ZenonT(30)

\* Only pending operations are linked to a resource.
LEMMA LinkedPending ==
  ASSUME TabInv, NEW r \in Resources
  PROVE  PendingOn(r) = entries[r].pending /\ PendingOn(r) \in SUBSET Ids
<1>1. ResInv(r) /\ entries[r].pending \subseteq Ids
  BY DEF TabInv, TabTypes, Entry
<1> QED BY <1>1 DEF ResInv, PendingOn

\* close_resource answers every operation that is linked to the resource.
LEMMA CloseKeeps ==
  ASSUME TabInv, NEW r \in Resources, CloseResource(r), Cancelled(broker, PendingOn(r))
  PROVE  TabInv'
<1> DEFINE S == PendingOn(r)
<1>1. S = entries[r].pending /\ S \in SUBSET Ids /\ \A id \in S : broker.op[id] = "pending"
  BY LinkedPending DEF PendingOn
<1>2. Settle(S, {r}) /\ Signal(S) /\ UNCHANGED <<lifecycle, next_resource, created>>
  BY DEF CloseResource
<1> HIDE DEF S
<1>3. /\ task' \in [Ids -> {"none", "running", "cancelled"}]
      /\ \A x \in Ids : task'[x] = "running" => task[x] = "running" /\ x \notin S
  BY <1>2, SignalFacts DEF TabInv
<1>4. Cancelled(broker, S) /\ lifecycle' \in {"created", "running", "stopped"}
  BY <1>2 DEF S, TabInv, TabTypes
<1>5. \A i \in Resources : i \in {r} => entries[i].pending \subseteq S
  BY <1>1
<1> QED BY <1>1, <1>2, <1>3, <1>4, <1>5, AnswerKeeps DEF Cancelled

\* stop answers every pending operation and closes every resource.
LEMMA StopKeeps ==
  ASSUME TabInv, Stop, Cancelled(broker, {id \in Ids : broker.op[id] = "pending"})
  PROVE  /\ TabInv'
         /\ \A id \in Ids : broker'.op[id] # "pending"
         /\ \A r \in Resources : entries'[r].type = "none"
<1> DEFINE S == {id \in Ids : broker.op[id] = "pending"}
<1>1. S \in SUBSET Ids /\ \A id \in S : broker.op[id] = "pending"
  OBVIOUS
<1>2. Settle(S, Resources) /\ Signal(S) /\ UNCHANGED <<next_resource, created>> /\ lifecycle' = "stopped"
  BY DEF Stop
<1>3. \A r \in Resources : entries[r].pending \subseteq S
  BY LinkedPending DEF PendingOn
<1>4. Cancelled(broker, S) /\ \A id \in Ids : broker'.op[id] # "pending"
  BY DEF Cancelled
<1> HIDE DEF S
<1>5. /\ task' \in [Ids -> {"none", "running", "cancelled"}]
      /\ \A x \in Ids : task'[x] = "running" => task[x] = "running" /\ x \notin S
  BY <1>2, SignalFacts DEF TabInv
<1>6. TabInv'
  BY <1>1, <1>2, <1>3, <1>4, <1>5, AnswerKeeps DEF Cancelled
<1>7. \A r \in Resources : entries'[r] = Closed
  BY <1>2, Zenon DEF Settle
<1> QED BY <1>4, <1>6, <1>7, KindFacts

\* A future that ends, with a result, with an error, or too late.
LEMMA EndKeeps ==
  ASSUME TabInv, NEW id \in Ids, TaskEnds(id)
  PROVE  TabInv'
<1>1. /\ broker' = Resolved(broker, id, FALSE) /\ lifecycle' = lifecycle
      /\ task' = [task EXCEPT ![id] = "none"]
  BY DEF TaskEnds
<1>2. Good(broker')
  BY <1>1, ResolvedGood, Zenon DEF TabInv
<1>3. /\ task' \in [Ids -> {"none", "running", "cancelled"}]
      /\ \A x \in Ids : task'[x] = "running" => task[x] = "running" /\ x \notin {id}
  BY <1>1, ZenonT(30) DEF TabInv, TabTypes
<1>4. CASE broker.op[id] = "pending"
  <2>1. \A x \in Ids : broker'.op[x] = IF x \in {id} THEN "queued" ELSE broker.op[x]
    BY <1>1, <1>4 DEF Resolved, TabInv, Good, Broker
  <2>2. CASE /\ Creates[meta[id].kind] # "none" => next_resource < MaxResourceId
             /\ \E kept \in Kept(id) : Finalize(id, kept)
    BY <1>1, <1>4, <2>2, FinalizeKeeps, Zenon
  <2>3. CASE Settle({id}, {}) /\ UNCHANGED <<next_resource, created>>
    BY <1>1, <1>2, <1>3, <1>4, <2>1, <2>3, AnswerOneKeeps, Zenon DEF TabInv, TabTypes
  <2> QED BY <1>4, <2>2, <2>3 DEF TaskEnds
<1>5. CASE broker.op[id] # "pending"
  <2>1. UNCHANGED <<meta, entries, next_resource, created, handed>>
    BY <1>5 DEF TaskEnds
  <2>2. \A x \in Ids : \/ broker'.op[x] = broker.op[x]
                       \/ broker.op[x] = "discarding" /\ broker'.op[x] = "none"
    BY <1>1, <1>5 DEF Resolved, TabInv, Good, Broker
  <2>3. TabTypes'
    BY <1>1, <1>2, <1>3, <2>1, Zenon DEF TabInv, TabTypes, Good
  <2>4. ASSUME NEW x \in Ids PROVE OpInv(x)'
    <3>1. OpInv(x)
      BY DEF TabInv
    <3> QED BY <1>3, <2>1, <2>2, <3>1 DEF OpInv, Holding
  <2>5. ASSUME NEW r \in Resources PROVE ResInv(r)'
    <3>1. ResInv(r) /\ entries[r].pending \subseteq Ids
      BY DEF TabInv, TabTypes, Entry
    <3>2. \A x \in entries[r].pending : broker'.op[x] = "pending" /\ meta[x].target = r
      BY <3>1, <2>2 DEF ResInv
    <3> QED BY <2>1, <3>1, <3>2 DEF ResInv
  <2> QED BY <1>2, <2>1, <2>3, <2>4, <2>5 DEF TabInv, OneHolder
<1> QED BY <1>4, <1>5

\* free_operation: a pending operation is given up, another one goes with its resource and the
\* operations linked to that.
LEMMA FreeKeeps ==
  ASSUME TabInv, NEW id \in Ids, FreeOperation(id),
         LET r == IF broker.op[id] = "pending" THEN 0 ELSE created[id]
         IN Cancelled(Freed(broker, id), IF r \in Open THEN PendingOn(r) ELSE {})
  PROVE  TabInv'
<1> DEFINE r == IF broker.op[id] = "pending" THEN 0 ELSE created[id]
           victims == IF r \in Open THEN PendingOn(r) ELSE {}
           S == {id} \cup victims
<1>1. /\ Holding(id) /\ Settle(S, {r}) /\ Signal(S) /\ UNCHANGED <<lifecycle, next_resource>>
      /\ created' = [created EXCEPT ![id] = 0] /\ Cancelled(Freed(broker, id), victims)
  BY ZenonT(30) DEF FreeOperation
<1>2. /\ victims \in SUBSET Ids /\ id \notin victims /\ \A x \in victims : broker.op[x] = "pending"
      /\ \A i \in Resources : i = r => entries[i].pending \subseteq victims
  <2>1. CASE r \in Open
    <3>1. victims = entries[r].pending /\ victims \in SUBSET Ids /\ \A x \in victims : broker.op[x] = "pending"
      BY <2>1, LinkedPending DEF PendingOn, Open
    <3>2. broker.op[id] # "pending"
      BY <2>1, SessionAssumption DEF Open, Resources
    <3> QED BY <3>1, <3>2, ZenonT(30)
  <2>2. CASE r \notin Open
    BY <2>2 DEF Open, TabInv, ResInv
  <2> QED BY <2>1, <2>2
<1>3. \A x \in Ids : broker'.op[x] = IF x = id THEN IF broker.op[id] = "pending" THEN "discarding" ELSE "none"
                                     ELSE IF x \in victims THEN "queued" ELSE broker.op[x]
  <2> HIDE DEF victims
  <2>1. \A x \in Ids : Freed(broker, id).op[x] =
          IF x = id THEN IF broker.op[id] = "pending" THEN "discarding" ELSE "none" ELSE broker.op[x]
    BY <1>1 DEF Freed, Holding, TabInv, Good, Broker
  <2> QED BY <1>1, <1>2, <2>1 DEF Cancelled
<1>4. created' \in [Ids -> 0 .. MaxResourceId] /\ \A x \in Ids : created'[x] = IF x = id THEN 0 ELSE created[x]
  BY <1>1, SessionAssumption DEF TabInv, TabTypes
<1>5. ~(broker.op[id] = "pending") => r = created[id]
  OBVIOUS
<1> HIDE DEF victims, r
<1>6. \A x \in Ids : IF x \in S THEN Leaves(x) ELSE broker'.op[x] = broker.op[x]
  BY <1>1, <1>2, <1>3 DEF Leaves, Holding
<1>7. \A x \in Ids : created'[x] = IF broker'.op[x] \in {"queued", "drained"} THEN created[x] ELSE 0
  BY <1>2, <1>3, <1>4 DEF TabInv, OpInv
<1>8. \A x \in S : broker'.op[x] = "none" => created[x] \in {r}
  BY <1>2, <1>3, <1>5, Zenon
<1>9. /\ task' \in [Ids -> {"none", "running", "cancelled"}]
      /\ \A x \in Ids : task'[x] = "running" => task[x] = "running" /\ x \notin S
  BY <1>1, SignalFacts, Zenon DEF TabInv
<1>10. Good(broker') /\ S \in SUBSET Ids /\ \A i \in Resources : i \in {r} => entries[i].pending \subseteq S
  BY <1>1, <1>2, Zenon DEF Cancelled
<1> HIDE DEF S
<1>11. SettleStep(S, {r})
  BY <1>1, <1>4, <1>6, <1>7, <1>8, <1>9, <1>10, ZenonT(30) DEF SettleStep, Settle
<1> QED BY <1>1, <1>10, <1>11, SettleKeeps, Zenon DEF TabInv, TabTypes

-----------------------------------------------------------------------------
(* The waiters, and what stop leaves behind. *)

\* What cancelling a set of pending operations does to any broker (CancelledFacts below).
CancelFacts ==
  \A b : \A S \in SUBSET Ids :
    Good(b) /\ (\A id \in S : b.op[id] = "pending") /\ CancelAll(b, S) => Cancelled(b, S)

WaitTypes ==
  /\ notes \in Nat
  /\ generation \in 0 .. (MaxDiscards + 1)
  /\ waiter \in [Waiters -> [at : {"out", "waiting", "woken"}, gen : 0 .. (MaxDiscards + 1)]]
  /\ permit \in BOOLEAN
  /\ async \in [AsyncWaiters -> {"out", "check", "alive", "register", "await"}]

\* A stopped session has no resource and no pending operation, and the generation has room
\* for one more step until then.
StopInv ==
  IF lifecycle = "stopped"
  THEN /\ \A r \in Resources : entries[r].type = "none"
       /\ \A id \in Ids : broker.op[id] # "pending"
  ELSE generation <= MaxDiscards

\* The steps of the threads and tasks that wait, and of those that wake them.
WaiterStep ==
  \/ Notify
  \/ \E w \in Waiters : Wait(w) \/ Woken(w) \/ WaitTimeout(w)
  \/ \E a \in AsyncWaiters : CallNotified(a) \/ Notified(a)

\* The calls whose CancelAll is used below.
LEMMA CancelsAre ==
  ASSUME TabInv, CancelFacts
  PROVE  /\ \A id \in Ids : CancelOperation(id) /\ meta[id].kind # "tcp_write" => Cancelled(broker, {id})
         /\ \A r \in Resources : CloseResource(r) => Cancelled(broker, PendingOn(r))
         /\ Stop => Cancelled(broker, {id \in Ids : broker.op[id] = "pending"})
         /\ \A id \in Ids : FreeOperation(id) =>
              LET r == IF broker.op[id] = "pending" THEN 0 ELSE created[id]
              IN Cancelled(Freed(broker, id), IF r \in Open THEN PendingOn(r) ELSE {})
<1>0. Good(broker)
  BY DEF TabInv
<1>1. ASSUME NEW id \in Ids, CancelOperation(id), meta[id].kind # "tcp_write"
      PROVE  Cancelled(broker, {id})
  <2>1. CancelAll(broker, {id}) /\ \A x \in {id} : broker.op[x] = "pending"
    BY <1>1, Zenon DEF CancelOperation
  <2>2. {id} \in SUBSET Ids
    OBVIOUS
  <2> QED BY <1>0, <2>1, <2>2, Zenon DEF CancelFacts
<1>2. ASSUME NEW r \in Resources, CloseResource(r)
      PROVE  Cancelled(broker, PendingOn(r))
  <2>1. CancelAll(broker, PendingOn(r)) /\ \A x \in PendingOn(r) : broker.op[x] = "pending"
    BY <1>2, Zenon DEF CloseResource, PendingOn
  <2> QED BY <1>0, <2>1, LinkedPending, Zenon DEF CancelFacts
<1>3. ASSUME Stop
      PROVE  Cancelled(broker, {id \in Ids : broker.op[id] = "pending"})
  <2>1. CancelAll(broker, {id \in Ids : broker.op[id] = "pending"})
    BY <1>3 DEF Stop
  <2>2. {id \in Ids : broker.op[id] = "pending"} \in SUBSET Ids
    OBVIOUS
  <2> QED BY <1>0, <2>1, <2>2, Zenon DEF CancelFacts
<1>4. ASSUME NEW id \in Ids, FreeOperation(id)
      PROVE  LET r == IF broker.op[id] = "pending" THEN 0 ELSE created[id]
             IN Cancelled(Freed(broker, id), IF r \in Open THEN PendingOn(r) ELSE {})
  <2> DEFINE r == IF broker.op[id] = "pending" THEN 0 ELSE created[id]
             victims == IF r \in Open THEN PendingOn(r) ELSE {}
  <2>1. CancelAll(Freed(broker, id), victims) /\ Holding(id)
    BY <1>4 DEF FreeOperation
  <2>2. Good(Freed(broker, id))
    BY <1>0, FreedGood
  <2>3. victims \in SUBSET Ids /\ \A x \in victims : broker.op[x] = "pending" /\ x # id
    <3>1. CASE r \in Open
      <4>1. r \in Resources /\ broker.op[id] # "pending"
        BY <3>1, SessionAssumption DEF Open, Resources
      <4> QED BY <3>1, <4>1, LinkedPending DEF PendingOn
    <3>2. CASE r \notin Open
      BY <3>2
    <3> QED BY <3>1, <3>2
  <2> HIDE DEF victims
  <2>4. \A x \in Ids : x # id => Freed(broker, id).op[x] = broker.op[x]
    BY <2>1 DEF Freed, Holding, TabInv, Good, Broker
  <2>5. \A x \in victims : Freed(broker, id).op[x] = "pending"
    BY <2>3, <2>4
  <2>6. Cancelled(Freed(broker, id), victims)
    BY <2>1, <2>2, <2>3, <2>5, Zenon DEF CancelFacts
  <2> QED BY <2>6 DEF victims
<1> QED BY <1>1, <1>2, <1>3, <1>4

\* The tables are kept by every step.
LEMMA TabStep ==
  ASSUME TabInv, CancelFacts, [SessionNext]_vars
  PROVE  TabInv'
<1>1. ASSUME UNCHANGED <<broker, session>> PROVE TabInv'
  BY <1>1 DEF TabInv, TabTypes, OneHolder, OpInv, ResInv, Holding, session
<1>2. CASE WaiterStep
  BY <1>1, <1>2 DEF WaiterStep, Notify, Wait, Woken, WaitTimeout, CallNotified, Notified
<1>3. CASE UNCHANGED vars
  BY <1>1, <1>3, ZenonT(30) DEF vars
<1>4. CASE Start
  BY <1>4, ZenonT(30) DEF Start, TabInv, TabTypes, OneHolder, OpInv, ResInv, Holding
<1>5. CASE Stop
  BY <1>5, StopKeeps, CancelsAre
<1>6. ASSUME NEW id \in Ids, CancelOperation(id) PROVE TabInv'
  BY <1>6, CancelKeeps, CancelsAre, ZenonT(30)
<1>7. ASSUME NEW id \in Ids, FreeOperation(id) PROVE TabInv'
  BY <1>7, FreeKeeps, CancelsAre
<1>8. ASSUME NEW r \in Resources, CloseResource(r) PROVE TabInv'
  BY <1>8, CloseKeeps, CancelsAre
<1>9. CASE \E kind \in Kinds, r \in Resources \cup {0}, bytes \in Sizes : Submit(kind, r, bytes)
  BY <1>9, SubmitKeeps
<1>10. CASE DrainCompletion
  BY <1>10, DrainKeeps
<1>11. ASSUME NEW id \in Ids, TakeResult(id) PROVE TabInv'
  BY <1>11, TakeKeeps
<1>12. CASE DiscardEverything
  BY <1>12, DiscardKeeps
<1>13. ASSUME NEW id \in Ids, TaskEnds(id) PROVE TabInv'
  BY <1>13, EndKeeps
<1> QED BY <1>2, <1>3, <1>4, <1>5, <1>6, <1>7, <1>8, <1>9, <1>10, <1>11, <1>12, <1>13, ZenonT(30)
        DEF SessionNext, WaiterStep

\* Cancelling pending operations after such a step is still such a step.
LEMMA CancelMoves ==
  ASSUME NEW b, Moves(broker, b), NEW S, \A x \in S : broker.op[x] = "pending", Cancelled(b, S)
  PROVE  Moves(broker, broker')
<1> SUFFICES ASSUME NEW x \in Ids
             PROVE  IF broker.op[x] = "none"
                    THEN \/ broker'.op[x] = "none"
                         \/ broker'.op[x] = "pending" /\ x = broker.next_id /\ CanAdmit(broker)
                    ELSE Rank(broker'.op[x]) >= Rank(broker.op[x])
  BY DEF Moves
<1>1. CASE x \in S
  BY <1>1 DEF Cancelled, Rank
<1>2. CASE x \notin S
  BY <1>2 DEF Cancelled, Moves
<1> QED BY <1>1, <1>2

\* Every step of the session, those that make several calls of the broker included.
LEMMA SessionMoves ==
  ASSUME TabInv, CancelFacts, [SessionNext]_vars
  PROVE  Moves(broker, broker')
<1>0. Good(broker)
  BY DEF TabInv
<1>1. Moves(broker, broker)
  BY <1>0, MethodsMove
<1>2. CASE WaiterStep \/ UNCHANGED vars \/ Start
  <2>1. broker' = broker
    BY <1>2 DEF WaiterStep, Notify, Wait, Woken, WaitTimeout, CallNotified, Notified, vars, Start
  <2> QED BY <1>1, <2>1
<1>3. CASE Stop
  <2> DEFINE S == {id \in Ids : broker.op[id] = "pending"}
  <2>1. Cancelled(broker, S) /\ \A x \in S : broker.op[x] = "pending"
    BY <1>0, <1>3, CancelsAre, ZenonT(30)
  <2> HIDE DEF S
  <2> QED BY <1>1, <2>1, CancelMoves
<1>4. CASE DrainCompletion \/ DiscardEverything
  BY <1>0, <1>4, MethodsMove DEF DrainCompletion, Drain, DiscardEverything
<1>5. ASSUME NEW id \in Ids, CancelOperation(id) PROVE Moves(broker, broker')
  <2>1. CASE meta[id].kind = "tcp_write"
    <3>1. broker' = broker
      BY <1>5, <2>1, ZenonT(30) DEF CancelOperation
    <3> QED BY <1>1, <3>1, ZenonT(30)
  <2>2. CASE meta[id].kind # "tcp_write"
    <3>1. Cancelled(broker, {id}) /\ \A x \in {id} : broker.op[x] = "pending"
      BY <1>0, <1>5, <2>2, CancelsAre, Zenon DEF CancelOperation
    <3> QED BY <1>1, <3>1, CancelMoves
  <2> QED BY <2>1, <2>2
<1>6. ASSUME NEW id \in Ids, FreeOperation(id) PROVE Moves(broker, broker')
  <2> DEFINE r == IF broker.op[id] = "pending" THEN 0 ELSE created[id]
             victims == IF r \in Open THEN PendingOn(r) ELSE {}
  <2>1. Cancelled(Freed(broker, id), victims)
    BY <1>0, <1>6, CancelsAre
  <2>2. \A x \in victims : broker.op[x] = "pending"
    BY DEF PendingOn
  <2>3. Moves(broker, Freed(broker, id))
    BY <1>0, MethodsMove
  <2> HIDE DEF victims
  <2> QED BY <2>1, <2>2, <2>3, CancelMoves
<1>7. ASSUME NEW r \in Resources, CloseResource(r) PROVE Moves(broker, broker')
  <2>1. Cancelled(broker, PendingOn(r)) /\ \A x \in PendingOn(r) : broker.op[x] = "pending"
    BY <1>0, <1>7, CancelsAre DEF PendingOn
  <2> QED BY <1>1, <2>1, CancelMoves, ZenonT(30)
<1>8. CASE \E kind \in Kinds, r \in Resources \cup {0}, bytes \in Sizes : Submit(kind, r, bytes)
  <2>1. CanAdmit(broker) /\ broker' = Admitted(broker)
    BY <1>8, Zenon DEF Submit, Admits
  <2> QED BY <1>0, <2>1, MethodsMove, ZenonT(30)
<1>9. ASSUME NEW id \in Ids, TakeResult(id) PROVE Moves(broker, broker')
  BY <1>0, <1>9, MethodsMove DEF TakeResult, Take
<1>10. ASSUME NEW id \in Ids, TaskEnds(id) PROVE Moves(broker, broker')
  <2>1. broker' = Resolved(broker, id, FALSE)
    BY <1>10 DEF TaskEnds
  <2> QED BY <1>0, <2>1, MethodsMove, ZenonT(30)
<1> QED BY <1>2, <1>3, <1>4, <1>5, <1>6, <1>7, <1>8, <1>9, <1>10 DEF SessionNext, WaiterStep

\* How a call treats those who wait: a notification is to come, or nothing happened that
\* anybody waits for.
Told == notes' > 0 \/ Waiters \cup AsyncWaiters = {}
Quiet ==
  /\ notes' = notes /\ generation' = generation
  /\ lifecycle' = "stopped" => lifecycle = "stopped"
  /\ broker.completions = <<>> => broker'.completions = <<>>

\* Making the queue of b non-empty is told to those who wait.
LEMMA NotesFacts ==
  ASSUME notes \in Nat, NEW b, NEW S, NotesAfter(b, S),
         b.completions = <<>> /\ S = {} => broker'.completions = <<>>,
         broker.completions = <<>> => b.completions = <<>>,
         generation' = generation, lifecycle' = lifecycle
  PROVE  notes' \in Nat /\ (Told \/ Quiet)
BY DEF NotesAfter, OneMoreNote, Told, Quiet

\* free takes an operation off the queue and adds none.
LEMMA FreedCompletions ==
  ASSUME Good(broker), NEW id \in Ids, broker.completions = <<>>
  PROVE  Freed(broker, id).completions = <<>>
<1>1. Without(<<>>, id) = <<>>
  BY DEF Without
<1> QED BY <1>1 DEF Freed, Good, Broker

\* Every call that queues a completion, discards everything or stops the session notifies
\* after it has dropped the lock; the other ones change nothing that anybody waits for.
LEMMA CallTells ==
  ASSUME TabInv, CancelFacts, WaitTypes, SessionNext, ~WaiterStep
  PROVE  UNCHANGED waiting /\ notes' \in Nat /\ (Told \/ Quiet)
<1>0. notes \in Nat /\ broker \in Broker /\ Good(broker)
  BY DEF TabInv, TabTypes, WaitTypes
<1>1. CASE Start
  BY <1>0, <1>1 DEF Start, Quiet
<1>2. CASE Stop \/ DiscardEverything
  <2>1. OneMoreNote /\ UNCHANGED waiting
    BY <1>2 DEF Stop, DiscardEverything
  <2> QED BY <1>0, <2>1 DEF OneMoreNote, Told
<1>3. ASSUME NEW id \in Ids, CancelOperation(id)
      PROVE  UNCHANGED waiting /\ notes' \in Nat /\ (Told \/ Quiet)
  <2>0. UNCHANGED <<lifecycle, generation>> /\ UNCHANGED waiting
    BY <1>3 DEF CancelOperation
  <2>1. CASE meta[id].kind = "tcp_write"
    BY <1>0, <1>3, <2>0, <2>1 DEF CancelOperation, Quiet
  <2>2. CASE meta[id].kind # "tcp_write"
    <3>1. NotesAfter(broker, {id})
      BY <1>3, <2>2 DEF CancelOperation
    <3> QED BY <1>0, <2>0, <3>1, NotesFacts, ZenonT(30)
  <2> QED BY <2>1, <2>2
<1>4. ASSUME NEW id \in Ids, FreeOperation(id)
      PROVE  UNCHANGED waiting /\ notes' \in Nat /\ (Told \/ Quiet)
  <2> DEFINE r == IF broker.op[id] = "pending" THEN 0 ELSE created[id]
             victims == IF r \in Open THEN PendingOn(r) ELSE {}
             b == Freed(broker, id)
  <2>1. NotesAfter(b, victims) /\ UNCHANGED <<lifecycle, generation>> /\ UNCHANGED waiting
    BY <1>4 DEF FreeOperation
  <2>2. Cancelled(b, victims)
    BY <1>4, CancelsAre
  <2>3. broker.completions = <<>> => b.completions = <<>>
    BY <1>0, FreedCompletions
  <2> HIDE DEF b, victims
  <2>4. victims = {} => broker'.completions = b.completions
    BY <2>2 DEF Cancelled
  <2> QED BY <1>0, <2>1, <2>3, <2>4, NotesFacts
<1>5. ASSUME NEW r \in Resources, CloseResource(r)
      PROVE  UNCHANGED waiting /\ notes' \in Nat /\ (Told \/ Quiet)
  <2> DEFINE S == PendingOn(r)
  <2>1. NotesAfter(broker, S) /\ UNCHANGED <<lifecycle, generation>> /\ UNCHANGED waiting
    BY <1>5 DEF CloseResource
  <2>2. S = {} => broker'.completions = broker.completions
    BY <1>5, CancelsAre DEF Cancelled
  <2> HIDE DEF S
  <2> QED BY <1>0, <2>1, <2>2, NotesFacts
<1>6. ASSUME NEW kind \in Kinds, NEW r \in Resources \cup {0}, NEW bytes \in Sizes, Submit(kind, r, bytes)
      PROVE  UNCHANGED waiting /\ notes' \in Nat /\ (Told \/ Quiet)
  <2>1. broker' = Admitted(broker) /\ UNCHANGED <<lifecycle, generation, notes>> /\ UNCHANGED waiting
    BY <1>6 DEF Submit
  <2>2. broker'.completions = broker.completions
    BY <1>0, <2>1 DEF Admitted, Broker
  <2> QED BY <1>0, <2>1, <2>2 DEF Quiet
<1>7. CASE DrainCompletion
  <2>1. broker.completions # <<>> /\ UNCHANGED <<lifecycle, generation, notes>> /\ UNCHANGED waiting
    BY <1>7 DEF DrainCompletion, Drain, session
  <2> QED BY <1>0, <2>1 DEF Quiet
<1>8. ASSUME NEW id \in Ids, TakeResult(id)
      PROVE  UNCHANGED waiting /\ notes' \in Nat /\ (Told \/ Quiet)
  <2>1. broker' = Taken(broker, id) /\ UNCHANGED <<lifecycle, generation, notes>> /\ UNCHANGED waiting
    BY <1>8 DEF TakeResult, Take
  <2>2. broker'.completions = broker.completions
    BY <1>0, <2>1 DEF Taken, Broker
  <2> QED BY <1>0, <2>1, <2>2 DEF Quiet
<1>9. ASSUME NEW id \in Ids, TaskEnds(id)
      PROVE  UNCHANGED waiting /\ notes' \in Nat /\ (Told \/ Quiet)
  <2>1. broker' = Resolved(broker, id, FALSE) /\ UNCHANGED <<lifecycle, generation>> /\ UNCHANGED waiting
    BY <1>9 DEF TaskEnds
  <2>2. CASE broker.op[id] = "pending"
    <3>1. NotesAfter(broker, {id})
      BY <1>9, <2>2 DEF TaskEnds
    <3> QED BY <1>0, <2>1, <3>1, NotesFacts, Zenon
  <2>3. CASE broker.op[id] # "pending"
    <3>1. broker'.completions = broker.completions
      BY <1>0, <2>1, <2>3 DEF Resolved, Broker
    <3>2. notes' = notes
      BY <1>9, <2>3 DEF TaskEnds
    <3> QED BY <1>0, <2>1, <3>1, <3>2, Zenon DEF Quiet
  <2> QED BY <2>2, <2>3, ZenonT(30)
<1> QED BY <1>1, <1>2, <1>3, <1>4, <1>5, <1>6, <1>7, <1>8, <1>9, Zenon DEF SessionNext, WaiterStep

-----------------------------------------------------------------------------
\* Nobody sleeps through an event unless a notification is to come.  The task of
\* completion_notified has read the queue before it reads the lifecycle and registers.
WakeInv ==
  notes = 0 =>
    /\ \A w \in Waiters : waiter[w].at = "waiting" => NothingYet(waiter[w].gen)
    /\ \A a \in AsyncWaiters :
         /\ async[a] = "alive" /\ ~permit => broker.completions = <<>>
         /\ async[a] = "await" \/ (async[a] = "register" /\ ~permit) => NothingYet(generation)

\* notify_one wakes one task, so completion_notified is meant for one at a time: the
\* completion consumer is leased.
OneAsync == \A a, b \in AsyncWaiters : a = b

\* A call that tells or is quiet leaves nobody asleep.
LEMMA CallWakes ==
  ASSUME WakeInv, UNCHANGED waiting, notes' \in Nat, Told \/ Quiet
  PROVE  WakeInv'
<1>1. CASE Told
  BY <1>1 DEF Told, WakeInv
<1>2. CASE Quiet
  BY <1>2 DEF Quiet, WakeInv, NothingYet, waiting
<1> QED BY <1>1, <1>2

\* notify_all wakes every thread, and notify_one the task or the permit it looks at next.
LEMMA NotifyWakes ==
  ASSUME WaitTypes, Notify
  PROVE  WaitTypes' /\ (OneAsync => WakeInv')
<1>1. notes' \in Nat /\ generation' = generation
  BY DEF Notify, WaitTypes, session
<1>2. /\ \A w \in Waiters : waiter'[w].at # "waiting"
      /\ waiter' \in [Waiters -> [at : {"out", "waiting", "woken"}, gen : 0 .. (MaxDiscards + 1)]]
  <2>1. \A w \in Waiters : waiter'[w] = IF waiter[w].at = "waiting" THEN [waiter[w] EXCEPT !.at = "woken"]
                                        ELSE waiter[w]
    BY Zenon DEF Notify
  <2>2. \A w \in Waiters : waiter'[w].at # "waiting"
            /\ waiter'[w] \in [at : {"out", "waiting", "woken"}, gen : 0 .. (MaxDiscards + 1)]
    BY <2>1, Zenon DEF WaitTypes
  <2>3. waiter' = [w \in Waiters |-> waiter'[w]]
    BY Zenon DEF Notify
  <2> QED BY <2>2, <2>3, Zenon
<1>3. CASE \E a \in AsyncWaiters : /\ async[a] = "await" /\ async' = [async EXCEPT ![a] = "check"]
                                   /\ UNCHANGED permit
  <2>1. PICK a \in AsyncWaiters : /\ async[a] = "await" /\ async' = [async EXCEPT ![a] = "check"]
                                  /\ UNCHANGED permit
    BY <1>3, Zenon
  <2>2. /\ OneAsync => \A x \in AsyncWaiters : async'[x] = "check"
        /\ async' \in [AsyncWaiters -> {"out", "check", "alive", "register", "await"}]
        /\ permit' \in BOOLEAN
    BY <2>1 DEF OneAsync, WaitTypes
  <2> QED BY <1>1, <1>2, <2>2 DEF WakeInv, WaitTypes
<1>4. CASE permit' = TRUE /\ UNCHANGED async /\ \A a \in AsyncWaiters : async[a] # "await"
  BY <1>1, <1>2, <1>4 DEF WakeInv, WaitTypes
<1> QED BY <1>3, <1>4, Zenon DEF Notify

\* A thread sleeps only after it has seen, under the lock, that nothing happened yet.
LEMMA ThreadSleeps ==
  ASSUME WaitTypes, NEW w \in Waiters, Wait(w) \/ Woken(w) \/ WaitTimeout(w)
  PROVE  WaitTypes' /\ (WakeInv => WakeInv')
<1>1. UNCHANGED <<broker, lifecycle, generation, notes, permit, async>>
  BY DEF Wait, Woken, WaitTimeout, session
<1> DEFINE W == [at : {"out", "waiting", "woken"}, gen : 0 .. (MaxDiscards + 1)]
<1>2. PICK v \in W : /\ waiter' = [waiter EXCEPT ![w] = v]
                     /\ v.at = "waiting" => NothingYet(v.gen)
  <2>1. CASE Wait(w)
    <3> DEFINE v == [at |-> "waiting", gen |-> generation]
    <3>1. v \in W /\ NothingYet(v.gen) /\ waiter' = [waiter EXCEPT ![w] = v]
      BY <2>1 DEF Wait, WaitTypes
    <3> QED BY <3>1, Zenon
  <2>2. CASE Woken(w)
    <3> DEFINE s == IF NothingYet(waiter[w].gen) THEN "waiting" ELSE "out"
               v == [at |-> s, gen |-> waiter[w].gen]
    <3>1. waiter[w] \in W
      BY DEF WaitTypes
    <3>2. v \in W /\ (v.at = "waiting" => NothingYet(v.gen))
      BY <3>1
    <3>3. waiter' = [waiter EXCEPT ![w].at = s]
      BY <2>2 DEF Woken
    <3> HIDE DEF s
    <3>4. [waiter[w] EXCEPT !.at = s] = v
      BY <3>1
    <3>5. waiter' = [waiter EXCEPT ![w] = v]
      BY <3>3, <3>4, Zenon
    <3> HIDE DEF v
    <3> QED BY <3>2, <3>5, Zenon
  <2>3. CASE WaitTimeout(w)
    <3> DEFINE v == [at |-> "out", gen |-> waiter[w].gen]
    <3>1. waiter[w] \in W
      BY DEF WaitTypes
    <3>2. v \in W /\ v.at # "waiting"
      BY <3>1
    <3>3. [waiter[w] EXCEPT !.at = "out"] = v
      BY <3>1
    <3>4. waiter' = [waiter EXCEPT ![w] = v]
      BY <2>3, <3>3, Zenon DEF WaitTimeout
    <3> HIDE DEF v
    <3> QED BY <3>2, <3>4, Zenon
  <2> QED BY <2>1, <2>2, <2>3
<1>3. waiter' \in [Waiters -> W] /\ \A x \in Waiters : waiter'[x] = IF x = w THEN v ELSE waiter[x]
  BY <1>2, Zenon DEF WaitTypes
<1>4. WaitTypes'
  BY <1>1, <1>3, Zenon DEF WaitTypes
<1>5. ASSUME WakeInv PROVE WakeInv'
  BY <1>1, <1>2, <1>3, <1>5 DEF WakeInv, NothingYet
<1> QED BY <1>4, <1>5

\* The task of completion_notified registers only after it has seen that nothing happened, and
\* takes the permit of a notification that came between its looks.
LEMMA TaskSleeps ==
  ASSUME WaitTypes, NEW a \in AsyncWaiters, CallNotified(a) \/ Notified(a)
  PROVE  WaitTypes' /\ (OneAsync /\ WakeInv => WakeInv')
<1>1. UNCHANGED <<broker, lifecycle, generation, notes, waiter>> /\ permit \in BOOLEAN
  BY DEF CallNotified, Notified, session, WaitTypes
<1>2. CASE CallNotified(a)
  <2>1. async' = [async EXCEPT ![a] = "check"] /\ permit' = permit
    BY <1>2 DEF CallNotified
  <2> QED BY <1>1, <2>1 DEF WaitTypes, WakeInv, NothingYet
<1>3. CASE /\ async[a] = "check" /\ permit' = permit
           /\ async' = [async EXCEPT ![a] = IF broker.completions # <<>> THEN "out" ELSE "alive"]
  BY <1>1, <1>3 DEF WaitTypes, WakeInv, NothingYet
<1>4. CASE /\ async[a] = "alive" /\ permit' = permit
           /\ async' = [async EXCEPT ![a] = IF lifecycle = "stopped" THEN "out" ELSE "register"]
  BY <1>1, <1>4 DEF WaitTypes, WakeInv, NothingYet
<1>5. CASE /\ async[a] = "register" /\ permit' = FALSE
           /\ async' = [async EXCEPT ![a] = IF permit THEN "check" ELSE "await"]
  <2>1. WaitTypes'
    BY <1>1, <1>5, Zenon DEF WaitTypes
  <2>2. ASSUME OneAsync, WakeInv PROVE WakeInv'
    <3>1. \A x \in AsyncWaiters : x = a
      BY <2>2 DEF OneAsync
    <3>2. async'[a] = IF permit THEN "check" ELSE "await"
      BY <1>5 DEF WaitTypes
    <3>3. ASSUME notes = 0, ~permit PROVE NothingYet(generation)
      BY <1>5, <2>2, <3>3 DEF WakeInv
    <3> QED BY <1>1, <2>2, <3>1, <3>2, <3>3 DEF WakeInv, NothingYet
  <2> QED BY <2>1, <2>2
<1> QED BY <1>2, <1>3, <1>4, <1>5, Zenon DEF Notified

\* The generation and what stop leaves behind.
LEMMA StopStep ==
  ASSUME TabInv, CancelFacts, StopInv, generation \in 0 .. (MaxDiscards + 1), [SessionNext]_vars
  PROVE  StopInv' /\ generation' \in 0 .. (MaxDiscards + 1)
<1> DEFINE Goal == StopInv' /\ generation' \in 0 .. (MaxDiscards + 1)
<1>0. broker \in Broker /\ entries \in [Resources -> Entry] /\ MaxDiscards \in Nat
  BY SessionAssumption DEF TabInv, TabTypes
\* A step that opens nothing, submits nothing and leaves lifecycle and generation alone.
<1>1. ASSUME UNCHANGED <<lifecycle, generation>>,
             lifecycle = "stopped" =>
               /\ \A r \in Resources : entries[r].type = "none" => entries'[r].type = "none"
               /\ \A id \in Ids : broker.op[id] # "pending" => broker'.op[id] # "pending"
      PROVE  Goal
  BY <1>1 DEF StopInv
<1>2. CASE WaiterStep \/ UNCHANGED vars
  <2>1. UNCHANGED <<broker, session>>
    BY <1>2 DEF WaiterStep, Notify, Wait, Woken, WaitTimeout, CallNotified, Notified, vars
  <2> QED BY <1>1, <2>1 DEF session
<1>3. CASE Start
  BY <1>0, <1>3 DEF Start, StopInv
<1>4. CASE Stop
  <2>1. lifecycle' = "stopped" /\ lifecycle # "stopped" /\ generation' = generation + 1
    BY <1>4 DEF Stop
  <2> QED BY <1>0, <1>4, <2>1, StopKeeps, CancelsAre DEF StopInv
<1>5. CASE DiscardEverything
  <2>1. lifecycle' = lifecycle /\ generation < MaxDiscards /\ generation' = generation + 1
    BY <1>5 DEF DiscardEverything
  <2>2. \A r \in Resources : entries'[r].type = "none"
    BY <1>5 DEF DiscardEverything, Emptied, Closed
  <2>3. \A id \in Ids : broker'.op[id] # "pending"
    BY <1>0, <1>5 DEF DiscardEverything, Discarded, Broker
  <2> QED BY <1>0, <2>1, <2>2, <2>3 DEF StopInv
<1>6. ASSUME NEW kind \in Kinds, NEW r \in Resources \cup {0}, NEW bytes \in Sizes, Submit(kind, r, bytes)
      PROVE  Goal
  <2>1. lifecycle = "running" /\ UNCHANGED <<lifecycle, generation>>
    BY <1>6 DEF Submit, Admits
  <2> QED BY <1>1, <2>1
<1>7. ASSUME NEW id \in Ids, TaskEnds(id) PROVE Goal
  <2>1. UNCHANGED <<lifecycle, generation>> /\ broker' = Resolved(broker, id, FALSE)
    BY <1>7 DEF TaskEnds
  <2>2. \A x \in Ids : broker.op[x] # "pending" => broker'.op[x] # "pending"
    BY <1>0, <2>1 DEF Resolved, Broker
  <2>3. lifecycle = "stopped" => entries' = entries
    BY <1>7 DEF StopInv, TaskEnds
  <2> QED BY <1>1, <2>1, <2>2, <2>3, Zenon
<1>8. ASSUME NEW id \in Ids, CancelOperation(id) PROVE Goal
  BY <1>1, <1>8 DEF CancelOperation, StopInv
<1>9. ASSUME NEW r \in Resources, CloseResource(r) PROVE Goal
  BY <1>1, <1>9 DEF CloseResource, StopInv, Open
<1>10. ASSUME NEW id \in Ids, FreeOperation(id) PROVE Goal
  <2> DEFINE r == IF broker.op[id] = "pending" THEN 0 ELSE created[id]
             victims == IF r \in Open THEN PendingOn(r) ELSE {}
  <2>1. /\ UNCHANGED <<lifecycle, generation>> /\ Settle({id} \cup victims, {r})
        /\ Cancelled(Freed(broker, id), victims) /\ Holding(id)
    BY <1>10, CancelsAre, Zenon DEF FreeOperation
  <2> HIDE DEF victims, r
  <2>2. \A i \in Resources : entries[i].type = "none" => entries'[i].type = "none"
    <3> SUFFICES ASSUME NEW i \in Resources, entries[i].type = "none" PROVE entries'[i].type = "none"
      OBVIOUS
    <3>1. entries[i] \in Entry
      BY <1>0
    <3>2. entries'[i] = IF i \in {r} THEN Closed
            ELSE [entries[i] EXCEPT !.pending = @ \ {x \in {id} \cup victims : meta[x].target = i}]
      BY <2>1, Zenon DEF Settle
    <3> QED BY <3>1, <3>2, KindFacts DEF Entry
  <2>3. \A x \in Ids : Freed(broker, id).op[x] = "pending" => broker.op[x] = "pending"
    BY <1>0, <2>1 DEF Freed, Broker, Holding
  <2>4. \A x \in Ids : broker'.op[x] = "pending" => broker.op[x] = "pending"
    BY <2>1, <2>3, ZenonT(30) DEF Cancelled
  <2> QED BY <1>1, <2>1, <2>2, <2>4
<1>11. CASE DrainCompletion
  <2>1. \A x \in Ids : broker'.op[x] = "pending" => broker.op[x] = "pending"
    BY <1>0, <1>11 DEF DrainCompletion, Drain, DrainedOne, Broker
  <2> QED BY <1>1, <1>11, <2>1, ZenonT(30) DEF DrainCompletion, session
<1>12. ASSUME NEW id \in Ids, TakeResult(id) PROVE Goal
  <2>1. \A x \in Ids : broker'.op[x] = "pending" => broker.op[x] = "pending"
    BY <1>0, <1>12 DEF TakeResult, Take, Taken, Broker
  <2> QED BY <1>1, <1>12, <2>1 DEF TakeResult
<1> QED BY <1>2, <1>3, <1>4, <1>5, <1>6, <1>7, <1>8, <1>9, <1>10, <1>11, <1>12
        DEF SessionNext, WaiterStep

\* Types of the waiters, and no lost wakeup, in one step.
LEMMA WakeStep ==
  ASSUME TabInv, CancelFacts, StopInv, WaitTypes, [SessionNext]_vars
  PROVE  WaitTypes' /\ StopInv' /\ (OneAsync /\ WakeInv => WakeInv')
<1>1. StopInv' /\ generation' \in 0 .. (MaxDiscards + 1)
  BY StopStep DEF WaitTypes
<1>2. CASE WaiterStep
  BY <1>1, <1>2, NotifyWakes, ThreadSleeps, TaskSleeps DEF WaiterStep
<1>3. CASE SessionNext /\ ~WaiterStep
  <2>1. UNCHANGED waiting /\ notes' \in Nat /\ (Told \/ Quiet)
    BY <1>3, CallTells
  <2>2. WaitTypes'
    BY <1>1, <2>1 DEF WaitTypes, waiting
  <2> QED BY <1>1, <2>1, <2>2, CallWakes
<1>4. CASE UNCHANGED vars
  <2>1. UNCHANGED waiting /\ notes' = notes /\ generation' = generation /\ lifecycle' = lifecycle
        /\ broker' = broker
    BY <1>4 DEF vars, session
  <2>2. WaitTypes' /\ Quiet /\ notes' \in Nat
    BY <2>1 DEF WaitTypes, waiting, Quiet
  <2> QED BY <1>1, <2>1, <2>2, CallWakes
<1> QED BY <1>2, <1>3, <1>4
=============================================================================
