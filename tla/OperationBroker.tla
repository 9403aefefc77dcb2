--------------------------- MODULE OperationBroker ---------------------------
(***************************************************************************)
(* foundation/operation_broker.rs: the life cycle of operations submitted  *)
(* by a host and the queue of their completions.  One operator per method, *)
(* from the broker before the call to the broker after it; the host may    *)
(* call them in any order and with any id, so Next allows that.            *)
(***************************************************************************)
EXTENDS Naturals, Sequences, FiniteSets

CONSTANTS
  MaxOperations,   \* max_operations
  MaxOperationId   \* stands for u64::MAX, the id that is never given out

ASSUME BrokerAssumption ==
  /\ MaxOperations \in Nat
  /\ MaxOperationId \in Nat \ {0}

VARIABLE broker

\* "none": not in the map, because it was not admitted yet or is gone.
States == {"none", "pending", "queued", "drained", "discarding"}
Ids == 1 .. (MaxOperationId - 1)
Broker == [ op : [Ids -> States], completions : Seq(Ids), next_id : 1 .. MaxOperationId ]

New == [ op |-> [id \in Ids |-> "none"], completions |-> <<>>, next_id |-> 1 ]

Live(b) == {id \in Ids : b.op[id] # "none"}

\* admit: refused at capacity, and with IdExhausted once the counter would overflow.
CanAdmit(b) == Cardinality(Live(b)) < MaxOperations /\ b.next_id < MaxOperationId
Admitted(b) == [b EXCEPT !.op[b.next_id] = "pending", !.next_id = @ + 1]

\* resolve_pending_with, under complete_with and cancel_with: the first outcome of a
\* pending operation is queued, the end of a freed one gives its slot back, and every
\* later outcome is dropped.
\* Mutant: the outcome that comes after a drained cancellation is queued again.
ResolvedAgain(b, id, cancel) ==
  IF b.op[id] \in {"pending", "drained"}
  THEN [b EXCEPT !.op[id] = "queued", !.completions = Append(@, id)]
  ELSE IF b.op[id] = "discarding" /\ ~cancel THEN [b EXCEPT !.op[id] = "none"] ELSE b
Resolved(b, id, cancel) ==
  IF b.op[id] = "pending"
  THEN [b EXCEPT !.op[id] = "queued", !.completions = Append(@, id)]
  ELSE IF b.op[id] = "discarding" /\ ~cancel THEN [b EXCEPT !.op[id] = "none"] ELSE b

\* completions.retain: the queue holds an id at most once (CompletionsExact).
Without(q, id) ==
  IF \E i \in 1 .. Len(q) : q[i] = id
  THEN LET i == CHOOSE i \in 1 .. Len(q) : q[i] = id
       IN [j \in 1 .. (Len(q) - 1) |-> IF j < i THEN q[j] ELSE q[j + 1]]
  ELSE q

\* free: a running operation stays in the map until its task ends.
\* Mutant: a completed operation is freed without being taken off the queue.
FreedLeavesCompletion(b, id) ==
  CASE b.op[id] = "pending" -> [b EXCEPT !.op[id] = "discarding"]
    [] b.op[id] \in {"queued", "drained"} -> [b EXCEPT !.op[id] = "none"]
    [] OTHER -> b
Freed(b, id) ==
  CASE b.op[id] = "pending" -> [b EXCEPT !.op[id] = "discarding"]
    [] b.op[id] = "queued"  -> [b EXCEPT !.op[id] = "none", !.completions = Without(@, id)]
    [] b.op[id] = "drained" -> [b EXCEPT !.op[id] = "none"]
    [] OTHER -> b

\* drain of one completion; drain(max_count) is a sequence of these under one lock.
DrainedOne(b) ==
  LET id == Head(b.completions)
  IN [b EXCEPT !.op[id] = IF @ = "queued" THEN "drained" ELSE @, !.completions = Tail(@)]

\* take_with that accepts the outcome.
CanTake(b, id) == b.op[id] = "drained"
Taken(b, id) == [b EXCEPT !.op[id] = "none"]

Discarded(b) == [b EXCEPT !.op = [id \in Ids |-> "none"], !.completions = <<>>]

-----------------------------------------------------------------------------

Init == broker = New
Admit == CanAdmit(broker) /\ broker' = Admitted(broker)
Resolve(id, cancel) == broker' = Resolved(broker, id, cancel)
Free(id) == broker' = Freed(broker, id)
Drain == broker.completions # <<>> /\ broker' = DrainedOne(broker)
Take(id) == CanTake(broker, id) /\ broker' = Taken(broker, id)
DiscardAll == broker' = Discarded(broker)

Next ==
  \/ Admit \/ Drain \/ DiscardAll
  \/ \E id \in Ids :
       \/ \E cancel \in BOOLEAN : Resolve(id, cancel)
       \/ Free(id)
       \/ Take(id)

Spec == Init /\ [][Next]_broker

-----------------------------------------------------------------------------

\* The map and the queue hold issued ids only, and the counter stops before it overflows
\* (admit).
TypeOK == broker \in Broker

\* The queue holds exactly the operations whose outcome nobody has drained, each once; and
\* no id from next_id on has been used (drain and free keep the map and the queue in step).
CompletionsExact ==
  /\ \A id \in Ids : broker.op[id] = "queued"
                       <=> \E i \in 1 .. Len(broker.completions) : broker.completions[i] = id
  /\ \A i, j \in 1 .. Len(broker.completions) :
       broker.completions[i] = broker.completions[j] => i = j
  /\ \A id \in Ids : id >= broker.next_id => broker.op[id] = "none"

\* The map never holds more than max_operations entries, the freed operations whose task
\* is still running included (admit).
WithinCapacity == Cardinality(Live(broker)) <= MaxOperations

\* A handle is never handed out twice and an operation never goes back: an id only moves
\* along pending, queued, drained or pending, discarding, and once gone it stays gone, so a
\* late outcome cannot reach an operation it does not belong to.
Rank(s) == CASE s = "pending" -> 1 [] s = "queued" -> 2 [] s = "drained" -> 3
             [] s = "discarding" -> 4 [] OTHER -> 5
NeverBack ==
  [][\A id \in Ids :
       IF id < broker.next_id THEN Rank(broker'.op[id]) >= Rank(broker.op[id])
       ELSE broker'.op[id] \in {"none", "pending"}]_broker
=============================================================================
