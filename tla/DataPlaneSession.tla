-------------------------- MODULE DataPlaneSession --------------------------
(***************************************************************************)
(* gateway/dataplane/session.rs: sockets for a host, as resources opened   *)
(* and used by asynchronous operations of an OperationBroker.  The session *)
(* keeps by hand a resource table, the operations pending on each          *)
(* resource, and two counts of reservations; and it wakes hosts that wait  *)
(* for completions after it has given up its lock.  Every step below       *)
(* except Notify and the waiters' is one hold of the state lock.           *)
(***************************************************************************)
EXTENDS OperationBroker, FiniteSetsExt

CONSTANTS
  Kinds,             \* the kinds of operation the host submits
  Sizes,             \* the read sizes it asks for, all within max_read_size
  MaxResources,      \* limits.max_resources
  MaxResultBytes,    \* limits.max_result_bytes
  MaxResourceId,     \* stands for u64::MAX, never given out
  Waiters,           \* threads in completion_wait
  AsyncWaiters,      \* tasks in completion_notified
  MaxDiscards        \* bound: calls of discard_all

\* The type of resource each kind works on and the one it opens.
Needs ==
  [tcp_connect |-> "none", tcp_bind |-> "none", udp_bind |-> "none", tcp_accept |-> "listener",
   tcp_read |-> "tcp", tcp_write |-> "tcp", tcp_shutdown |-> "tcp",
   udp_receive |-> "udp", udp_send |-> "udp"]
Creates ==
  [tcp_connect |-> "tcp", tcp_bind |-> "listener", udp_bind |-> "udp", tcp_accept |-> "tcp",
   tcp_read |-> "none", tcp_write |-> "none", tcp_shutdown |-> "none",
   udp_receive |-> "none", udp_send |-> "none"]
Reads == {"tcp_read", "udp_receive"}

ASSUME SessionAssumption ==
  /\ MaxResources \in Nat /\ MaxResultBytes \in Nat /\ MaxDiscards \in Nat
  /\ MaxResourceId \in Nat \ {0}
  /\ Sizes \subseteq Nat /\ Kinds \subseteq DOMAIN Needs

VARIABLES
  lifecycle,         \* SessionLifecycle
  entries,           \* resources.entries: type "none" when not in the table
  next_resource,     \* resources.next_resource_id
  reserved,          \* resources.reserved
  retained,          \* retained_result_bytes
  meta,              \* OperationMetadata of each operation, with its kind
  created,           \* the resource in an operation's outcome, 0 for none
  task,              \* the spawned future, and whether its token is cancelled
  handed,            \* ghost: open resources whose id the host has taken
  generation,        \* broker.wake_generation, counted by discard_all and stop
  notes,             \* threads between drop(state) and notify_completion
  waiter, permit, async  \* threads at the condvar, the Notify permit, tasks at it

session == <<lifecycle, entries, next_resource, reserved, retained, meta, created, task, handed, generation>>
waiting == <<waiter, permit, async>>
vars == <<broker, session, notes, waiting>>

Resources == 1 .. (MaxResourceId - 1)
Entry == [type : {"none", "tcp", "listener", "udp"}, pending : SUBSET Ids]
Meta == [kind : DOMAIN Needs, target : 0 .. MaxResourceId, bytes : Nat, reserves : BOOLEAN]
Closed == [type |-> "none", pending |-> {}]
Open == {r \in Resources : entries[r].type # "none"}
NoMeta == [kind |-> "tcp_connect", target |-> 0, bytes |-> 0, reserves |-> FALSE]
Holding(id) == broker.op[id] \in {"pending", "queued", "drained"}
Bytes(S) == MapThenSumSet(LAMBDA id : meta[id].bytes, S)
Minus(a, b) == IF a > b THEN a - b ELSE 0
\* The orders in which a hash set of operations can be walked.
Orders(S) == {q \in [1 .. Cardinality(S) -> S] : \A i, j \in DOMAIN q : q[i] = q[j] => i = j}

SessionInit ==
  /\ Init
  /\ lifecycle = "created" /\ entries = [r \in Resources |-> Closed] /\ next_resource = 1
  /\ reserved = 0 /\ retained = 0 /\ handed = {} /\ generation = 0 /\ notes = 0
  /\ meta = [id \in Ids |-> NoMeta] /\ created = [id \in Ids |-> 0]
  /\ task = [id \in Ids |-> "none"]
  /\ waiter = [w \in Waiters |-> [at |-> "out", gen |-> 0]]
  /\ permit = FALSE /\ async = [a \in AsyncWaiters |-> "out"]

Start ==
  /\ lifecycle = "created" /\ lifecycle' = "running"
  /\ UNCHANGED <<broker, entries, next_resource, reserved, retained, meta, created, task,
                 handed, generation, notes, waiting>>

-----------------------------------------------------------------------------
\* submit_*: the resource is looked up, then admit_locked checks the limits in turn; the
\* future is spawned after the lock is dropped, and a read of no bytes completes there.

Admits(kind, bytes) ==
  /\ lifecycle = "running"
  /\ retained + bytes <= MaxResultBytes
  /\ Creates[kind] # "none" => Cardinality(Open) + reserved < MaxResources
  /\ CanAdmit(broker)

Submit(kind, r, bytes) ==
  /\ IF Needs[kind] = "none" THEN r = 0 ELSE r # 0 /\ entries[r].type = Needs[kind]
  /\ kind \notin Reads => bytes = 0
  /\ Admits(kind, bytes)
  /\ LET id == broker.next_id
         reserves == Creates[kind] # "none"
     IN /\ broker' = Admitted(broker)
        /\ meta' = [meta EXCEPT ![id] =
             [kind |-> kind, target |-> r, bytes |-> bytes, reserves |-> reserves]]
        /\ retained' = retained + bytes
        /\ reserved' = IF reserves THEN reserved + 1 ELSE reserved
        /\ entries' = IF r = 0 THEN entries ELSE [entries EXCEPT ![r].pending = @ \cup {id}]
        /\ task' = [task EXCEPT ![id] = "running"]
  /\ UNCHANGED <<lifecycle, next_resource, created, handed, generation, notes, waiting>>

-----------------------------------------------------------------------------
\* What the handlers share: the operations of S are unlinked from their targets and give
\* their reservations back, and the resources of C leave the table.  The kind and target of
\* an operation are read only while it is pending and are forgotten with the rest.
\* Mutant: the byte reservation is forgotten.
SettleKeepsBytes(S, C) ==
  /\ meta' = [id \in Ids |-> IF id \in S THEN NoMeta ELSE meta[id]]
  /\ reserved' = Minus(reserved, Cardinality({id \in S : meta[id].reserves}))
  /\ entries' = [r \in Resources |->
       IF r \in C THEN Closed
       ELSE [entries[r] EXCEPT !.pending = @ \ {id \in S : meta[id].target = r}]]
  /\ handed' = handed \ C
  /\ UNCHANGED retained
Settle(S, C) ==
  /\ meta' = [id \in Ids |-> IF id \in S THEN NoMeta ELSE meta[id]]
  /\ retained' = Minus(retained, Bytes(S))
  /\ reserved' = Minus(reserved, Cardinality({id \in S : meta[id].reserves}))
  /\ entries' = [r \in Resources |->
       IF r \in C THEN Closed
       ELSE [entries[r] EXCEPT !.pending = @ \ {id \in S : meta[id].target = r}]]
  /\ handed' = handed \ C

\* queue_error_locked on each operation of S, all of them pending, from the broker b.
CancelAll(b, S) ==
  \E q \in Orders(S) :
    broker' = [b EXCEPT !.op = [id \in Ids |-> IF id \in S THEN "queued" ELSE @[id]],
                        !.completions = @ \o q]
\* The tokens of S are cancelled; a task that has ended does not care.
Signal(S) ==
  task' = [id \in Ids |-> IF id \in S /\ task[id] = "running" THEN "cancelled" ELSE task[id]]
\* A call notifies when it made the queue of b non-empty; where nobody ever waits, the
\* notifications are not counted.
OneMoreNote == notes' = IF Waiters \cup AsyncWaiters = {} THEN 0 ELSE notes + 1
NotesAfter(b, S) == IF b.completions = <<>> /\ S # {} THEN OneMoreNote ELSE UNCHANGED notes
PendingOn(r) == {id \in entries[r].pending : broker.op[id] = "pending"}

-----------------------------------------------------------------------------
\* The bytes an outcome keeps: the capacity of its buffer.
Kept(id) == IF meta[id].kind = "udp_receive" THEN 0 .. meta[id].bytes ELSE {meta[id].bytes}

\* finalize_success_locked: a new resource enters the table and its reservation ends.
Finalize(id, kept) ==
  LET type == Creates[meta[id].kind]
      r    == IF type = "none" THEN 0 ELSE next_resource
  IN /\ meta' = [meta EXCEPT ![id] = [NoMeta EXCEPT !.bytes = kept]]
     /\ retained' = retained - (meta[id].bytes - kept)
     /\ reserved' = Minus(reserved, IF meta[id].reserves THEN 1 ELSE 0)
     /\ entries' = [i \in Resources |->
          IF i = r THEN [type |-> type, pending |-> {}]
          ELSE IF i = meta[id].target THEN [entries[i] EXCEPT !.pending = @ \ {id}]
          ELSE entries[i]]
     /\ next_resource' = IF r = 0 THEN next_resource ELSE next_resource + 1
     /\ created' = [created EXCEPT ![id] = r]
     /\ UNCHANGED handed

\* complete_operation, run by the future when it ends: its outcome counts only if the
\* operation is still pending; a resource it brought is dropped otherwise.
\* Mutant: the resource counter is not checked for overflow.
TaskEndsUnchecked(id) ==
  /\ task[id] # "none"
  /\ task' = [task EXCEPT ![id] = "none"]
  /\ broker' = Resolved(broker, id, FALSE)
  /\ IF broker.op[id] = "pending"
     THEN /\ NotesAfter(broker, {id})
          /\ \/ \E kept \in Kept(id) : Finalize(id, kept)
             \/ Settle({id}, {}) /\ UNCHANGED <<next_resource, created>>
     ELSE UNCHANGED <<meta, retained, reserved, entries, next_resource, created, handed, notes>>
  /\ UNCHANGED <<lifecycle, generation, waiting>>
TaskEnds(id) ==
  /\ task[id] # "none"
  /\ task' = [task EXCEPT ![id] = "none"]
  /\ broker' = Resolved(broker, id, FALSE)
  /\ IF broker.op[id] = "pending"
     THEN /\ NotesAfter(broker, {id})
          /\ \/ /\ Creates[meta[id].kind] # "none" => next_resource < MaxResourceId
                /\ \E kept \in Kept(id) : Finalize(id, kept)
             \/ Settle({id}, {}) /\ UNCHANGED <<next_resource, created>>
     ELSE UNCHANGED <<meta, retained, reserved, entries, next_resource, created, handed, notes>>
  /\ UNCHANGED <<lifecycle, generation, waiting>>

\* cancel_operation: a pending write is only asked to stop, since part of it may be sent.
CancelOperation(id) ==
  /\ broker.op[id] = "pending"
  /\ Signal({id})
  /\ IF meta[id].kind = "tcp_write"
     THEN UNCHANGED <<broker, meta, retained, reserved, entries, handed, notes>>
     ELSE CancelAll(broker, {id}) /\ Settle({id}, {}) /\ NotesAfter(broker, {id})
  /\ UNCHANGED <<lifecycle, next_resource, created, generation, waiting>>

\* free_operation: an outcome nobody took is discarded with the resource it opened.
\* Mutant: the discarded outcome's resource stays open.
FreeKeepsResource(id) ==
  /\ Holding(id)
  /\ broker' = Freed(broker, id) /\ Settle({id}, {})
  /\ Signal(IF broker.op[id] = "pending" THEN {id} ELSE {})
  /\ created' = [created EXCEPT ![id] = 0]
  /\ UNCHANGED <<lifecycle, next_resource, generation, notes, waiting>>
FreeOperation(id) ==
  /\ Holding(id)
  /\ LET r == IF broker.op[id] = "pending" THEN 0 ELSE created[id]
         victims == IF r \in Open THEN PendingOn(r) ELSE {}
     IN /\ CancelAll(Freed(broker, id), victims)
        /\ Settle({id} \cup victims, {r})
        /\ Signal({id} \cup victims)
        /\ NotesAfter(Freed(broker, id), victims)
  /\ created' = [created EXCEPT ![id] = 0]
  /\ UNCHANGED <<lifecycle, next_resource, generation, waiting>>

\* Mutant: the operations pending on a closed resource are left to themselves.
CloseLeavesPending(r) ==
  /\ entries' = [entries EXCEPT ![r] = Closed]
  /\ r \in Open
  /\ handed' = handed \ {r}
  /\ UNCHANGED <<broker, meta, retained, reserved, task, notes>>
  /\ UNCHANGED <<lifecycle, next_resource, created, generation, waiting>>
CloseResource(r) ==
  /\ r \in Open
  /\ CancelAll(broker, PendingOn(r)) /\ Settle(PendingOn(r), {r})
  /\ Signal(PendingOn(r)) /\ NotesAfter(broker, PendingOn(r))
  /\ UNCHANGED <<lifecycle, next_resource, created, generation, waiting>>

DrainCompletion == Drain /\ UNCHANGED <<session, notes, waiting>>

\* take_result_with: the host has the outcome, and with it the id of a resource.
TakeResult(id) ==
  /\ Take(id)
  /\ retained' = Minus(retained, meta[id].bytes) /\ meta' = [meta EXCEPT ![id].bytes = 0]
  /\ handed' = handed \cup ({created[id]} \cap Open)
  /\ created' = [created EXCEPT ![id] = 0]
  /\ UNCHANGED <<lifecycle, entries, next_resource, reserved, task, generation, notes, waiting>>

Emptied == entries' = [r \in Resources |-> Closed] /\ handed' = {}

\* discard_all: everything is dropped at once, and the session goes on.
DiscardEverything ==
  /\ generation < MaxDiscards
  /\ broker' = Discarded(broker) /\ Emptied /\ Signal(Live(broker))
  /\ meta' = [id \in Ids |-> NoMeta] /\ created' = [id \in Ids |-> 0]
  /\ reserved' = 0 /\ retained' = 0
  /\ generation' = generation + 1 /\ OneMoreNote
  /\ UNCHANGED <<lifecycle, next_resource, waiting>>

\* stop: every pending operation gets InstanceStopped and every resource is dropped.
Stop ==
  /\ lifecycle # "stopped" /\ lifecycle' = "stopped"
  /\ LET pending == {id \in Ids : broker.op[id] = "pending"}
     IN CancelAll(broker, pending) /\ Settle(pending, Resources) /\ Signal(pending)
  /\ generation' = generation + 1 /\ OneMoreNote
  /\ UNCHANGED <<next_resource, created, waiting>>

-----------------------------------------------------------------------------
\* notify_completion, after the lock is gone: notify_all on the condvar, notify_one on
\* the tokio Notify, which keeps one permit when no task is waiting (external).
Notify ==
  /\ notes > 0 /\ notes' = notes - 1
  /\ waiter' = [w \in Waiters |-> IF waiter[w].at = "waiting" THEN [waiter[w] EXCEPT !.at = "woken"]
                                  ELSE waiter[w]]
  /\ \/ \E a \in AsyncWaiters : /\ async[a] = "await" /\ async' = [async EXCEPT ![a] = "check"]
                                /\ UNCHANGED permit
     \/ /\ \A a \in AsyncWaiters : async[a] # "await"
        /\ permit' = TRUE /\ UNCHANGED async
  /\ UNCHANGED <<broker, session>>

\* completion_wait returns at once, or waits while nothing it waits for has happened.
NothingYet(gen) ==
  broker.completions = <<>> /\ lifecycle # "stopped" /\ generation = gen
Wait(w) ==
  /\ waiter[w].at = "out" /\ NothingYet(generation)
  /\ waiter' = [waiter EXCEPT ![w] = [at |-> "waiting", gen |-> generation]]
  /\ UNCHANGED <<broker, session, notes, permit, async>>
\* Mutant: a woken thread polls for a completion and nothing else.
WokenPolls(w) ==
  /\ waiter[w].at = "woken"
  /\ waiter' = [waiter EXCEPT ![w].at = IF broker.completions = <<>> THEN "woken" ELSE "out"]
  /\ UNCHANGED <<broker, session, notes, permit, async>>
Woken(w) ==
  /\ waiter[w].at = "woken"
  /\ waiter' = [waiter EXCEPT ![w].at = IF NothingYet(waiter[w].gen) THEN "waiting" ELSE "out"]
  /\ UNCHANGED <<broker, session, notes, permit, async>>
WaitTimeout(w) ==
  /\ waiter[w].at # "out"
  /\ waiter' = [waiter EXCEPT ![w].at = "out"]
  /\ UNCHANGED <<broker, session, notes, permit, async>>

\* completion_notified: the queue and the lifecycle are read under two holds of the lock,
\* and only then does the task register with the Notify.
CallNotified(a) ==
  /\ async[a] = "out"
  /\ async' = [async EXCEPT ![a] = "check"]
  /\ UNCHANGED <<broker, session, notes, waiter, permit>>
\* Mutant: the task awaits the Notify without looking at its permit first.
NotifiedIgnoresPermit(a) ==
  /\ \/ /\ async[a] = "check"
        /\ async' = [async EXCEPT ![a] = IF broker.completions # <<>> THEN "out" ELSE "alive"]
     \/ /\ async[a] = "alive"
        /\ async' = [async EXCEPT ![a] = IF lifecycle = "stopped" THEN "out" ELSE "await"]
  /\ UNCHANGED <<broker, session, notes, waiter, permit>>
Notified(a) ==
  /\ \/ /\ async[a] = "check"
        /\ async' = [async EXCEPT ![a] = IF broker.completions # <<>> THEN "out" ELSE "alive"]
        /\ UNCHANGED permit
     \/ /\ async[a] = "alive"
        /\ async' = [async EXCEPT ![a] = IF lifecycle = "stopped" THEN "out" ELSE "register"]
        /\ UNCHANGED permit
     \/ /\ async[a] = "register"
        /\ async' = [async EXCEPT ![a] = IF permit THEN "check" ELSE "await"]
        /\ permit' = FALSE
  /\ UNCHANGED <<broker, session, notes, waiter>>

-----------------------------------------------------------------------------

SessionNext ==
  \/ Start \/ DrainCompletion \/ DiscardEverything \/ Stop \/ Notify
  \/ \E kind \in Kinds, r \in Resources \cup {0}, bytes \in Sizes : Submit(kind, r, bytes)
  \/ \E id \in Ids : TaskEnds(id) \/ CancelOperation(id) \/ FreeOperation(id) \/ TakeResult(id)
  \/ \E r \in Resources : CloseResource(r)
  \/ \E w \in Waiters : Wait(w) \/ Woken(w) \/ WaitTimeout(w)
  \/ \E a \in AsyncWaiters : CallNotified(a) \/ Notified(a)

SessionSpec == SessionInit /\ [][SessionNext]_vars

\* A cancelled future is polled to its end, threads that dropped the lock go on to notify,
\* and a woken thread or task runs.
SessionFairness ==
  /\ WF_vars(Notify)
  /\ \A id \in Ids : WF_vars(task[id] = "cancelled" /\ TaskEnds(id))
  /\ \A w \in Waiters : WF_vars(Woken(w))
  /\ \A a \in AsyncWaiters : WF_vars(Notified(a))
SessionFairSpec == SessionSpec /\ SessionFairness

-----------------------------------------------------------------------------

\* Tables, counters and waiters have their types, and no counter of the session goes below
\* zero or past the last id (finalize_success_locked, next_resource_id).
SessionTypeOK ==
  /\ TypeOK
  /\ lifecycle \in {"created", "running", "stopped"}
  /\ entries \in [Resources -> Entry]
  /\ next_resource \in 1 .. MaxResourceId
  /\ reserved \in Nat /\ retained \in Nat /\ notes \in Nat
  /\ generation \in 0 .. (MaxDiscards + 1)
  /\ meta \in [Ids -> Meta]
  /\ created \in [Ids -> 0 .. MaxResourceId]
  /\ task \in [Ids -> {"none", "running", "cancelled"}]
  /\ handed \subseteq Resources
  /\ waiter \in [Waiters -> [at : {"out", "waiting", "woken"}, gen : 0 .. (MaxDiscards + 1)]]
  /\ permit \in BOOLEAN
  /\ async \in [AsyncWaiters -> {"out", "check", "alive", "register", "await"}]

\* The two counters kept by hand are what the operations hold: one reservation for each
\* pending operation that will open a resource, and the bytes of every operation not yet
\* taken or freed; so neither leaks nor is given back twice, which saturating_sub would hide.
\* With the resources open they stay within the limits, so that a completion always finds
\* room for the resource it opens (admit_locked).
ReservationsBalanced ==
  /\ reserved = Cardinality({id \in Ids : broker.op[id] = "pending" /\ meta[id].reserves})
  /\ retained = Bytes({id \in Ids : Holding(id)})
  /\ Cardinality(Open) + reserved <= MaxResources /\ retained <= MaxResultBytes

\* An operation is in a resource's pending set exactly while it is pending on it, and no
\* pending operation targets a resource that is gone: closing one reaches all its operations.
PendingLinked ==
  /\ \A r \in Resources : \A id \in entries[r].pending :
       broker.op[id] = "pending" /\ meta[id].target = r
  /\ \A id \in Ids :
       broker.op[id] = "pending" /\ meta[id].target # 0 => id \in entries[meta[id].target].pending

\* Every open resource can be closed by somebody: the host has its id, or exactly one
\* completed operation that can still be taken or freed holds it; and a stopped session has
\* none, and no future left to itself (free_operation, complete_operation, stop).
NoOrphanResource ==
  /\ \A r \in Open \ handed :
       Cardinality({id \in Ids : broker.op[id] \in {"queued", "drained"} /\ created[id] = r}) = 1
  /\ lifecycle = "stopped" => Open = {} /\ \A id \in Ids : task[id] # "running"

\* No wakeup is lost: a thread or task asleep has nothing to wake up for, unless a call that
\* dropped the lock has yet to notify.
NoLostWakeup ==
  notes = 0 =>
    /\ \A w \in Waiters : waiter[w].at = "waiting" => NothingYet(waiter[w].gen)
    /\ \A a \in AsyncWaiters :
         async[a] = "await" \/ (async[a] = "register" /\ ~permit) => NothingYet(generation)

\* The slot of a freed operation is given back, as its future is cancelled and ends; and
\* stopping releases every host that waits, whatever it waits for (free_operation, stop,
\* wait_for_completion, completion_notified).
SessionUnblocks ==
  /\ \A id \in Ids : []<>(broker.op[id] # "discarding")
  /\ \A w \in Waiters : []<>(lifecycle = "stopped" => waiter[w].at = "out")
  /\ \A a \in AsyncWaiters : []<>(lifecycle = "stopped" => async[a] = "out")
=============================================================================
