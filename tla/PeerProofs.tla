----------------------------- MODULE PeerProofs -----------------------------
(***************************************************************************)
(* What holds, for every value of the constants, of an instance's start    *)
(* and stop, of the probe that tells whether a peer still lives, and of    *)
(* the handshakes over relays: no lock and no entry outlives the handshake *)
(* that made it.                                                           *)
(***************************************************************************)
EXTENDS RelayPeers, Lifecycle, PingProbe, WellFoundedInduction, TLAPS
-----------------------------------------------------------------------------
(* RelayPeers: no lock and no entry outlives its handshake.                *)

RelayMsgs ==
       [type : {"msg1"}, to : Peers, cid : Tasks, has : BOOLEAN]
  \union [type : {"msg2"}, to : Peers, cid : Tasks, action : {"create", "join", "sync"}, key : Keys \union {0}]
  \union [type : {"data"}, to : Peers, key : Keys \union {0}]
Acks == {m \in RelayMsgs : m.type = "msg2"}
TaskStates ==
  [pc : {"none", "start", "attempt", "wait"}, attempt : Nat, got : Acks \union {NoMsg}]

RelayTypes ==
  /\ sess \in [Peers -> [key : Keys \union {0}, fails : 0 .. FailThreshold - 1]]
  /\ buf \in [Peers -> 0 .. MaxPending]
  /\ backoff \in [Peers -> BOOLEAN] /\ sender \in [Peers -> BOOLEAN]
  /\ faults \in 0 .. MaxFaults
  /\ pending \in [Peers -> 0 .. MaxTasks] /\ lock \in [Peers -> 0 .. MaxTasks]
  /\ task \in [Peers -> [Tasks -> TaskStates]]
  /\ handling \in [Peers -> {m \in RelayMsgs : m.type = "msg1"} \union {NoMsg}]
  /\ net \subseteq RelayMsgs

\* What NothingOrphaned says of locks and entries, and that only a task which waits has
\* been given an ack.
Owned ==
  \A n \in Peers :
    /\ lock[n] # 0 => task[n][lock[n]].pc # "none"
    /\ pending[n] # 0 => task[n][pending[n]].pc = "wait" /\ task[n][pending[n]].got = NoMsg
    /\ \A t \in Tasks : task[n][t].got # NoMsg => task[n][t].pc = "wait"

RelayIInv == RelayTypes /\ Owned

\* A set of natural numbers that is not empty has a least one, and Least finds it.
LEMMA LeastIn ==
  ASSUME NEW S \in SUBSET Nat, S # {}
  PROVE  Least(S) \in S
<1>1. PICK x \in S : \A y \in S : ~(<<y, x>> \in OpToRel(<, Nat))
  BY WFMin, NatLessThanWellFounded, Zenon
<1>2. \A y \in S : ~(y < x)
  BY <1>1, Zenon DEF OpToRel
<1>3. \A y \in S : x <= y
  BY <1>2
<1> QED BY <1>3, Zenon DEF Least

\* The state of a task that does not run.
LEMMA NoTaskType == NoTask \in TaskStates /\ NoTask.pc = "none" /\ NoTask.got = NoMsg
BY DEF NoTask, TaskStates

\* A step that touches one task of one node, that node's lock and its entry.
LEMMA OwnedElsewhere ==
  ASSUME RelayIInv, NEW n \in Peers, NEW t \in Tasks,
         \A x \in Peers, u \in Tasks : <<x, u>> # <<n, t>> => task'[x][u] = task[x][u],
         \A x \in Peers \ {n} : lock'[x] = lock[x] /\ pending'[x] = pending[x],
         lock'[n] \in {0, t, lock[n]}, pending'[n] \in {0, t, pending[n]},
         lock'[n] = t => task'[n][t].pc # "none",
         pending'[n] = t => task'[n][t].pc = "wait" /\ task'[n][t].got = NoMsg,
         task'[n][t].got # NoMsg => task'[n][t].pc = "wait"
  PROVE  Owned'
<1> SUFFICES ASSUME NEW x \in Peers
             PROVE  /\ lock'[x] # 0 => task'[x][lock'[x]].pc # "none"
                    /\ pending'[x] # 0 => task'[x][pending'[x]].pc = "wait" /\ task'[x][pending'[x]].got = NoMsg
                    /\ \A u \in Tasks : task'[x][u].got # NoMsg => task'[x][u].pc = "wait"
  BY DEF Owned
<1>1. (lock[x] # 0 => lock[x] \in Tasks) /\ (pending[x] # 0 => pending[x] \in Tasks)
  BY RelayAssumption DEF RelayIInv, RelayTypes, Tasks
<1>2. CASE x = n
  BY <1>1, <1>2 DEF RelayIInv, Owned
<1>3. CASE x # n
  BY <1>1, <1>3 DEF RelayIInv, Owned
<1> QED BY <1>2, <1>3

\* A step that touches one task, which has no entry then, and frees locks and entries.
LEMMA OwnedLess ==
  ASSUME RelayIInv, NEW n \in Peers, NEW t \in Tasks,
         \A x \in Peers, u \in Tasks : <<x, u>> # <<n, t>> => task'[x][u] = task[x][u],
         \A x \in Peers : lock'[x] \in {0, lock[x]},
         \A x \in Peers : pending'[x] \in {0, pending[x]}, pending'[n] # t,
         lock'[n] = t => task'[n][t].pc # "none", task'[n][t].got = NoMsg
  PROVE  Owned'
<1> SUFFICES ASSUME NEW x \in Peers
             PROVE  /\ lock'[x] # 0 => task'[x][lock'[x]].pc # "none"
                    /\ pending'[x] # 0 => task'[x][pending'[x]].pc = "wait" /\ task'[x][pending'[x]].got = NoMsg
                    /\ \A u \in Tasks : task'[x][u].got # NoMsg => task'[x][u].pc = "wait"
  BY DEF Owned
<1>1. (lock[x] # 0 => lock[x] \in Tasks) /\ (pending[x] # 0 => pending[x] \in Tasks)
  BY RelayAssumption DEF RelayIInv, RelayTypes, Tasks
<1>2. CASE x = n
  BY <1>1, <1>2 DEF RelayIInv, Owned
<1>3. CASE x # n
  BY <1>1, <1>3 DEF RelayIInv, Owned
<1> QED BY <1>2, <1>3

\* A task that ends frees its lock: right when its entry is gone.
LEMMA EndedKeeps ==
  ASSUME RelayIInv, NEW n \in Peers, NEW t \in Tasks, Ended(n, t),
         pending' \in [Peers -> 0 .. MaxTasks],
         \A x \in Peers : pending'[x] \in {0, pending[x]}, pending'[n] # t
  PROVE  /\ Owned' /\ task' \in [Peers -> [Tasks -> TaskStates]]
         /\ lock' \in [Peers -> 0 .. MaxTasks]
<1> USE RelayAssumption
<1>1. /\ task' \in [Peers -> [Tasks -> TaskStates]] /\ task'[n][t] = NoTask
      /\ \A x \in Peers, u \in Tasks : <<x, u>> # <<n, t>> => task'[x][u] = task[x][u]
  BY NoTaskType DEF Ended, RelayIInv, RelayTypes
<1>2. lock' = [lock EXCEPT ![n] = IF @ = t THEN 0 ELSE @]
  BY DEF Ended
<1>3. /\ lock' \in [Peers -> 0 .. MaxTasks] /\ t \in 1 .. MaxTasks
      /\ \A x \in Peers : lock'[x] \in {0, lock[x]}
      /\ lock'[n] # t
  BY <1>2 DEF RelayIInv, RelayTypes, Tasks
<1> QED BY <1>1, <1>3, NoTaskType, OwnedLess

\* So does one whose attempt failed, and it goes on with another attempt or ends.
LEMMA AttemptFailedKeeps ==
  ASSUME RelayIInv, NEW n \in Peers, NEW t \in Tasks, AttemptFailed(n, t), task[n][t].pc # "none",
         pending' \in [Peers -> 0 .. MaxTasks],
         \A x \in Peers : pending'[x] \in {0, pending[x]}, pending'[n] # t
  PROVE  /\ Owned' /\ task' \in [Peers -> [Tasks -> TaskStates]]
         /\ lock' \in [Peers -> 0 .. MaxTasks] /\ buf' \in [Peers -> 0 .. MaxPending]
         /\ backoff' \in [Peers -> BOOLEAN]
<1> USE RelayAssumption
<1>1. backoff' \in [Peers -> BOOLEAN]
  BY DEF AttemptFailed, RelayIInv, RelayTypes
<1>2. CASE task[n][t].attempt + 1 < MaxAttempts
  <2> DEFINE r == [NoTask EXCEPT !.pc = "attempt", !.attempt = task[n][t].attempt + 1]
  <2>0. task[n][t].attempt \in Nat
    BY DEF RelayIInv, RelayTypes, TaskStates
  <2>1. r \in TaskStates /\ r.pc = "attempt" /\ r.got = NoMsg
    <3> DEFINE a == task[n][t].attempt + 1
    <3>1. a \in Nat
      BY <2>0
    <3> HIDE DEF a
    <3>2. [NoTask EXCEPT !.pc = "attempt", !.attempt = a] \in TaskStates
      BY <3>1, NoTaskType, Zenon DEF TaskStates
    <3>3. [NoTask EXCEPT !.pc = "attempt", !.attempt = a].got = NoMsg
      BY NoTaskType DEF NoTask
    <3> QED BY <3>2, <3>3, NoTaskType DEF a, TaskStates
  <2>2. task' = [task EXCEPT ![n][t] = r] /\ UNCHANGED <<lock, buf>>
    BY <1>2 DEF AttemptFailed
  <2> HIDE DEF r
  <2>3. /\ task' \in [Peers -> [Tasks -> TaskStates]] /\ task'[n][t] = r
        /\ \A x \in Peers, u \in Tasks : <<x, u>> # <<n, t>> => task'[x][u] = task[x][u]
    BY <2>1, <2>2 DEF RelayIInv, RelayTypes
  <2>4. /\ lock' \in [Peers -> 0 .. MaxTasks] /\ buf' \in [Peers -> 0 .. MaxPending]
        /\ \A x \in Peers : lock'[x] \in {0, lock[x]}
    BY <2>2 DEF RelayIInv, RelayTypes
  <2> QED BY <1>1, <2>1, <2>3, <2>4, OwnedLess
<1>3. CASE ~(task[n][t].attempt + 1 < MaxAttempts)
  <2>1. Ended(n, t) /\ buf' = EmptyBuf(n)
    BY <1>3 DEF AttemptFailed
  <2> QED BY <1>1, <2>1, EndedKeeps DEF EmptyBuf, RelayIInv, RelayTypes
<1> QED BY <1>2, <1>3

\* A task that ensure_session starts is one that did not run, and owns the lock.
LEMMA EnsureKeeps ==
  ASSUME RelayIInv, NEW n \in Peers, Ensure(n), pending' = pending
  PROVE  /\ Owned' /\ task' \in [Peers -> [Tasks -> TaskStates]]
         /\ lock' \in [Peers -> 0 .. MaxTasks]
<1> USE RelayAssumption
<1> DEFINE idle == {t \in Tasks : task[n][t].pc = "none"}
           t == Least(idle)
<1>1. CASE lock[n] = 0 /\ idle # {}
  <2>1. t \in idle
    <3>1. idle \in SUBSET Nat
      BY DEF Tasks
    <3> HIDE DEF idle
    <3> QED BY <1>1, <3>1, LeastIn
  <2>2. lock' = [lock EXCEPT ![n] = t] /\ task' = [task EXCEPT ![n][t].pc = "start"]
    BY <1>1 DEF Ensure
  <2>3. t \in Tasks /\ task[n][t].pc = "none"
    BY <2>1
  <2> HIDE DEF t, idle
  <2> DEFINE r == [task[n][t] EXCEPT !.pc = "start"]
  <2>4. r \in TaskStates /\ r.pc = "start" /\ r.got = task[n][t].got
    <3>1. task[n][t] \in TaskStates
      BY <2>3 DEF RelayIInv, RelayTypes
    <3> QED BY <3>1 DEF TaskStates
  <2>5. task' = [task EXCEPT ![n][t] = r]
    BY <2>2
  <2> HIDE DEF r
  <2>6. /\ task' \in [Peers -> [Tasks -> TaskStates]] /\ task'[n][t] = r
        /\ \A x \in Peers, u \in Tasks : <<x, u>> # <<n, t>> => task'[x][u] = task[x][u]
    BY <2>3, <2>4, <2>5 DEF RelayIInv, RelayTypes
  <2>7. lock' \in [Peers -> 0 .. MaxTasks] /\ lock'[n] = t
        /\ \A x \in Peers : x # n => lock'[x] = lock[x]
    BY <2>2, <2>3 DEF RelayIInv, RelayTypes, Tasks
  <2>8. task[n][t].got = NoMsg
    BY <2>3 DEF RelayIInv, Owned
  <2>9. \A x \in Peers \ {n} : lock'[x] = lock[x] /\ pending'[x] = pending[x]
    BY <2>7
  <2>10. pending[n] # t
    BY <2>3 DEF RelayIInv, Owned, Tasks
  <2>11. Owned'
    BY <2>3, <2>4, <2>6, <2>7, <2>8, <2>9, <2>10, OwnedElsewhere
  <2> QED BY <2>6, <2>7, <2>11
<1>2. CASE ~(lock[n] = 0 /\ idle # {})
  BY <1>2 DEF Ensure, RelayIInv, RelayTypes, Owned
<1> QED BY <1>1, <1>2

\* The three kinds of message, and what a flush adds.
LEMMA MessagesType ==
  ASSUME NEW n \in Peers
  PROVE  /\ \A cid \in Tasks, has \in BOOLEAN : Msg1(n, cid, has) \in RelayMsgs
         /\ \A cid \in Tasks, action \in {"create", "join", "sync"}, key \in Keys \union {0} :
              Msg2(n, cid, action, key) \in RelayMsgs
         /\ \A key \in Keys \union {0} : Data(n, key) \in RelayMsgs
         /\ \A key \in Keys \union {0}, msgs \in SUBSET RelayMsgs : Flushed(n, msgs, key) \in SUBSET RelayMsgs
<1>1. Other(n) \in Peers
  BY DEF Other, Peers
<1>2. \A cid \in Tasks, has \in BOOLEAN : Msg1(n, cid, has) \in RelayMsgs
  BY <1>1 DEF Msg1, RelayMsgs
<1>3. \A cid \in Tasks, action \in {"create", "join", "sync"}, key \in Keys \union {0} :
        Msg2(n, cid, action, key) \in RelayMsgs
  BY <1>1 DEF Msg2, RelayMsgs
<1>4. \A key \in Keys \union {0} : Data(n, key) \in RelayMsgs
  BY <1>1 DEF Data, RelayMsgs
<1> QED BY <1>2, <1>3, <1>4 DEF Flushed

\* The responder's session has a key of its own, or a fresh one.
LEMMA UpsertType ==
  ASSUME RelayTypes, NEW n \in Peers, HasSession(n) \/ FreshKeys # {}, NEW has
  PROVE  /\ Upsert(n, has).key \in Keys \union {0}
         /\ Upsert(n, has).action \in {"create", "join", "sync"}
<1>1. sess[n].key \in Keys \union {0}
  BY DEF RelayTypes
<1>2. FreshKeys # {} => Least(FreshKeys) \in Keys
  <2>1. FreshKeys \in SUBSET Nat /\ FreshKeys \subseteq Keys
    BY RelayAssumption DEF FreshKeys, Keys
  <2> QED BY <2>1, LeastIn, Zenon
<1> QED BY <1>1, <1>2 DEF Upsert

\* The sending half and the handshake tasks.
LEMMA RelayTaskStep ==
  ASSUME RelayIInv, NEW n \in Peers,
         \/ SendMsg(n) \/ BufferPacket(n) \/ BackoffEnds(n)
         \/ \E t \in Tasks : TaskStep(n, t)
  PROVE  RelayIInv'
<1> USE RelayAssumption
<1>0. /\ sess[n].key \in Keys \union {0} /\ net \in SUBSET RelayMsgs
      /\ EmptyBuf(n) \in [Peers -> 0 .. MaxPending]
  BY DEF RelayIInv, RelayTypes, EmptyBuf
<1>1. CASE SendMsg(n)
  <2>1. CASE HasSession(n)
    BY <1>1, <1>0, <2>1, MessagesType DEF SendMsg, RelayIInv, RelayTypes, Owned
  <2>2. CASE ~HasSession(n)
    <3>1. Ensure(n) /\ pending' = pending /\ sender' = [sender EXCEPT ![n] = TRUE]
          /\ UNCHANGED <<net, sess, buf, backoff, handling, faults>>
      BY <1>1, <2>2 DEF SendMsg
    <3>2. Owned' /\ task' \in [Peers -> [Tasks -> TaskStates]] /\ lock' \in [Peers -> 0 .. MaxTasks]
      BY <3>1, EnsureKeeps
    <3> QED BY <3>1, <3>2, Zenon DEF RelayIInv, RelayTypes
  <2> QED BY <2>1, <2>2
<1>2. CASE BufferPacket(n)
  BY <1>2 DEF BufferPacket, RelayIInv, RelayTypes, Owned
<1>3. CASE BackoffEnds(n)
  BY <1>3 DEF BackoffEnds, RelayIInv, RelayTypes, Owned
<1>4. ASSUME NEW t \in Tasks, Start(n, t) PROVE RelayIInv'
  <2>1. CASE HasSession(n) \/ backoff[n]
    <3>1. /\ Ended(n, t) /\ buf' = EmptyBuf(n) /\ net' \in {net, Flushed(n, net, sess[n].key)}
          /\ UNCHANGED <<sess, pending, backoff, sender, handling, faults>>
      BY <1>4, <2>1 DEF Start
    <3>2. pending'[n] # t /\ \A x \in Peers : pending'[x] \in {0, pending[x]}
      BY <1>4, <3>1 DEF Start, RelayIInv, Owned, Tasks
    <3>3. Owned' /\ task' \in [Peers -> [Tasks -> TaskStates]] /\ lock' \in [Peers -> 0 .. MaxTasks]
      BY <3>1, <3>2, EndedKeeps DEF RelayIInv, RelayTypes
    <3>4. net' \subseteq RelayMsgs
      <4>1. Flushed(n, net, sess[n].key) \in SUBSET RelayMsgs
        BY <1>0, MessagesType
      <4> QED BY <1>0, <3>1, <4>1
    <3> QED BY <1>0, <3>1, <3>3, <3>4 DEF RelayIInv, RelayTypes
  <2>2. CASE ~HasSession(n) /\ ~backoff[n]
    <3>1. task' = [task EXCEPT ![n][t].pc = "attempt"] /\ task[n][t].pc = "start"
          /\ UNCHANGED <<sess, pending, backoff, sender, handling, faults, lock, buf, net>>
      BY <1>4, <2>2 DEF Start
    <3>2. task[n][t] \in TaskStates
      BY DEF RelayIInv, RelayTypes
    <3>3. /\ [task[n][t] EXCEPT !.pc = "attempt"] \in TaskStates
          /\ [task[n][t] EXCEPT !.pc = "attempt"].pc = "attempt"
          /\ [task[n][t] EXCEPT !.pc = "attempt"].got = task[n][t].got
      BY <3>2 DEF TaskStates
    <3>4. /\ task' \in [Peers -> [Tasks -> TaskStates]]
          /\ task'[n][t].pc = "attempt" /\ task'[n][t].got = task[n][t].got
          /\ \A x \in Peers, u \in Tasks : <<x, u>> # <<n, t>> => task'[x][u] = task[x][u]
      BY <3>1, <3>3 DEF RelayIInv, RelayTypes
    <3>5. pending[n] # t /\ task[n][t].got = NoMsg
      BY <3>1 DEF RelayIInv, Owned, Tasks
    <3>6. Owned'
      BY <3>1, <3>4, <3>5, OwnedElsewhere
    <3> QED BY <3>1, <3>4, <3>6 DEF RelayIInv, RelayTypes
  <2> QED BY <2>1, <2>2
<1>5. ASSUME NEW t \in Tasks, Attempt(n, t) PROVE RelayIInv'
  <2>1. /\ task[n][t].pc = "attempt" /\ task' = [task EXCEPT ![n][t].pc = "wait"]
        /\ net' = net \union {Msg1(n, t, HasSession(n))} /\ pending' = [pending EXCEPT ![n] = t]
        /\ UNCHANGED <<sess, lock, buf, backoff, sender, handling, faults>>
    BY <1>5 DEF Attempt
  <2>2. net' \subseteq RelayMsgs
    BY <1>0, <2>1, MessagesType, Zenon DEF HasSession
  <2>3. task[n][t] \in TaskStates /\ task[n][t].got = NoMsg
    BY <2>1 DEF RelayIInv, RelayTypes, Owned
  <2>4. /\ [task[n][t] EXCEPT !.pc = "wait"] \in TaskStates
        /\ [task[n][t] EXCEPT !.pc = "wait"].pc = "wait"
        /\ [task[n][t] EXCEPT !.pc = "wait"].got = NoMsg
    BY <2>3 DEF TaskStates
  <2>5. /\ task' \in [Peers -> [Tasks -> TaskStates]]
        /\ task'[n][t].pc = "wait" /\ task'[n][t].got = NoMsg
        /\ \A x \in Peers, u \in Tasks : <<x, u>> # <<n, t>> => task'[x][u] = task[x][u]
    BY <2>1, <2>4 DEF RelayIInv, RelayTypes
  <2>6. pending' \in [Peers -> 0 .. MaxTasks] /\ pending'[n] = t
        /\ \A x \in Peers \ {n} : pending'[x] = pending[x]
    BY <2>1 DEF RelayIInv, RelayTypes, Tasks
  <2>7. Owned'
    BY <2>1, <2>5, <2>6, OwnedElsewhere
  <2> QED BY <2>1, <2>2, <2>5, <2>6, <2>7 DEF RelayIInv, RelayTypes
<1>6. ASSUME NEW t \in Tasks, SendFails(n, t) \/ WaitFails(n, t) PROVE RelayIInv'
  <2>1. /\ AttemptFailed(n, t) /\ task[n][t].pc # "none" /\ faults' \in 0 .. MaxFaults
        /\ pending' = pending \/ pending' = [pending EXCEPT ![n] = 0]
        /\ WaitFails(n, t) => pending' = [pending EXCEPT ![n] = 0]
        /\ SendFails(n, t) => task[n][t].pc # "wait"
        /\ UNCHANGED <<sess, sender, handling, net>>
    BY <1>6 DEF SendFails, WaitFails, Fault, RelayIInv, RelayTypes
  <2>2. pending' \in [Peers -> 0 .. MaxTasks] /\ pending'[n] # t
        /\ \A x \in Peers : pending'[x] \in {0, pending[x]}
    <3>1. t # 0 /\ pending \in [Peers -> 0 .. MaxTasks]
      BY DEF Tasks, RelayIInv, RelayTypes
    <3>2. SendFails(n, t) => pending[n] # t
      BY <2>1, <3>1 DEF RelayIInv, Owned
    <3> QED BY <1>6, <2>1, <3>1, <3>2
  <2> QED BY <2>1, <2>2, AttemptFailedKeeps DEF RelayIInv, RelayTypes
<1>7. ASSUME NEW t \in Tasks, AckArrived(n, t) PROVE RelayIInv'
  <2> DEFINE m == task[n][t].got
             key == IF m.action = "join" THEN sess[n].key ELSE m.key
  <2>1. task[n][t].pc = "wait" /\ m # NoMsg /\ UNCHANGED <<pending, sender, handling, faults>>
    BY <1>7 DEF AckArrived
  <2>2. pending'[n] # t /\ \A x \in Peers : pending'[x] \in {0, pending[x]}
    BY <2>1 DEF RelayIInv, Owned, Tasks
  <2>3. key \in Keys \union {0}
    <3>1. m \in Acks
      BY <2>1 DEF RelayIInv, RelayTypes, TaskStates
    <3>2. m.key \in Keys \union {0}
      BY <3>1 DEF Acks, RelayMsgs
    <3> QED BY <1>0, <3>2
  <2>4. CASE m.cid = t /\ CanApply(n, m)
    <3>1. /\ sess' = [sess EXCEPT ![n].key = key] /\ backoff' = [backoff EXCEPT ![n] = FALSE]
          /\ net' = Flushed(n, net, key) /\ buf' = EmptyBuf(n) /\ Ended(n, t)
      BY <1>7, <2>4 DEF AckArrived
    <3>2. Owned' /\ task' \in [Peers -> [Tasks -> TaskStates]] /\ lock' \in [Peers -> 0 .. MaxTasks]
      BY <2>1, <2>2, <3>1, EndedKeeps DEF RelayIInv, RelayTypes
    <3> HIDE DEF key
    <3>3. net' \subseteq RelayMsgs
      BY <1>0, <2>3, <3>1, MessagesType, Zenon
    <3> QED BY <1>0, <2>1, <2>3, <3>1, <3>2, <3>3, Zenon DEF RelayIInv, RelayTypes
  <2>5. CASE ~(m.cid = t /\ CanApply(n, m))
    <3>1. AttemptFailed(n, t) /\ UNCHANGED <<sess, net>>
      BY <1>7, <2>5 DEF AckArrived
    <3> QED BY <2>1, <2>2, <3>1, AttemptFailedKeeps DEF RelayIInv, RelayTypes
  <2> QED BY <2>4, <2>5
<1> QED BY <1>1, <1>2, <1>3, <1>4, <1>5, <1>6, <1>7 DEF TaskStep

\* The receiving half.
LEMMA RelayReceiveStep ==
  ASSUME RelayIInv, NEW m \in net, Receive(m)
  PROVE  RelayIInv'
<1> USE RelayAssumption
<1> DEFINE n == m.to
<1>1. m \in RelayMsgs /\ n \in Peers /\ net' \subseteq RelayMsgs /\ faults' = faults
  BY DEF Receive, RelayIInv, RelayTypes, RelayMsgs
<1> HIDE DEF n
<1>2. CASE RecvMsg1(n, m)
  <2>1. pending' = pending \/ pending' = [pending EXCEPT ![n] = 0]
    BY <1>2 DEF RecvMsg1
  <2>2. pending' \in [Peers -> 0 .. MaxTasks] /\ \A x \in Peers : pending'[x] \in {0, pending[x]}
    BY <1>1, <2>1 DEF RelayIInv, RelayTypes
  <2>3. handling' \in [Peers -> {q \in RelayMsgs : q.type = "msg1"} \union {NoMsg}]
    BY <1>1, <1>2, Zenon DEF RecvMsg1, RelayIInv, RelayTypes
  <2> QED BY <1>1, <1>2, <2>2, <2>3 DEF RecvMsg1, RelayIInv, RelayTypes, Owned
<1>3. CASE RecvMsg2(n, m)
  <2>1. CASE pending[n] = 0
    BY <1>1, <1>3, <2>1 DEF RecvMsg2, RelayIInv, RelayTypes, Owned
  <2>2. CASE pending[n] # 0
    <3> DEFINE t == pending[n]
    <3>1. /\ t \in Tasks /\ m \in Acks /\ task' = [task EXCEPT ![n][t].got = m]
          /\ pending' = [pending EXCEPT ![n] = 0]
          /\ UNCHANGED <<sess, lock, buf, backoff, sender, handling>>
      BY <1>1, <1>3, <2>2 DEF RecvMsg2, RelayIInv, RelayTypes, Acks, Tasks
    <3>2. task[n][t].pc = "wait"
      BY <1>1, <2>2 DEF RelayIInv, Owned
    <3> HIDE DEF t
    <3>3. task[n][t] \in TaskStates
      BY <1>1, <3>1 DEF RelayIInv, RelayTypes
    <3>4. /\ [task[n][t] EXCEPT !.got = m] \in TaskStates
          /\ [task[n][t] EXCEPT !.got = m].pc = "wait"
      BY <3>1, <3>2, <3>3 DEF TaskStates
    <3>5. /\ task' \in [Peers -> [Tasks -> TaskStates]] /\ task'[n][t].pc = "wait"
          /\ \A x \in Peers, u \in Tasks : <<x, u>> # <<n, t>> => task'[x][u] = task[x][u]
      BY <1>1, <3>1, <3>4 DEF RelayIInv, RelayTypes
    <3>6. pending' \in [Peers -> 0 .. MaxTasks] /\ pending'[n] = 0
          /\ \A x \in Peers \ {n} : pending'[x] = pending[x]
      BY <1>1, <3>1 DEF RelayIInv, RelayTypes
    <3>7. t # 0
      BY <3>1 DEF Tasks
    <3>8. Owned'
      BY <1>1, <3>1, <3>5, <3>6, <3>7, OwnedElsewhere
    <3> QED BY <1>1, <3>1, <3>5, <3>6, <3>8 DEF RelayIInv, RelayTypes
  <2> QED BY <2>1, <2>2
<1>4. CASE RecvData(n, m)
  <2>1. CASE ~HasSession(n)
    <3>1. Ensure(n) /\ UNCHANGED <<sess, pending, buf, backoff, sender, handling>>
      BY <1>4, <2>1 DEF RecvData
    <3>2. Owned' /\ task' \in [Peers -> [Tasks -> TaskStates]] /\ lock' \in [Peers -> 0 .. MaxTasks]
      BY <1>1, <3>1, EnsureKeeps
    <3> QED BY <1>1, <3>1, <3>2 DEF RelayIInv, RelayTypes
  <2>2. CASE HasSession(n)
    <3> DEFINE s == IF sess[n].key = m.key THEN [sess[n] EXCEPT !.fails = 0] ELSE AfterFailure(sess[n])
    <3>1. sess' = [sess EXCEPT ![n] = s] /\ UNCHANGED <<lock, task, pending, buf, backoff, sender, handling>>
      BY <1>4, <2>2 DEF RecvData
    <3>2. sess[n] \in [key : Keys \union {0}, fails : 0 .. FailThreshold - 1]
      BY <1>1 DEF RelayIInv, RelayTypes
    <3>3. s \in [key : Keys \union {0}, fails : 0 .. FailThreshold - 1]
      BY <3>2 DEF AfterFailure, NoSession
    <3> HIDE DEF s
    <3> QED BY <1>1, <3>1, <3>3 DEF RelayIInv, RelayTypes, Owned
  <2> QED BY <2>1, <2>2
<1> QED BY <1>2, <1>3, <1>4 DEF Receive, n

\* The responder's answer and the faults.
LEMMA RelayFaultStep ==
  ASSUME RelayIInv,
         \/ \E n \in Peers : RespondMsg1(n) \/ RespondFails(n) \/ RemovePeer(n) \/ EvictSession(n) \/ Restart(n)
         \/ \E m \in net : Lose(m)
         \/ UNCHANGED vars
  PROVE  RelayIInv'
<1> USE RelayAssumption
<1>0. ASSUME NEW n \in Peers
      PROVE  /\ EmptyBuf(n) \in [Peers -> 0 .. MaxPending]
             /\ [sess EXCEPT ![n] = NoSession] \in [Peers -> [key : Keys \union {0}, fails : 0 .. FailThreshold - 1]]
             /\ \A k \in Keys \union {0} :
                  [sess EXCEPT ![n].key = k] \in [Peers -> [key : Keys \union {0}, fails : 0 .. FailThreshold - 1]]
  <2>1. sess[n] \in [key : Keys \union {0}, fails : 0 .. FailThreshold - 1]
    BY DEF RelayIInv, RelayTypes
  <2>2. NoSession \in [key : Keys \union {0}, fails : 0 .. FailThreshold - 1]
    BY DEF NoSession
  <2>3. \A k \in Keys \union {0} :
          [sess[n] EXCEPT !.key = k] \in [key : Keys \union {0}, fails : 0 .. FailThreshold - 1]
    BY <2>1
  <2>4. EmptyBuf(n) \in [Peers -> 0 .. MaxPending]
    BY DEF EmptyBuf, RelayIInv, RelayTypes
  <2> QED BY <2>2, <2>3, <2>4, Zenon DEF RelayIInv, RelayTypes
<1>1. ASSUME NEW n \in Peers, RespondMsg1(n) PROVE RelayIInv'
  <2> DEFINE m == handling[n]
             u == Upsert(n, m.has)
  <2>1. /\ m # NoMsg /\ (HasSession(n) \/ FreshKeys # {})
        /\ sess' = [sess EXCEPT ![n].key = u.key]
        /\ net' = Flushed(n, net \union {Msg2(n, m.cid, u.action, IF u.action = "join" THEN 0 ELSE u.key)}, u.key)
        /\ buf' = EmptyBuf(n) /\ backoff' = [backoff EXCEPT ![n] = FALSE]
        /\ handling' = [handling EXCEPT ![n] = NoMsg]
        /\ UNCHANGED <<pending, lock, task, sender, faults>>
    BY <1>1 DEF RespondMsg1
  <2>2. m.cid \in Tasks
    BY <2>1 DEF RelayIInv, RelayTypes, RelayMsgs
  <2>3. u.key \in Keys \union {0} /\ u.action \in {"create", "join", "sync"}
    BY <2>1, UpsertType DEF RelayIInv
  <2> HIDE DEF m, u
  <2>4. net \union {Msg2(n, m.cid, u.action, IF u.action = "join" THEN 0 ELSE u.key)} \in SUBSET RelayMsgs
    BY <2>2, <2>3, MessagesType DEF RelayIInv, RelayTypes
  <2>5. net' \in SUBSET RelayMsgs
    BY <2>1, <2>3, <2>4, MessagesType
  <2> QED BY <1>0, <2>1, <2>3, <2>5, Zenon DEF RelayIInv, RelayTypes, Owned
<1>2. ASSUME NEW n \in Peers, RespondFails(n) PROVE RelayIInv'
  <2>1. sess' \in [Peers -> [key : Keys \union {0}, fails : 0 .. FailThreshold - 1]]
    <3>1. CASE UNCHANGED sess
      BY <3>1 DEF RelayIInv, RelayTypes
    <3>2. CASE /\ HasSession(n) \/ FreshKeys # {}
               /\ sess' = [sess EXCEPT ![n].key = Upsert(n, handling[n].has).key]
      <4>1. Upsert(n, handling[n].has).key \in Keys \union {0}
        BY <3>2, UpsertType DEF RelayIInv
      <4> QED BY <1>0, <3>2, <4>1
    <3> QED BY <1>2, <3>1, <3>2 DEF RespondFails
  <2>2. /\ handling' = [handling EXCEPT ![n] = NoMsg] /\ faults < MaxFaults /\ faults' = faults + 1
        /\ backoff' = backoff \/ backoff' = [backoff EXCEPT ![n] = FALSE]
        /\ UNCHANGED <<pending, lock, buf, task, sender, net>>
    BY <1>2 DEF RespondFails, Fault
  <2>3. backoff' \in [Peers -> BOOLEAN]
    BY <2>2, Zenon DEF RelayIInv, RelayTypes
  <2>4. Owned'
    BY <2>2 DEF RelayIInv, Owned
  <2>5. handling' \in [Peers -> {m \in RelayMsgs : m.type = "msg1"} \union {NoMsg}]
    BY <2>2 DEF RelayIInv, RelayTypes
  <2>6. faults' \in 0 .. MaxFaults
    BY <2>2 DEF RelayIInv, RelayTypes
  <2> QED BY <2>1, <2>2, <2>3, <2>4, <2>5, <2>6 DEF RelayIInv, RelayTypes
<1>3. ASSUME NEW n \in Peers, RemovePeer(n) PROVE RelayIInv'
  BY <1>0, <1>3 DEF RemovePeer, Fault, RelayIInv, RelayTypes, Owned
<1>4. ASSUME NEW n \in Peers, EvictSession(n) PROVE RelayIInv'
  BY <1>0, <1>4 DEF EvictSession, Fault, RelayIInv, RelayTypes, Owned
<1>5. ASSUME NEW n \in Peers, Restart(n) PROVE RelayIInv'
  BY <1>0, <1>5, NoTaskType DEF Restart, Fault, RelayIInv, RelayTypes, Owned
<1>6. ASSUME NEW m \in net, Lose(m) PROVE RelayIInv'
  BY <1>6 DEF Lose, Fault, RelayIInv, RelayTypes, Owned
<1>7. CASE UNCHANGED vars
  BY <1>7 DEF vars, RelayIInv, RelayTypes, Owned
<1> QED BY <1>1, <1>2, <1>3, <1>4, <1>5, <1>6, <1>7

\* The inductive invariant holds in every behaviour.
LEMMA RelayInvariant == Spec => []RelayIInv
<1>1. Init => RelayIInv
  BY RelayAssumption, NoTaskType DEF Init, RelayIInv, RelayTypes, Owned, NoSession
<1>2. RelayIInv /\ [Next]_vars => RelayIInv'
  BY RelayTaskStep, RelayReceiveStep, RelayFaultStep DEF Next
<1> QED BY <1>1, <1>2, PTL DEF Spec

\* For any number of attempts, tasks, buffered packets, failures and faults: no
\* handshake_lock and no pending_handshakes entry outlives its task, whatever was lost,
\* evicted or restarted.  (That a fresh key is left is a bound of the model.)
THEOREM RelayNothingOrphaned == Spec => [](FreshKeys # {} => NothingOrphaned)
<1>1. RelayIInv => (FreshKeys # {} => NothingOrphaned)
  BY DEF RelayIInv, RelayTypes, Owned, NothingOrphaned, TypeOK
<1> QED BY <1>1, RelayInvariant, PTL

-----------------------------------------------------------------------------
(* Lifecycle: nothing is left half started.                                *)

LcFutures ==
  [does : {"none", "start", "stop", "recovery"},
   at : {"new", "over", "lock", "spawned", "starting", "check", "stopping"}, i : 1 .. 6]

AllAre(s) == \A c \in Components : comp[c] = s

\* How far the holder of the lock has come.
StartedTo(i) ==
  \A k \in 1 .. 5 : /\ k < i => comp[StartOrder[k]] = "up"
                    /\ k = i => comp[StartOrder[k]] # "up"
                    /\ k > i => comp[StartOrder[k]] = "down"
StoppedTo(i) == \A k \in 1 .. 5 : k < i => comp[StopOrder[k]] = "down"

Holding(t) ==
  CASE op[t].at = "starting" -> instState = "Starting" /\ op[t].does = "start" /\ StartedTo(op[t].i)
    [] op[t].at = "check" -> instState = "Running" /\ op[t].does = "start" /\ AllAre("up")
    [] op[t].at = "stopping" -> instState = "Stopping" /\ StoppedTo(op[t].i)
    [] OTHER -> FALSE

\* NothingLeftHalf is inductive with the progress of the holder, what a new instance is,
\* and where a recovery can be.
LcIInv ==
  /\ LcTypeOK
  /\ op \in [Callers -> LcFutures] /\ operation \in Callers \union {NobodyHolds} /\ drops \in 0 .. MaxDrops
  /\ \A t \in Callers : op[t].does = "recovery" => op[t].at \in {"spawned", "lock", "stopping"}
  /\ \A t \in Callers : operation = t => Holding(t)
  /\ instState = "Created" => AllAre("down")
  /\ NothingLeftHalf

\* The orders in which the services start and stop name each of them once.
LEMMA Orders ==
  /\ Len(StartOrder) = 5 /\ Len(StopOrder) = 5
  /\ \A k \in 1 .. 5 : StartOrder[k] \in Components /\ StopOrder[k] \in Components
  /\ \A k, j \in 1 .. 5 : k # j => StartOrder[k] # StartOrder[j] /\ StopOrder[k] # StopOrder[j]
  /\ \A c \in Components : (\E k \in 1 .. 5 : c = StartOrder[k]) /\ (\E k \in 1 .. 5 : c = StopOrder[k])
<1>1. /\ StartOrder[1] = "listener" /\ StartOrder[2] = "egress" /\ StartOrder[3] = "peers"
      /\ StartOrder[4] = "host" /\ StartOrder[5] = "dataplane" /\ Len(StartOrder) = 5
  BY DEF StartOrder
<1>2. /\ StopOrder[1] = "listener" /\ StopOrder[2] = "dataplane" /\ StopOrder[3] = "host"
      /\ StopOrder[4] = "peers" /\ StopOrder[5] = "egress" /\ Len(StopOrder) = 5
  BY DEF StopOrder
<1>3. \A k \in 1 .. 5 : k = 1 \/ k = 2 \/ k = 3 \/ k = 4 \/ k = 5
  OBVIOUS
<1>4. \A k \in 1 .. 5 : StartOrder[k] \in Components /\ StopOrder[k] \in Components
  BY <1>1, <1>2, <1>3 DEF Components
<1>5. \A k, j \in 1 .. 5 : k # j => StartOrder[k] # StartOrder[j]
  BY <1>1, <1>3
<1>6. \A k, j \in 1 .. 5 : k # j => StopOrder[k] # StopOrder[j]
  BY <1>2, <1>3
<1>7. \A c \in Components : (\E k \in 1 .. 5 : c = StartOrder[k]) /\ (\E k \in 1 .. 5 : c = StopOrder[k])
  BY <1>1, <1>2 DEF Components
<1> QED BY <1>1, <1>2, <1>4, <1>5, <1>6, <1>7

\* A start that passed the last service has started all of them.
LEMMA StartedAll == ASSUME LcIInv, NEW i \in 1 .. 6, i > 5, StartedTo(i) PROVE AllAre("up")
BY Orders DEF StartedTo, AllAre

\* A stop that passed the last service has stopped all of them.
LEMMA StoppedAll == ASSUME LcIInv, NEW i \in 1 .. 6, i > 5, StoppedTo(i) PROVE AllAre("down")
BY Orders DEF StoppedTo, AllAre

\* A step of caller t that leaves the components and the holder alone: a recovery may
\* begin, and one may only end here when nothing is left to take down.
LEMMA Bystander ==
  ASSUME LcIInv, NEW t \in Callers, NEW f \in LcFutures, op' = [op EXCEPT ![t] = f],
         UNCHANGED <<instState, comp, operation>>, operation # t,
         f.at \notin {"starting", "check", "stopping"},
         f.does = "recovery" => f.at \in {"spawned", "lock"},
         op[t].does = "recovery" => f.does = "recovery" \/ instState = "Stopped",
         drops' \in 0 .. MaxDrops
  PROVE  LcIInv'
<1>1. /\ op' \in [Callers -> LcFutures] /\ op'[t] = f
      /\ \A u \in Callers : u # t => op'[u] = op[u]
  BY DEF LcIInv
<1>2. LcTypeOK'
  BY <1>1 DEF LcIInv, LcTypeOK
<1>3. \A u \in Callers : operation' = u => Holding(u)'
  BY <1>1 DEF LcIInv, Holding, StartedTo, StoppedTo, AllAre
<1>4. NothingLeftHalf'
  BY <1>1 DEF LcIInv, NothingLeftHalf
<1> QED BY <1>1, <1>2, <1>3, <1>4 DEF LcIInv, AllAre

\* A step after which t holds the lock.
LEMMA Holder ==
  ASSUME LcIInv, NEW t \in Callers, NEW f \in LcFutures, op' = [op EXCEPT ![t] = f],
         operation \in {t, NobodyHolds}, operation' = t, f.at \in {"starting", "check", "stopping"},
         f.does = "recovery" => f.at = "stopping",
         Holding(t)', instState' \in {"Starting", "Running", "Stopping"},
         comp' \in [Components -> {"down", "partial", "up"}], drops' = drops
  PROVE  LcIInv'
<1> USE LcAssumption
<1>1. /\ op' \in [Callers -> LcFutures] /\ op'[t] = f
      /\ \A u \in Callers : u # t => op'[u] = op[u]
  BY DEF LcIInv
<1>2. LcTypeOK'
  BY <1>1 DEF LcIInv, LcTypeOK
<1>3. NothingLeftHalf'
  BY DEF NothingLeftHalf
<1> QED BY <1>1, <1>2, <1>3 DEF LcIInv

\* A step with which t, the holder, lets go of the lock.
LEMMA LetsGo ==
  ASSUME LcIInv, NEW t \in Callers, NEW f \in LcFutures, op' = [op EXCEPT ![t] = f],
         operation = t, operation' = NobodyHolds, f.at \in {"over", "spawned"},
         f.does = "recovery" => f.at = "spawned", UNCHANGED comp,
         instState' \in {"Starting", "Running", "Stopping", "Stopped"},
         \/ f.does = "recovery" /\ instState' # "Stopped"
         \/ instState' = "Running" /\ AllAre("up")
         \/ instState' = "Stopped" /\ AllAre("down"),
         drops' \in 0 .. MaxDrops
  PROVE  LcIInv'
<1> USE LcAssumption
<1>1. /\ op' \in [Callers -> LcFutures] /\ op'[t] = f
      /\ \A u \in Callers : u # t => op'[u] = op[u]
  BY DEF LcIInv
<1>2. LcTypeOK'
  BY <1>1 DEF LcIInv, LcTypeOK
<1>3. NothingLeftHalf'
  BY <1>1 DEF NothingLeftHalf, AllAre
<1> QED BY <1>1, <1>2, <1>3 DEF LcIInv, AllAre

\* The futures there are.
LEMMA FutureType ==
  ASSUME NEW does \in {"none", "start", "stop", "recovery"},
         NEW at \in {"new", "over", "lock", "spawned", "starting", "check", "stopping"}, NEW i \in 1 .. 6
  PROVE  [does |-> does, at |-> at, i |-> i] \in LcFutures
BY DEF LcFutures

\* Every step of the life cycle keeps its invariant.
LEMMA LcStep == LcIInv /\ [LcNext]_lcVars => LcIInv'
<1> SUFFICES ASSUME LcIInv, [LcNext]_lcVars PROVE LcIInv'
  OBVIOUS
<1> USE LcAssumption
<1>0. /\ Over \in LcFutures /\ Over.at = "over" /\ Over.does = "none"
      /\ NotCalled.at = "new" /\ NotCalled.does = "none"
  BY DEF Over, NotCalled, LcFutures
<1>a. \A t \in Callers : /\ op[t] \in LcFutures /\ op[t].i \in 1 .. 6
                         /\ op[t].does \in {"none", "start", "stop", "recovery"}
                         /\ op[t].at \in {"starting", "check", "stopping"} <=> operation = t
                         /\ operation = t => Holding(t)
  BY DEF LcIInv, LcTypeOK, LcFutures
<1>b. drops \in 0 .. MaxDrops /\ comp \in [Components -> {"down", "partial", "up"}]
  BY DEF LcIInv, LcTypeOK
<1>1. ASSUME NEW t \in Callers, CallStart(t) \/ CallStop(t) PROVE LcIInv'
  <2>1. PICK d \in {"start", "stop"} : Goes(t, d, "lock", 1)
    BY <1>1 DEF CallStart, CallStop
  <2> DEFINE f == [does |-> d, at |-> "lock", i |-> 1]
  <2>2. f \in LcFutures /\ op' = [op EXCEPT ![t] = f]
    <3>1. f \in LcFutures
      BY <2>1 DEF LcFutures
    <3> QED BY <2>1, <3>1 DEF Goes
  <2>3. operation # t /\ op[t].does = "none"
    BY <1>1, <1>0, <1>a DEF CallStart, CallStop
  <2>4. UNCHANGED <<instState, comp, operation, drops>>
    BY <1>1 DEF CallStart, CallStop
  <2> QED BY <1>b, <2>2, <2>3, <2>4, Bystander, Zenon
<1>2. ASSUME NEW t \in Callers, Recover(t) PROVE LcIInv'
  <2> DEFINE f == [does |-> "recovery", at |-> "lock", i |-> 1]
  <2>1. f \in LcFutures /\ op' = [op EXCEPT ![t] = f] /\ UNCHANGED <<instState, comp, operation, drops>>
    BY <1>2, FutureType DEF Recover, Goes
  <2>2. operation # t
    BY <1>2, <1>a DEF Recover
  <2> QED BY <1>b, <2>1, <2>2, Bystander, Zenon
<1>3. ASSUME NEW t \in Callers, LockOperation(t) PROVE LcIInv'
  <2>0. op[t].at = "lock" /\ operation = NobodyHolds /\ operation # t /\ UNCHANGED <<comp, drops>>
    BY <1>3, <1>a DEF LockOperation
  <2>1. CASE op[t].does = "start" /\ instState = "Created"
    <3> DEFINE f == [does |-> "start", at |-> "starting", i |-> 1]
    <3>1. f \in LcFutures /\ op' = [op EXCEPT ![t] = f] /\ instState' = "Starting" /\ operation' = t
      BY <1>3, <2>1, FutureType DEF LockOperation, Goes
    <3>2. op'[t] = f
      BY <3>1 DEF LcIInv
    <3>3. Holding(t)'
      BY <2>0, <2>1, <3>1, <3>2, Orders DEF Holding, StartedTo, AllAre, LcIInv
    <3> QED BY <1>b, <2>0, <3>1, <3>3, Holder, Zenon
  <2>2. CASE op[t].does # "start" /\ instState # "Stopped"
    <3> DEFINE f == [does |-> op[t].does, at |-> "stopping", i |-> 1]
    <3>1. f \in LcFutures /\ op' = [op EXCEPT ![t] = f] /\ instState' = "Stopping" /\ operation' = t
      <4>1. f \in LcFutures
        BY <1>a DEF LcFutures
      <4> QED BY <1>3, <2>2, <4>1 DEF LockOperation, Goes
    <3>2. op'[t] = f
      BY <3>1 DEF LcIInv
    <3>3. Holding(t)'
      BY <2>0, <3>1, <3>2 DEF Holding, StoppedTo
    <3> QED BY <1>b, <2>0, <3>1, <3>3, Holder, Zenon
  <2>3. CASE \/ op[t].does = "start" /\ instState # "Created"
             \/ op[t].does # "start" /\ instState = "Stopped"
    <3>1. op' = [op EXCEPT ![t] = Over] /\ UNCHANGED <<instState, operation>>
      BY <1>3, <2>3, SMTT(20) DEF LockOperation, Ends
    <3> QED BY <1>0, <1>b, <2>0, <2>3, <3>1, Bystander, Zenon
  <2> QED BY <2>1, <2>2, <2>3
<1>4. ASSUME NEW t \in Callers, StartComponent(t) PROVE LcIInv'
  <2> DEFINE k == op[t].i
             c == StartOrder[k]
  <2>0. /\ op[t].at = "starting" /\ operation = t /\ k \in 1 .. 5 /\ c \in Components
        /\ UNCHANGED <<instState, operation, drops>>
    BY <1>4, <1>a, Orders DEF StartComponent
  <2>1. instState = "Starting" /\ op[t].does = "start" /\ StartedTo(k)
    BY <2>0, <1>a DEF Holding
  <2>2. CASE comp[c] = "down" /\ comp' = [comp EXCEPT ![c] = "partial"] /\ UNCHANGED op
    <3>1. StartedTo(k)'
      BY <1>b, <2>0, <2>1, <2>2, Orders DEF StartedTo
    <3>2. Holding(t)'
      BY <2>0, <2>1, <2>2, <3>1 DEF Holding
    <3>3. op' = [op EXCEPT ![t] = op[t]]
      BY <2>2 DEF LcIInv
    <3>4. comp' \in [Components -> {"down", "partial", "up"}]
      BY <1>b, <2>2, Zenon
    <3> QED BY <1>a, <2>0, <2>1, <3>2, <3>3, <3>4, Holder, Zenon
  <2>3. CASE comp[c] = "partial" /\ comp' = [comp EXCEPT ![c] = "up"] /\ Goes(t, "start", "starting", k + 1)
    <3> DEFINE f == [does |-> "start", at |-> "starting", i |-> k + 1]
    <3>1. f \in LcFutures /\ op' = [op EXCEPT ![t] = f]
      <4>1. k + 1 \in 1 .. 6
        BY <2>0
      <4>2. f \in LcFutures
        BY <4>1, FutureType, SMTT(20)
      <4> QED BY <2>3, <4>2 DEF Goes
    <3>2. op'[t] = f
      BY <3>1 DEF LcIInv
    <3>3. \A j \in 1 .. 5 : comp'[StartOrder[j]] = IF j = k THEN "up" ELSE comp[StartOrder[j]]
      BY <1>b, <2>0, <2>3, Orders
    <3>4. \A j \in 1 .. 5 : /\ j < k + 1 => comp'[StartOrder[j]] = "up"
                            /\ j = k + 1 => comp'[StartOrder[j]] # "up"
                            /\ j > k + 1 => comp'[StartOrder[j]] = "down"
      BY <2>0, <2>1, <3>3 DEF StartedTo
    <3>5. Holding(t)'
      BY <2>0, <2>1, <3>2, <3>4 DEF Holding, StartedTo
    <3>6. comp' \in [Components -> {"down", "partial", "up"}]
      BY <1>b, <2>3, Zenon
    <3> HIDE DEF f
    <3> QED BY <2>0, <2>1, <3>1, <3>5, <3>6, Holder, Zenon DEF f
  <2> QED BY <1>4, <2>2, <2>3, SMTT(20) DEF StartComponent
<1>5. ASSUME NEW t \in Callers, Fails(t), op[t].at \in {"starting", "check"} PROVE LcIInv'
  <2> DEFINE f == [does |-> "start", at |-> "stopping", i |-> 1]
  <2>1. f \in LcFutures /\ op' = [op EXCEPT ![t] = f] /\ instState' = "Stopping"
        /\ UNCHANGED <<operation, comp, drops>> /\ operation = t
    BY <1>5, <1>a, FutureType DEF Fails, Goes
  <2>2. op'[t] = f
    BY <2>1 DEF LcIInv
  <2>3. Holding(t)'
    BY <2>1, <2>2 DEF Holding, StoppedTo
  <2> QED BY <1>b, <2>1, <2>3, Holder, Zenon
<1>6. ASSUME NEW t \in Callers, AllStarted(t) PROVE LcIInv'
  <2> DEFINE f == [does |-> "start", at |-> "check", i |-> 1]
  <2>1. f \in LcFutures /\ op' = [op EXCEPT ![t] = f] /\ instState' = "Running"
        /\ UNCHANGED <<operation, comp, drops>> /\ operation = t
    BY <1>6, <1>a, FutureType DEF AllStarted, Goes
  <2>2. op'[t] = f
    BY <2>1 DEF LcIInv
  <2>3. StartedTo(op[t].i) /\ op[t].i > 5
    BY <1>6, <1>a, <2>1, Orders DEF AllStarted, Holding
  <2>4. AllAre("up")
    BY <1>a, <2>3, StartedAll
  <2>5. Holding(t)'
    BY <2>1, <2>2, <2>4 DEF Holding, AllAre
  <2> QED BY <1>b, <2>1, <2>5, Holder, Zenon
<1>7. ASSUME NEW t \in Callers, CheckCancelled(t) PROVE LcIInv'
  <2>1. CASE cancelled /\ Fails(t)
    BY <1>5, <1>7, <2>1 DEF CheckCancelled
  <2>2. CASE ~cancelled
    <3>1. operation' = NobodyHolds /\ op' = [op EXCEPT ![t] = Over] /\ UNCHANGED <<instState, comp, drops>>
          /\ operation = t /\ op[t].at = "check"
      BY <1>7, <2>2, <1>a DEF CheckCancelled, Ends
    <3>2. instState = "Running" /\ AllAre("up")
      BY <3>1, <1>a DEF Holding
    <3> QED BY <1>0, <1>b, <3>1, <3>2, LetsGo, Zenon
  <2> QED BY <1>7, <2>1, <2>2 DEF CheckCancelled
<1>8. ASSUME NEW t \in Callers, StopComponent(t) PROVE LcIInv'
  <2> DEFINE k == op[t].i
             f == [does |-> op[t].does, at |-> "stopping", i |-> k + 1]
  <2>1. /\ op[t].at = "stopping" /\ operation = t /\ k \in 1 .. 5
        /\ comp' = [comp EXCEPT ![StopOrder[k]] = "down"] /\ UNCHANGED <<instState, operation, drops>>
    BY <1>8, <1>a, Orders DEF StopComponent
  <2>2. f \in LcFutures /\ op' = [op EXCEPT ![t] = f]
    <3>1. k + 1 \in 1 .. 6
      BY <2>1
    <3>2. f \in LcFutures
      BY <3>1, <1>a, FutureType, SMTT(20)
    <3> QED BY <1>8, <3>2 DEF StopComponent, Goes
  <2>3. op'[t] = f
    BY <2>2 DEF LcIInv
  <2>4. instState = "Stopping" /\ StoppedTo(k)
    BY <2>1, <1>a DEF Holding
  <2>5. \A j \in 1 .. 5 : j < k + 1 => comp'[StopOrder[j]] = "down"
    BY <1>b, <2>1, <2>4, Orders DEF StoppedTo
  <2>6. Holding(t)'
    BY <2>1, <2>3, <2>4, <2>5 DEF Holding, StoppedTo
  <2>7. comp' \in [Components -> {"down", "partial", "up"}]
    BY <1>b, <2>1, Zenon
  <2> QED BY <1>b, <2>1, <2>2, <2>4, <2>6, <2>7, Holder, Zenon
<1>9. ASSUME NEW t \in Callers, AllStopped(t) PROVE LcIInv'
  <2>1. operation' = NobodyHolds /\ op' = [op EXCEPT ![t] = Over] /\ UNCHANGED <<comp, drops>>
        /\ operation = t /\ op[t].at = "stopping" /\ instState' = "Stopped" /\ op[t].i > 5
    BY <1>9, <1>a, Orders DEF AllStopped, Ends
  <2>2. AllAre("down")
    BY <1>a, <2>1, StoppedAll DEF Holding
  <2> QED BY <1>0, <1>b, <2>1, <2>2, LetsGo, Zenon
<1>10. ASSUME NEW t \in Callers, DropFuture(t) PROVE LcIInv'
  <2>0. /\ op[t].does \in {"start", "stop"} /\ op[t].at \in {"lock", "starting", "stopping"}
        /\ drops' \in 0 .. MaxDrops /\ UNCHANGED <<instState, comp>>
        /\ operation' = IF operation = t THEN NobodyHolds ELSE operation
    BY <1>10, <1>b DEF DropFuture, Released
  <2> DEFINE f == [does |-> "recovery", at |-> "spawned", i |-> 1]
  <2>1. f \in LcFutures
    BY FutureType
  <2>2. CASE op[t].does = "start" /\ op[t].at = "lock"
    <3>1. op' = [op EXCEPT ![t] = Over] /\ operation # t
      BY <1>10, <2>2, <1>a DEF DropFuture, Ends
    <3> QED BY <1>0, <2>0, <3>1, Bystander, Zenon
  <2>3. CASE ~(op[t].does = "start" /\ op[t].at = "lock") /\ operation # t
    <3>1. op' = [op EXCEPT ![t] = f]
      BY <1>10, <2>3 DEF DropFuture, Goes
    <3> QED BY <2>0, <2>1, <2>3, <3>1, Bystander, Zenon
  <2>4. CASE ~(op[t].does = "start" /\ op[t].at = "lock") /\ operation = t
    <3>1. op' = [op EXCEPT ![t] = f]
      BY <1>10, <2>4 DEF DropFuture, Goes
    <3>2. instState \in {"Starting", "Running", "Stopping"}
      BY <2>4, <1>a DEF Holding
    <3> QED BY <2>0, <2>1, <2>4, <3>1, <3>2, LetsGo, Zenon
  <2> QED BY <2>2, <2>3, <2>4
<1>11. CASE UNCHANGED lcVars
  BY <1>11 DEF lcVars, LcIInv, LcTypeOK, Holding, StartedTo, StoppedTo, AllAre, NothingLeftHalf
<1> QED
  BY <1>1, <1>2, <1>3, <1>4, <1>5, <1>6, <1>7, <1>8, <1>9, <1>10, <1>11
  DEF LcNext, Proceeds, StartFails, CancelSeen

\* The invariant of the life cycle holds in every behaviour.
LEMMA LcInvariant == LcSpec => []LcIInv
<1>1. LcInit => LcIInv
  BY LcAssumption
  DEF LcInit, LcIInv, LcTypeOK, LcFutures, NotCalled, AllAre, NothingLeftHalf
<1> QED BY <1>1, LcStep, PTL DEF LcSpec

\* For any number of callers and of dropped futures: whenever the operation lock is free,
\* the components are all down or all up, or a recovery is on its way to take them down; and
\* a stopped instance has nothing left running.
THEOREM LifecycleNothingLeftHalf == LcSpec => []NothingLeftHalf
BY LcInvariant, PTL DEF LcIInv

\* For any number of callers: the holder of the operation lock is the one future that
\* starts or stops components.
THEOREM LifecycleTypes == LcSpec => []LcTypeOK
BY LcInvariant, PTL DEF LcIInv

-----------------------------------------------------------------------------
(* PingProbe: an echo proves that the peer lives.                          *)

\* Everything that may come back as an acknowledgement stands for a probe the peer has
\* received: the echo it holds, the packets it sent, the one being acknowledged, the
\* acknowledgement itself.
EchoesReal ==
  /\ echo # 0 => echo \in answered
  /\ \A p \in inbound : p.token # 0 => p.token \in answered
  /\ receiver.at # "next" => receiver.token \in answered
  /\ acked # 0 => acked \in answered
  /\ pinger.at = "echoed" => pinger.token \in answered

\* The acknowledgement under way is of the last probe, or the pinger has started one more
\* since and nothing has answered that one: so no third probe can start under it.
OneBehind ==
  receiver.at # "next" =>
    /\ receiver.token # 0
    /\ \/ receiver.token = lastToken
       \/ active # 0 /\ acked # lastToken /\ pinger.at \notin {"answered", "echoed"}

ProbeIInv ==
  /\ ProbeTypeOK
  /\ pinger \in [at : {"idle", "check", "await", "answered", "echoed", "closed"}, token : 0 .. Tokens]
  /\ receiver \in [at : {"next", "store", "notify"}, token : 0 .. Tokens, pong : {"no", "old", "current"}]
  /\ losses < MaxLoss \/ pinger.at = "closed"
  /\ pinger.at \in {"check", "echoed"} => pinger.token # 0
  /\ active # 0 => pinger.token \in {0, active}
  /\ OneBehind /\ EchoesReal

\* A packet set that grew by at most p, and that aged, holds packets with the same tokens.
LEMMA PacketsStay ==
  ASSUME NEW P \in SUBSET Packets
  PROVE  /\ Aged(P) \subseteq Packets
         /\ \A q \in Aged(P) : \E p \in P : q.token = p.token
         /\ \A p \in Packets : \A Q \in Sent(P, p) : Q \subseteq P \union {p}
BY DEF Aged, Packets, Sent

\* A new probe takes a token that nothing which could acknowledge it refers to.
LEMMA StartPingStep == ProbeIInv /\ StartPing => ProbeIInv'
<1> SUFFICES ASSUME ProbeIInv, StartPing PROVE ProbeIInv'
  OBVIOUS
<1> USE ProbeAssumption DEF ProbeIInv, ProbeTypeOK
<1> DEFINE new == losses > 0 /\ active = 0
           token == IF ~(losses > 0) THEN 0 ELSE IF new THEN NextToken ELSE active
<1>1. NextToken \in 1 .. Tokens /\ (lastToken # 0 => NextToken # lastToken)
  BY DEF NextToken
<1>2. /\ pinger.at = "idle" /\ (new => Recycled /\ echo # NextToken)
      /\ lastToken' = IF new THEN NextToken ELSE lastToken
      /\ acked' = IF new THEN 0 ELSE acked
      /\ active' = IF new THEN NextToken ELSE active
      /\ answered' = IF new THEN answered \ {NextToken} ELSE answered
      /\ pinger' = [at |-> IF token = 0 THEN "await" ELSE "check", token |-> token]
      /\ inbound' = Aged(inbound)
      /\ receiver' = [receiver EXCEPT !.pong = IF @ = "current" THEN "old" ELSE @]
      /\ UNCHANGED <<losses, echoPermit, echo>>
  BY DEF StartPing
<1>3. outbound' \subseteq Packets
  <2>1. PICK mark \in {0, active'} :
          LET p == [ping |-> "current", token |-> mark] IN
          outbound' \in IF Room(outbound, p) THEN Sent(Aged(outbound), p) ELSE {Aged(outbound)}
    BY DEF StartPing
  <2>2. mark \in 0 .. Tokens
    BY <1>1, <1>2
  <2>3. [ping |-> "current", token |-> mark] \in Packets
    BY <2>2 DEF Packets
  <2>4. Aged(outbound) \in SUBSET Packets
    BY PacketsStay
  <2>5. \/ outbound' \in Sent(Aged(outbound), [ping |-> "current", token |-> mark])
        \/ outbound' = Aged(outbound)
    BY <2>1
  <2>6. \A Q \in Sent(Aged(outbound), [ping |-> "current", token |-> mark]) :
          Q \subseteq Aged(outbound) \union {[ping |-> "current", token |-> mark]}
    BY <2>3, <2>4, PacketsStay, Zenon
  <2> QED BY <2>3, <2>4, <2>5, <2>6
<1>4. inbound' \subseteq Packets /\ \A q \in inbound' : \E p \in inbound : q.token = p.token
  BY <1>2, PacketsStay
<1>5. token \in 0 .. Tokens /\ (active' # 0 => token \in {0, active'})
  BY <1>1, <1>2
<1>6. /\ receiver' \in [at : {"next", "store", "notify"}, token : 0 .. Tokens, pong : {"no", "old", "current"}]
      /\ receiver'.at = receiver.at /\ receiver'.token = receiver.token
  BY <1>2
<1>7. OneBehind'
  BY <1>1, <1>2, <1>6 DEF OneBehind
<1>8. EchoesReal'
  <2>1. CASE ~new
    BY <2>1, <1>2, <1>4, <1>6 DEF EchoesReal
  <2>2. CASE new
    <3>1. receiver.at # "next" => receiver.token # NextToken
      BY <2>2, <1>1 DEF OneBehind
    <3>2. \A p \in inbound : p.token # NextToken
      BY <2>2, <1>2 DEF Recycled, NextToken
    <3> QED BY <2>2, <1>1, <1>2, <1>4, <1>6, <3>1, <3>2 DEF EchoesReal
  <2> QED BY <2>1, <2>2
<1> HIDE DEF token
<1> QED BY <1>1, <1>2, <1>3, <1>4, <1>5, <1>6, <1>7, <1>8

\* Every step of the probes keeps their invariant.
LEMMA ProbeStep == ProbeIInv /\ [ProbeNext]_probeVars => ProbeIInv'
<1> SUFFICES ASSUME ProbeIInv, [ProbeNext]_probeVars PROVE ProbeIInv'
  OBVIOUS
<1> USE ProbeAssumption DEF ProbeIInv, ProbeTypeOK
<1>1. CASE StartPing
  BY <1>1, StartPingStep
<1>2. CASE SendData
  BY <1>2 DEF SendData, Packets, OneBehind, EchoesReal
<1>3. ASSUME NEW p \in outbound, PeerReceives(p) PROVE ProbeIInv'
  <2> DEFINE pending1 == IF p.token # 0 THEN p.token ELSE echo
  <2>1. pending1 \in 0 .. Tokens /\ (pending1 # 0 => pending1 \in answered')
        /\ answered \subseteq answered' /\ echo' \in {0, pending1}
    BY <1>3 DEF PeerReceives, Packets, EchoesReal
  <2>2. \E mark \in {0, pending1} : inbound' \subseteq inbound \union {[ping |-> p.ping, token |-> mark]}
    BY <1>3 DEF PeerReceives, Sent
  <2>3. inbound' \subseteq Packets /\ \A q \in inbound' : q.token # 0 => q.token \in answered'
    BY <2>1, <2>2 DEF Packets, EchoesReal
  <2> HIDE DEF pending1
  <2>4. outbound' \subseteq Packets
        /\ UNCHANGED <<pinger, losses, lastToken, active, acked, echoPermit, receiver>>
    BY <1>3 DEF PeerReceives
  <2> QED BY <2>1, <2>3, <2>4 DEF OneBehind, EchoesReal
<1>4. CASE PeerSends
  <2>1. inbound' \subseteq inbound \union {[ping |-> "no", token |-> echo]} /\ echo # 0 /\ echo' = 0
    BY <1>4 DEF PeerSends, Sent
  <2>2. inbound' \subseteq Packets /\ \A q \in inbound' : q.token # 0 => q.token \in answered
    BY <2>1 DEF Packets, EchoesReal
  <2> QED BY <1>4, <2>1, <2>2 DEF PeerSends, OneBehind, EchoesReal
<1>5. ASSUME NEW p \in inbound, Arrives(p) PROVE ProbeIInv'
  <2>1. CASE p.token # 0 /\ p.token = active
    BY <1>5, <2>1 DEF Arrives, Packets, OneBehind, EchoesReal
  <2>2. CASE ~(p.token # 0 /\ p.token = active)
    BY <1>5, <2>2 DEF Arrives, Ponged, OneBehind, EchoesReal
  <2> QED BY <2>1, <2>2
<1>6. CASE AckStore
  BY <1>6 DEF AckStore, OneBehind, EchoesReal
<1>7. CASE AckNotify
  BY <1>7 DEF AckNotify, Receiving, Ponged, OneBehind, EchoesReal
<1>8. CASE CheckEcho
  BY <1>8 DEF CheckEcho, OneBehind, EchoesReal
<1>9. CASE EchoNotified
  BY <1>9, Zenon DEF EchoNotified, OneBehind, EchoesReal
<1>10. CASE PingOk
  BY <1>10 DEF PingOk, OneBehind, EchoesReal
<1>11. CASE PingLost
  BY <1>11 DEF PingLost, OneBehind, EchoesReal
<1>12. CASE LinkDown
  BY <1>12 DEF LinkDown, OneBehind, EchoesReal
<1>13. CASE PacketLost
  BY <1>13 DEF PacketLost, OneBehind, EchoesReal
<1>14. CASE UNCHANGED probeVars
  BY <1>14 DEF probeVars, OneBehind, EchoesReal
<1> QED
  BY <1>1, <1>2, <1>3, <1>4, <1>5, <1>6, <1>7, <1>8, <1>9, <1>10, <1>11, <1>12, <1>13, <1>14, Zenon
  DEF ProbeNext, PingerStep, ReceiverStep

\* The invariant of the probes holds in every behaviour.
LEMMA ProbeInvariant == ProbeSpec => []ProbeIInv
<1>1. ProbeInit => ProbeIInv
  <2> SUFFICES ASSUME ProbeInit PROVE ProbeIInv
    OBVIOUS
  <2> USE ProbeAssumption DEF ProbeInit, Receiving
  <2>1. ProbeTypeOK
    <3>1. echoPermit \in BOOLEAN
      BY Zenon
    <3> QED BY <3>1 DEF ProbeTypeOK
  <2>2. OneBehind /\ EchoesReal
    BY DEF OneBehind, EchoesReal
  <2> QED BY <2>1, <2>2 DEF ProbeIInv
<1> QED BY <1>1, ProbeStep, PTL DEF ProbeSpec

\* For any number of losses, tokens and packets under way: the atomics of the probe have
\* their types, and the active probe is the last one given out.
THEOREM ProbeTypes == ProbeSpec => []ProbeTypeOK
BY ProbeInvariant, PTL DEF ProbeIInv

\* For any number of losses, tokens (two at least) and packets under way: a ping that
\* succeeds by an echo has proof that the peer received this very probe.
THEOREM ProbeEchoIsProof == ProbeSpec => []EchoProvesLife
<1>1. ProbeIInv => EchoProvesLife
  BY DEF ProbeIInv, EchoesReal, EchoProvesLife
<1> QED BY <1>1, ProbeInvariant, PTL

=============================================================================
