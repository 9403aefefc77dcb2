----------------------------- MODULE RelayPeers -----------------------------
(***************************************************************************)
(* peers/relay_peer_map.rs over peers/conn/peer_session.rs: two peers that *)
(* are reached through a relay set up an end-to-end session when they have *)
(* packets for each other, both of them possibly at once.                  *)
(*                                                                         *)
(* A session is its root key and the count of datagrams that failed to     *)
(* decrypt since one succeeded.  Every session has generation 1 (only      *)
(* upsert_responder_session chooses one), so a generation in a message is  *)
(* just "has a session".  An invalidated session is none: every access to  *)
(* the store drops it.  The sender's side of a data packet is the caller   *)
(* of send_msg; the receiver's packets are handled one after the other.    *)
(* The network holds at most one datagram at a time: a bound.              *)
(***************************************************************************)
EXTENDS Naturals, FiniteSets

CONSTANTS
  MaxAttempts,   \* HANDSHAKE_MAX_ATTEMPTS
  MaxPending,    \* MAX_PENDING_PACKETS_PER_PEER
  FailThreshold, \* DECRYPT_FAIL_THRESHOLD
  MaxTasks,      \* handshake_session tasks of a node; two only after an eviction
  MaxKeys,       \* bound on the root keys that something refers to
  MaxFaults      \* bound on lost messages, failed sends, evictions and restarts

ASSUME RelayAssumption ==
  /\ MaxAttempts \in Nat \ {0} /\ FailThreshold \in Nat \ {0}
  /\ MaxTasks \in Nat \ {0} /\ MaxKeys \in Nat \ {0}
  /\ MaxPending \in Nat /\ MaxFaults \in Nat

Peers == {1, 2}    \* peer ids; the smaller one wins a race
Other(n) == 3 - n
Tasks == 1 .. MaxTasks

VARIABLES
  sess,      \* peer_session_store
  pending,   \* pending_handshakes: the task that waits for the ack, 0 for no entry
  lock,      \* handshake_locks: the task that holds the lock in the map, 0 for none
  buf,       \* how many packets pending_packets holds
  backoff,   \* next_retry_at lies in the future
  task,      \* the handshake_session tasks
  sender,    \* the caller of send_msg is about to buffer its packet
  handling,  \* the RelayHandshake that handle_relay_msg1 is working on
  net,       \* messages under way
  faults

vars == <<sess, pending, lock, buf, backoff, task, sender, handling, net, faults>>

Keys == 1 .. MaxKeys
NoSession == [key |-> 0, fails |-> 0]
HasSession(n) == sess[n] # NoSession
NoMsg == [type |-> "none"]
NoTask == [pc |-> "none", attempt |-> 0, got |-> NoMsg]

Msg1(n, cid, has) == [type |-> "msg1", to |-> Other(n), cid |-> cid, has |-> has]
Msg2(n, cid, action, key) ==
  [type |-> "msg2", to |-> Other(n), cid |-> cid, action |-> action, key |-> key]
Data(n, key) == [type |-> "data", to |-> Other(n), key |-> key]

\* new_root_key: one that nothing refers to.
FreshKeys ==
  {k \in Keys : /\ \A n \in Peers : sess[n].key # k
                /\ \A m \in net : m.type \in {"msg2", "data"} => m.key # k
                /\ \A n \in Peers, t \in Tasks : task[n][t].got # NoMsg => task[n][t].got.key # k}
UnderWay(n, cid) ==
  \/ \E m \in net : /\ (m.type = "msg1" /\ m.to # n) \/ (m.type = "msg2" /\ m.to = n)
                    /\ m.cid = cid
  \/ handling[Other(n)] # NoMsg /\ handling[Other(n)].cid = cid
\* Bound: an attempt waits until nothing of n's earlier ones is under way any more.  The
\* number of the task is then an a_conn_id that no other handshake has.
Clear(n) == \A t \in Tasks : ~UnderWay(n, t)
Least(S) == CHOOSE x \in S : \A y \in S : x <= y

Init ==
  /\ sess = [n \in Peers |-> NoSession]
  /\ pending = [n \in Peers |-> 0]
  /\ lock = [n \in Peers |-> 0]
  /\ buf = [n \in Peers |-> 0]
  /\ backoff = [n \in Peers |-> FALSE]
  /\ task = [n \in Peers |-> [t \in Tasks |-> NoTask]]
  /\ sender = [n \in Peers |-> FALSE]
  /\ handling = [n \in Peers |-> NoMsg]
  /\ net = {}
  /\ faults = 0

Fault == faults < MaxFaults /\ faults' = faults + 1

-----------------------------------------------------------------------------
(* Sending *)

\* ensure_session without a session: the first caller to get the lock spawns the task.
Ensure(n) ==
  LET idle == {t \in Tasks : task[n][t].pc = "none"}
  IN IF lock[n] = 0 /\ idle # {}
     THEN /\ lock' = [lock EXCEPT ![n] = Least(idle)]
          /\ task' = [task EXCEPT ![n][Least(idle)].pc = "start"]
     ELSE UNCHANGED <<lock, task>>

DataUnderWay == \E m \in net : m.type = "data"

\* send_msg up to the end of ensure_session ...
SendMsg(n) ==
  /\ ~sender[n] /\ (HasSession(n) => ~DataUnderWay)
  /\ IF HasSession(n)
     THEN net' = net \union {Data(n, sess[n].key)} /\ UNCHANGED <<sender, lock, task>>
     ELSE /\ Ensure(n)
          /\ sender' = [sender EXCEPT ![n] = TRUE]
          /\ UNCHANGED net
  /\ UNCHANGED <<sess, pending, buf, backoff, handling, faults>>

\* ... and buffer_pending_packet.
BufferPacket(n) ==
  /\ sender[n]
  /\ sender' = [sender EXCEPT ![n] = FALSE]
  /\ buf' = [buf EXCEPT ![n] = IF @ < MaxPending THEN @ + 1 ELSE @]
  /\ UNCHANGED <<sess, pending, lock, backoff, task, handling, net, faults>>

\* flush_pending_packets with a session of this key.
Flushed(n, msgs, key) ==
  IF buf[n] = 0 \/ DataUnderWay THEN msgs ELSE msgs \union {Data(n, key)}
EmptyBuf(n) == [buf EXCEPT ![n] = 0]

-----------------------------------------------------------------------------
(* The initiator: handshake_session and handshake_session_once *)

\* The task ends; its guard frees the lock it took, unless that left the map.
Ended(n, t) ==
  /\ task' = [task EXCEPT ![n][t] = NoTask]
  /\ lock' = [lock EXCEPT ![n] = IF @ = t THEN 0 ELSE @]

Start(n, t) ==
  /\ task[n][t].pc = "start"
  /\ IF HasSession(n)
     THEN Ended(n, t) /\ net' = Flushed(n, net, sess[n].key) /\ buf' = EmptyBuf(n)
     ELSE IF backoff[n] THEN Ended(n, t) /\ buf' = EmptyBuf(n) /\ UNCHANGED net
     ELSE task' = [task EXCEPT ![n][t].pc = "attempt"] /\ UNCHANGED <<lock, buf, net>>
  /\ UNCHANGED <<sess, pending, backoff, sender, handling, faults>>

\* handshake_session_once up to the wait.
Attempt(n, t) ==
  /\ task[n][t].pc = "attempt" /\ Clear(n)
  /\ task' = [task EXCEPT ![n][t].pc = "wait"]
  /\ net' = net \union {Msg1(n, t, HasSession(n))}
  /\ pending' = [pending EXCEPT ![n] = t]
  /\ UNCHANGED <<sess, lock, buf, backoff, sender, handling, faults>>

\* register_handshake_failure, then the next attempt after a pause or the end of the task.
AttemptFailed(n, t) ==
  /\ backoff' = [backoff EXCEPT ![n] = TRUE]
  /\ IF task[n][t].attempt + 1 < MaxAttempts
     THEN /\ task' = [task EXCEPT ![n][t] = [NoTask EXCEPT !.pc = "attempt", !.attempt = task[n][t].attempt + 1]]
          /\ UNCHANGED <<lock, buf>>
     ELSE Ended(n, t) /\ buf' = EmptyBuf(n)

\* No route to the peer, or no key of it in the route: before or after the entry is made.
SendFails(n, t) ==
  /\ task[n][t].pc = "attempt" /\ Fault
  /\ AttemptFailed(n, t)
  /\ \E entered \in BOOLEAN : pending' = [pending EXCEPT ![n] = IF entered THEN 0 ELSE @]
  /\ UNCHANGED <<sess, sender, handling, net>>

\* The wait ends without an ack: the entry was taken away, or the timer fires.  A timer
\* that fires while the ack can still come counts as a fault.
\* Mutant: the entry stays behind.
WaitFailsKeepsEntry(n, t) ==
  /\ task[n][t].pc = "wait" /\ task[n][t].got = NoMsg
  /\ IF pending[n] = t /\ UnderWay(n, t) THEN Fault ELSE UNCHANGED faults
  /\ AttemptFailed(n, t)
  /\ UNCHANGED <<sess, pending, sender, handling, net>>
WaitFails(n, t) ==
  /\ task[n][t].pc = "wait" /\ task[n][t].got = NoMsg
  /\ IF pending[n] = t /\ UnderWay(n, t) THEN Fault ELSE UNCHANGED faults
  /\ pending' = [pending EXCEPT ![n] = 0]
  /\ AttemptFailed(n, t)
  /\ UNCHANGED <<sess, sender, handling, net>>

\* The rest of handshake_session_once: an ack of another handshake does not decrypt;
\* apply_initiator_action joins the session it has or takes the key of the ack.
CanApply(n, m) == m.action = "join" => HasSession(n)
AckArrived(n, t) ==
  LET m == task[n][t].got
      key == IF m.action = "join" THEN sess[n].key ELSE m.key
  IN /\ task[n][t].pc = "wait" /\ m # NoMsg
     /\ IF m.cid = t /\ CanApply(n, m)
        THEN /\ sess' = [sess EXCEPT ![n].key = key]
             /\ backoff' = [backoff EXCEPT ![n] = FALSE]
             /\ net' = Flushed(n, net, key) /\ buf' = EmptyBuf(n)
             /\ Ended(n, t)
        ELSE AttemptFailed(n, t) /\ UNCHANGED <<sess, net>>
     /\ UNCHANGED <<pending, sender, handling, faults>>

BackoffEnds(n) ==
  /\ backoff[n]
  /\ backoff' = [backoff EXCEPT ![n] = FALSE]
  /\ UNCHANGED <<sess, pending, lock, buf, task, sender, handling, net, faults>>

-----------------------------------------------------------------------------
(* Receiving: handle_handshake_packet and decrypt_if_needed *)

\* handle_relay_msg1 up to the look-up of the peer's key: the race rule.
\* Mutant: neither gives way, so that both msg1 of a race are ignored.
NeverYields(n) == FALSE
Yields(n) == Other(n) < n
RecvMsg1(n, m) ==
  /\ m.type = "msg1"
  /\ IF pending[n] # 0 /\ ~Yields(n) THEN UNCHANGED <<pending, handling>>
     ELSE /\ pending' = [pending EXCEPT ![n] = 0]
          /\ handling' = [handling EXCEPT ![n] = m]
  /\ UNCHANGED <<sess, lock, buf, backoff, task, sender>>

\* ... and the rest: upsert_responder_session, the ack, and the flush.
Upsert(n, has) ==
  IF ~HasSession(n) THEN [action |-> "create", key |-> Least(FreshKeys)]
  ELSE [action |-> IF has THEN "join" ELSE "sync", key |-> sess[n].key]
RespondMsg1(n) ==
  LET m == handling[n]
  IN /\ m # NoMsg /\ (HasSession(n) \/ FreshKeys # {})
     /\ \E u \in {Upsert(n, m.has)} :
          /\ sess' = [sess EXCEPT ![n].key = u.key]
          /\ net' = Flushed(n, net \union {Msg2(n, m.cid, u.action, IF u.action = "join" THEN 0 ELSE u.key)}, u.key)
     /\ buf' = EmptyBuf(n)
     /\ backoff' = [backoff EXCEPT ![n] = FALSE]
     /\ handling' = [handling EXCEPT ![n] = NoMsg]
     /\ UNCHANGED <<pending, lock, task, sender, faults>>

\* The peer's key is not in the route, or there is no way back for the ack.
RespondFails(n) ==
  /\ handling[n] # NoMsg /\ Fault
  /\ handling' = [handling EXCEPT ![n] = NoMsg]
  /\ \/ UNCHANGED <<sess, backoff>>
     \/ /\ HasSession(n) \/ FreshKeys # {}
        /\ sess' = [sess EXCEPT ![n].key = Upsert(n, handling[n].has).key]
        /\ backoff' = [backoff EXCEPT ![n] = FALSE]
  /\ UNCHANGED <<pending, lock, buf, task, sender, net>>

\* RelayHandshakeAck: the task that waits gets it, whichever handshake it answers.
RecvMsg2(n, m) ==
  /\ m.type = "msg2"
  /\ IF pending[n] = 0 THEN UNCHANGED <<pending, task>>
     ELSE /\ task' = [task EXCEPT ![n][pending[n]].got = m]
          /\ pending' = [pending EXCEPT ![n] = 0]
  /\ UNCHANGED <<sess, lock, buf, backoff, sender, handling>>

\* decrypt_if_needed: without a session a handshake is started and the packet dropped; a
\* session that fails too often in a row is invalidated.
\* Mutant: failures are not counted.
AfterFailureUncounted(s) == s
AfterFailure(s) == IF s.fails + 1 >= FailThreshold THEN NoSession ELSE [s EXCEPT !.fails = @ + 1]
RecvData(n, m) ==
  /\ m.type = "data"
  /\ IF ~HasSession(n) THEN Ensure(n) /\ UNCHANGED sess
     ELSE /\ sess' = [sess EXCEPT ![n] = IF @.key = m.key THEN [@ EXCEPT !.fails = 0]
                                         ELSE AfterFailure(@)]
          /\ UNCHANGED <<lock, task>>
  /\ UNCHANGED <<pending, buf, backoff, sender, handling>>

Receive(m) ==
  /\ m \in net /\ handling[m.to] = NoMsg
  /\ net' = net \ {m}
  /\ RecvMsg1(m.to, m) \/ RecvMsg2(m.to, m) \/ RecvData(m.to, m)
  /\ UNCHANGED faults

-----------------------------------------------------------------------------
(* Faults *)

Lose(m) ==
  /\ m \in net /\ Fault
  /\ net' = net \ {m}
  /\ UNCHANGED <<sess, pending, lock, buf, backoff, task, sender, handling>>

\* evict_idle_sessions and remove_peer: the relay state of the peer goes, a task stays.
RemovePeer(n) ==
  /\ Fault
  /\ pending' = [pending EXCEPT ![n] = 0]
  /\ lock' = [lock EXCEPT ![n] = 0]
  /\ buf' = EmptyBuf(n)
  /\ backoff' = [backoff EXCEPT ![n] = FALSE]
  /\ UNCHANGED <<sess, task, sender, handling, net>>

\* evict_unused_sessions: a session that was not used for a while.
EvictSession(n) ==
  /\ HasSession(n) /\ Fault
  /\ sess' = [sess EXCEPT ![n] = NoSession]
  /\ UNCHANGED <<pending, lock, buf, backoff, task, sender, handling, net>>

\* The process of n ends and starts again.
Restart(n) ==
  /\ Fault
  /\ sess' = [sess EXCEPT ![n] = NoSession]
  /\ pending' = [pending EXCEPT ![n] = 0] /\ lock' = [lock EXCEPT ![n] = 0]
  /\ buf' = EmptyBuf(n) /\ backoff' = [backoff EXCEPT ![n] = FALSE]
  /\ task' = [task EXCEPT ![n] = [t \in Tasks |-> NoTask]]
  /\ sender' = [sender EXCEPT ![n] = FALSE]
  /\ handling' = [handling EXCEPT ![n] = NoMsg]
  /\ UNCHANGED net

TaskStep(n, t) ==
  Start(n, t) \/ Attempt(n, t) \/ SendFails(n, t) \/ WaitFails(n, t) \/ AckArrived(n, t)

Next ==
  \/ \E n \in Peers : \/ SendMsg(n) \/ BufferPacket(n) \/ BackoffEnds(n) \/ RespondMsg1(n)
                      \/ RespondFails(n) \/ RemovePeer(n) \/ EvictSession(n) \/ Restart(n)
                      \/ \E t \in Tasks : TaskStep(n, t)
  \/ \E m \in net : Receive(m) \/ Lose(m)

Spec == Init /\ [][Next]_vars

\* Both peers keep sending; tasks, timers and handlers run; and messages of each type
\* arrive in each direction.
ReceiveSome(n, type) == \E m \in net : m.to = n /\ m.type = type /\ Receive(m)
Fairness ==
  \A n \in Peers :
    /\ WF_vars(SendMsg(n)) /\ WF_vars(BufferPacket(n))
    /\ WF_vars(BackoffEnds(n)) /\ WF_vars(RespondMsg1(n))
    /\ \A t \in Tasks : WF_vars(TaskStep(n, t))
    /\ \A type \in {"msg1", "msg2", "data"} : WF_vars(ReceiveSome(n, type))
FairSpec == Spec /\ Fairness

-----------------------------------------------------------------------------

\* Types, and one bound of the model that is never met: a fresh key is always to be had.
TypeOK ==
  /\ sess \in [Peers -> [key : Keys \union {0}, fails : 0 .. FailThreshold - 1]]
  /\ buf \in [Peers -> 0 .. MaxPending]
  /\ backoff \in [Peers -> BOOLEAN] /\ sender \in [Peers -> BOOLEAN]
  /\ faults \in 0 .. MaxFaults /\ FreshKeys # {}

\* The lock and the entry of a handshake belong to a task that is still at it: a
\* handshake_lock or a pending_handshakes entry that outlives its task would keep every
\* later packet from starting a handshake, or the peer with the smaller id from answering.
NothingOrphaned ==
  /\ TypeOK
  /\ \A n \in Peers :
       /\ lock[n] # 0 => task[n][lock[n]].pc # "none"
       /\ pending[n] # 0 => task[n][pending[n]].pc = "wait" /\ task[n][pending[n]].got = NoMsg

\* Whatever was lost, evicted or restarted, a peer that keeps sending gets a session again.
SessionsReturn == \A n \in Peers : []<>HasSession(n)

\* Two sessions with different keys are noticed: decrypt_payload counts the failures, and
\* one of the sessions goes.
Diverged == HasSession(1) /\ HasSession(2) /\ sess[1].key # sess[2].key
DivergenceNoticed == []<>~Diverged

\* "Use deterministic rule: the peer with smaller peer_id becomes initiator": when nothing
\* went wrong and no handshake is under way any more, the two peers share one key.
Quiet == /\ \A m \in net : m.type = "data"
         /\ \A n \in Peers : handling[n] = NoMsg /\ \A t \in Tasks : task[n][t] = NoTask
OneKeyWhenQuiet == faults = 0 /\ Quiet => ~Diverged
=============================================================================
