---------------------------- MODULE RouteSessions ----------------------------
(***************************************************************************)
(* The session layer of the OSPF-like route sync: how the nodes of a mesh  *)
(* elect, over asynchronous RPCs, which neighbour each of them initiates a *)
(* route session to, and how the two ends of a session learn each other's  *)
(* generation and role.                                                    *)
(*                                                                         *)
(* A node runs one maintain_sessions loop (split here at the points where  *)
(* an inbound RPC can interleave: Scan, Elect, Sweep), one session_task    *)
(* per session (SendSync, then Commit or Timeout; one RPC outstanding at a *)
(* time) and the sync_route_info handler (Receive, then Admit after its    *)
(* await).  A session_task may also end while its session stays: its wait  *)
(* for sync_now fails when the broadcast channel has overrun it.           *)
(* The rows a sync carries are abstracted away: whether a session has rows *)
(* to send is a free choice, so SendSync is enabled whenever the session   *)
(* exists and its task runs.  Module RouteRows models the rows.            *)
(***************************************************************************)
EXTENDS SyncRouteSession, FiniteSets

CONSTANTS
  Nodes,       \* peer ids
  Links,       \* the pairs {n, m} that can be directly connected
  Credential,  \* nodes with PeerIdentityType::Credential
  Public,      \* nodes whose UDP NAT type is NoPat or OpenInternet
  MaxFaults,   \* bound on link failures, lost RPCs, missed keepalives and ended tasks
  MaxLate,     \* bound on the requests under way whose caller is gone
  MaxSessionId,\* session ids are 1 .. MaxSessionId, more than are ever remembered
  NoSession    \* "no entry in the sessions map"

ASSUME NodesAssumption == Nodes \subseteq Nat \ {0}
ASSUME LinksAssumption == \A l \in Links : l \subseteq Nodes
ASSUME NoSessionAssumption == NoSession \notin Session
ASSUME BoundsAssumption == MaxFaults \in Nat /\ MaxLate \in Nat /\ MaxSessionId \in Nat

VARIABLES
  link,    \* the pairs connected now (what the interface would list)
  sess,    \* sess[n][m]: n's session towards m, or NoSession
  maint,   \* maint[n]: the local state of n's maintain_sessions loop
  call,    \* call[n][m]: the RPC outstanding in n's session_task for m
  late,    \* requests whose caller gave up and that may still arrive
  faults,  \* faults so far
  ended    \* history: <<n, m>> when the task of n's session towards m has ended
           \* since n last elected m

vars == <<link, sess, maint, call, late, faults, ended>>

None == 0

\* A call carries the SyncRequestSnapshot (id, init), the expected remote
\* generation, and how far the request has come; obj is the session the handler
\* looked up before its await, resp_* the response.
Stages == {"idle", "sent", "handling", "ok", "stopped"}
Call == [ stage : Stages, id : Nat, init : BOOLEAN, expect : Nat,
          obj : Nat, resp_id : Nat, resp_init : BOOLEAN ]
NoCall == [ stage |-> "idle", id |-> 0, init |-> FALSE, expect |-> 0,
            obj |-> 0, resp_id |-> 0, resp_init |-> FALSE ]
Late == [ src : Nodes, dst : Nodes, id : Nat, init : BOOLEAN, obj : Nat ]

\* cur is cur_dst_peer_id_to_initiate, dst the choice of the pass under way and
\* peers the session peers it listed.
Maint == [ pc : {"wait", "elect", "sweep"}, cur : Nodes \cup {None},
           dst : Nodes \cup {None}, peers : SUBSET Nodes ]
StartMaint == [ pc |-> "wait", cur |-> None, dst |-> None, peers |-> {} ]

Init ==
  /\ link = Links
  /\ sess = [n \in Nodes |-> [m \in Nodes |-> NoSession]]
  /\ maint = [n \in Nodes |-> StartMaint]
  /\ call = [n \in Nodes |-> [m \in Nodes |-> NoCall]]
  /\ late = {}
  /\ faults = 0
  /\ ended = {}

-----------------------------------------------------------------------------
\* The interface's peers of a node, and the peers it has a session with.
Peers(n) == {m \in Nodes \ {n} : {n, m} \in link}
SessionPeers(n) == {m \in Nodes : sess[n][m] # NoSession}

\* The least peer id: the peers are kept in a BTreeSet.
First(S) == CHOOSE m \in S : \A k \in S : m <= k

\* Requests of n that outlive their caller: still travelling over a live link, or
\* already being handled (obj is the session their handler holds, 0 before that).
Outlive(n, M) ==
  {[src |-> n, dst |-> m, id |-> call[n][m].id, init |-> call[n][m].init,
    obj |-> call[n][m].obj] :
     m \in {k \in M : \/ call[n][k].stage = "sent" /\ {n, k} \in link
                      \/ call[n][k].stage = "handling"}}

\* Dropping a session drops its task: the outstanding call has no caller any more.
DropCalls(n, M) ==
  /\ call' = [call EXCEPT ![n] = [m \in Nodes |-> IF m \in M THEN NoCall ELSE @[m]]]
  /\ \E L \in SUBSET Outlive(n, M) :
       Cardinality(late \cup L) <= MaxLate /\ late' = late \cup L

-----------------------------------------------------------------------------
(* maintain_sessions *)

\* Mutant: a peer without a session is skipped.
CandidatesWithSession(n, ss) ==
  {m \in Peers(n) \ Credential : ss[m] # NoSession /\ ~ss[m].dst_is_initiator}

\* find peer_ids that are not initiators, given the sessions ss of the node
Candidates(n, ss) ==
  {m \in Peers(n) \ Credential : ss[m] = NoSession \/ ~ss[m].dst_is_initiator}

\* A public peer is preferred once the route table knows its NAT type; known are
\* the public peers it knows of.
Choice(cands, known) == First(IF cands \cap known = {} THEN cands ELSE cands \cap known)

\* Stop the sessions of peers that left the interface, clear stale initiators.
Gone(n) == SessionPeers(n) \ Peers(n)
Pruned(n) ==
  [m \in Nodes |-> IF sess[n][m] # NoSession /\ m \in Peers(n)
                   THEN ClearStaleDstInitiator(sess[n][m]) ELSE NoSession]
\* Mutant: the elected peer is not forgotten with its session.
UnprunedCur(n) == maint[n].cur
PrunedCur(n) == IF maint[n].cur \in Gone(n) THEN None ELSE maint[n].cur

\* One pass up to the choice.  Without candidates the pass ends here.
Scan(n) ==
  LET kept  == Pruned(n)
      cands == Candidates(n, kept)
  IN /\ maint[n].pc = "wait"
     /\ sess' = [sess EXCEPT ![n] = kept]
     /\ DropCalls(n, Gone(n))
     /\ \/ /\ cands = {}
           /\ maint' = [maint EXCEPT ![n].cur = PrunedCur(n)]
        \/ /\ cands # {}
           /\ \E known \in SUBSET Public :
                maint' = [maint EXCEPT ![n] =
                            [pc |-> "elect", cur |-> PrunedCur(n),
                             dst |-> Choice(cands, known), peers |-> SessionPeers(n)]]
     /\ UNCHANGED <<link, faults, ended>>

\* The ids of n's sessions towards m that something still remembers.
Remembered(n, m) ==
  {call[n][m].id, call[m][n].expect, call[m][n].obj, call[m][n].resp_id}
    \cup {sess[m][n].dst_session_id : k \in {n} \cap SessionPeers(m)}
    \cup {r.id : r \in {q \in late : q.src = n /\ q.dst = m}}
    \cup {r.obj : r \in {q \in late : q.src = m /\ q.dst = n}}
FreshIds(n, m) == (1 .. MaxSessionId) \ Remembered(n, m)

\* get_or_create_session: the session s of n towards m, opened if there is none.
\* CanOpen is the bound on session ids as a guard.
CanOpen(n, m) == sess[n][m] # NoSession \/ FreshIds(n, m) # {}
Opened(n, m, s) == IF s = NoSession THEN NewSession(First(FreshIds(n, m))) ELSE s
GetOrCreate(n, m) == Opened(n, m, sess[n][m])
\* start_session_task
Started(s) == [s EXCEPT !.running = TRUE]

\* n's sessions ss after the initiator role went from the destination cur to d.
HandedOver(n, ss, cur, d) ==
  [m \in Nodes |->
     IF m = d /\ d # cur THEN UpdateInitiatorFlag(Started(Opened(n, d, ss[d])), TRUE)
     ELSE IF m = cur /\ d # cur /\ ss[m] # NoSession
          THEN UpdateInitiatorFlag(ss[m], FALSE)
          ELSE ss[m]]

EndedAfter(n, cur, d) == IF d = cur THEN ended ELSE ended \ {<<n, d>>}

Elect(n) ==
  /\ maint[n].pc = "elect"
  /\ CanOpen(n, maint[n].dst)
  /\ sess' = [sess EXCEPT ![n] = HandedOver(n, sess[n], maint[n].cur, maint[n].dst)]
  /\ maint' = [maint EXCEPT ![n].pc = "sweep", ![n].cur = maint[n].dst]
  /\ ended' = EndedAfter(n, maint[n].cur, maint[n].dst)
  /\ UNCHANGED <<link, call, late, faults>>

\* clear sessions that are neither dst_initiator or we_are_initiator, and those whose
\* task does not run, whatever their role
Idle(s) ==
  \/ ~s.dst_is_initiator /\ ~s.we_are_initiator /\ ~s.need_sync_initiator_info
  \/ ~s.running
IdleIn(ss, peers) == {m \in peers : ss[m] # NoSession /\ Idle(ss[m])}

Sweep(n) ==
  LET idle == IdleIn(sess[n], maint[n].peers)
  IN /\ maint[n].pc = "sweep"
     /\ sess' = [sess EXCEPT ![n] =
                   [m \in Nodes |-> IF m \in idle THEN NoSession ELSE @[m]]]
     /\ DropCalls(n, idle)
     /\ maint' = [maint EXCEPT ![n] = [StartMaint EXCEPT !.cur = maint[n].cur]]
     /\ UNCHANGED <<link, faults, ended>>

-----------------------------------------------------------------------------
(* session_task / sync_route_with_peer: the caller's side *)

SendSync(n, m) ==
  /\ sess[n][m] # NoSession
  /\ sess[n][m].running
  /\ call[n][m].stage = "idle"
  /\ call' = [call EXCEPT ![n][m] =
                [NoCall EXCEPT !.stage = "sent",
                               !.id = sess[n][m].my_session_id,
                               !.init = sess[n][m].we_are_initiator,
                               !.expect = sess[n][m].dst_session_id]]
  /\ sess' = [sess EXCEPT ![n][m].need_sync_initiator_info = FALSE,
                          ![n][m].revised = FALSE]
  /\ UNCHANGED <<link, maint, late, faults, ended>>

\* Between two syncs sync_now.recv() fails with Lagged, and the task returns.
TaskEnds(n, m) ==
  /\ sess[n][m] # NoSession
  /\ sess[n][m].running
  /\ call[n][m].stage = "idle"
  /\ faults < MaxFaults
  /\ faults' = faults + 1
  /\ sess' = [sess EXCEPT ![n][m].running = FALSE]
  /\ ended' = ended \cup {<<n, m>>}
  /\ UNCHANGED <<link, maint, call, late>>

\* A sync that the task must send even without rows: a role change to announce,
\* or the initiator's sync every ten seconds.
MustSync(n, m) ==
  /\ sess[n][m] # NoSession
  /\ sess[n][m].need_sync_initiator_info \/ sess[n][m].we_are_initiator
  /\ SendSync(n, m)

\* sync_request_is_current_locked
RequestIsCurrent(n, m) ==
  /\ sess[n][m] # NoSession
  /\ sess[n][m].my_session_id = call[n][m].id
  /\ ~sess[n][m].revised
  /\ sess[n][m].we_are_initiator = call[n][m].init

\* What an answered call does to the session it was sent from.
CommitOk(s, c) == UpdateRemoteState(Touch(s), c.resp_id, c.resp_init)
CommitStopped(s, c) ==
  IF c.init THEN [s EXCEPT !.need_sync_initiator_info = TRUE]
            ELSE ClearDstInitiatorIfSessionUnchanged(s, c.expect)

Commit(n, m) ==
  LET c == call[n][m]
  IN /\ c.stage \in {"ok", "stopped"}
     /\ IF RequestIsCurrent(n, m)
        THEN sess' = [sess EXCEPT ![n][m] =
                        IF c.stage = "ok" THEN CommitOk(@, c) ELSE CommitStopped(@, c)]
        ELSE UNCHANGED sess
     /\ call' = [call EXCEPT ![n][m] = NoCall]
     /\ UNCHANGED <<link, maint, late, faults, ended>>

\* The RPC fails or times out after 3s; over a live link that is a fault.
Timeout(n, m) ==
  /\ call[n][m].stage # "idle"
  /\ IF {n, m} \in link
     THEN faults < MaxFaults /\ faults' = faults + 1
     ELSE UNCHANGED faults
  /\ IF RequestIsCurrent(n, m)
     THEN sess' = [sess EXCEPT ![n][m].need_sync_initiator_info = TRUE]
     ELSE UNCHANGED sess
  /\ DropCalls(n, {m})
  /\ UNCHANGED <<link, maint, ended>>

-----------------------------------------------------------------------------
(* sync_route_info / do_sync_route_info: the handler at m of a request of n *)

\* Look up or create the session, before the await on the interface.
Receive(n, m) ==
  LET c == call[n][m]
      known == sess[m][n] # NoSession
  IN /\ c.stage = "sent"
     /\ {n, m} \in link
     /\ IF known \/ c.init
        THEN /\ CanOpen(m, n)
             /\ call' = [call EXCEPT ![n][m].stage = "handling",
                                     ![n][m].obj = GetOrCreate(m, n).my_session_id]
             /\ sess' = [sess EXCEPT ![m][n] = GetOrCreate(m, n)]
        ELSE /\ call' = [call EXCEPT ![n][m].stage = "stopped"]
             /\ UNCHANGED sess
     /\ UNCHANGED <<link, maint, late, faults, ended>>

\* After the await, under the session lock: still the current session?
\* admitted?  Then take over the remote state and answer with our own.
Admit(n, m) ==
  LET c == call[n][m]
      s == sess[m][n]
  IN /\ c.stage = "handling"
     /\ IF /\ s # NoSession
           /\ s.my_session_id = c.obj
           /\ AdmitsInbound(s, c.id, c.init)
        THEN /\ sess' = [sess EXCEPT ![m][n] = UpdateRemoteState(Touch(s), c.id, c.init)]
             /\ call' = [call EXCEPT ![n][m].stage = "ok",
                                     ![n][m].resp_id = s.my_session_id,
                                     ![n][m].resp_init = s.we_are_initiator]
        ELSE /\ call' = [call EXCEPT ![n][m].stage = "stopped"]
             /\ UNCHANGED sess
     /\ UNCHANGED <<link, maint, late, faults, ended>>

\* A request whose caller is gone is handled like any other; nobody reads the answer.
HandleLate(r) ==
  LET s == sess[r.dst][r.src]
      t == GetOrCreate(r.dst, r.src)
  IN /\ late' = late \ {r}
     /\ IF \/ r.obj = 0 /\ (s # NoSession \/ r.init)
           \/ s # NoSession /\ s.my_session_id = r.obj
        THEN /\ CanOpen(r.dst, r.src)
             /\ sess' = [sess EXCEPT ![r.dst][r.src] =
                  IF AdmitsInbound(t, r.id, r.init)
                  THEN UpdateRemoteState(Touch(t), r.id, r.init) ELSE t]
        ELSE UNCHANGED sess
     /\ UNCHANGED <<link, maint, call, faults, ended>>

-----------------------------------------------------------------------------
(* The environment *)

\* A direct connection goes down or comes back; each node notices at its next Scan.
LinkDown(l) ==
  /\ l \in link
  /\ faults < MaxFaults
  /\ faults' = faults + 1
  /\ link' = link \ {l}
  /\ UNCHANGED <<sess, maint, call, late, ended>>

LinkUp(l) ==
  /\ l \notin link
  /\ link' = link \cup {l}
  /\ UNCHANGED <<sess, maint, call, late, faults, ended>>

\* INITIATOR_SESSION_LIVENESS_TIMEOUT passes without contact.  An initiator on a
\* live link syncs every ten seconds and is admitted under the generation known
\* here, so against one it takes a fault.
KeepsContact(m, n) ==
  /\ {n, m} \in link
  /\ sess[m][n] # NoSession
  /\ sess[m][n].we_are_initiator
  /\ sess[m][n].running
  /\ sess[m][n].my_session_id = sess[n][m].dst_session_id

FallSilent(n, m) ==
  /\ sess[n][m] # NoSession
  /\ ~sess[n][m].silent
  /\ sess[n][m].dst_is_initiator
  /\ ~sess[n][m].we_are_initiator
  /\ IF KeepsContact(m, n)
     THEN faults < MaxFaults /\ faults' = faults + 1
     ELSE UNCHANGED faults
  /\ sess' = [sess EXCEPT ![n][m].silent = TRUE]
  /\ UNCHANGED <<link, maint, call, late, ended>>

SilenceDue(n, m) == sess[n][m] # NoSession /\ ~KeepsContact(m, n) /\ FallSilent(n, m)

-----------------------------------------------------------------------------
Maintain(n) == Scan(n) \/ Elect(n) \/ Sweep(n)

Next ==
  \/ \E n \in Nodes : Maintain(n)
  \/ \E n \in Nodes : \E m \in Nodes \ {n} :
       \/ SendSync(n, m)
       \/ Receive(n, m)
       \/ Admit(n, m)
       \/ Commit(n, m)
       \/ Timeout(n, m)
       \/ TaskEnds(n, m)
       \/ FallSilent(n, m)
  \/ \E r \in late : HandleLate(r)
  \/ \E l \in Links : LinkDown(l) \/ LinkUp(l)

\* Loops and tasks keep running, requests over a live link are handled, timers expire.
Fairness ==
  /\ \A n \in Nodes : WF_vars(Maintain(n))
  /\ \A n \in Nodes : \A m \in Nodes \ {n} :
       /\ WF_vars(MustSync(n, m))
       /\ WF_vars(Receive(n, m))
       /\ WF_vars(Admit(n, m))
       /\ WF_vars(Commit(n, m))
       /\ WF_vars({n, m} \notin link /\ Timeout(n, m))
       /\ WF_vars(SilenceDue(n, m))

Spec == Init /\ [][Next]_vars
FairSpec == Spec /\ Fairness

-----------------------------------------------------------------------------
(* Properties *)

\* Sessions, loop states, calls and late requests have their fields, and a pass that goes
\* on to elect has chosen a peer (maintain_sessions).
TypeOK ==
  /\ link \subseteq Links
  /\ sess \in [Nodes -> [Nodes -> Session \cup {NoSession}]]
  /\ maint \in [Nodes -> Maint]
  /\ \A n \in Nodes : maint[n].pc = "elect" => maint[n].dst \in Nodes
  /\ call \in [Nodes -> [Nodes -> Call]]
  /\ late \subseteq Late
  /\ faults \in 0 .. MaxFaults
  /\ ended \subseteq Nodes \X Nodes

\* The initiator role follows the election loop's local variable: whatever
\* handlers, link changes and drops happen in between, no session but the one
\* towards cur_dst_peer_id_to_initiate carries we_are_initiator, so a node never
\* initiates to two peers; and that one is there and carries it, so a node never
\* believes it initiates through a session it has lost, unless the session's task
\* has ended: maintain_sessions then stops the session and keeps its variable.
Initiated(n) == {m \in SessionPeers(n) : sess[n][m].we_are_initiator}
InitiatorIsElected ==
  \A n \in Nodes :
    /\ Initiated(n) \subseteq {maint[n].cur} \ {None}
    /\ <<n, maint[n].cur>> \notin ended => Initiated(n) = {maint[n].cur} \ {None}

\* The two ends of a session agree: an initiator's peer knows it as such, under
\* the generation it really has, and nobody takes for an initiator a peer that is not.
RolesAgree(n, m) ==
  /\ sess[n][m] # NoSession /\ sess[n][m].we_are_initiator =>
       /\ sess[m][n] # NoSession
       /\ sess[m][n].dst_is_initiator
       /\ sess[m][n].dst_session_id = sess[n][m].my_session_id
  /\ sess[n][m] # NoSession /\ sess[n][m].dst_is_initiator =>
       /\ sess[m][n] # NoSession
       /\ sess[m][n].we_are_initiator

\* Once faults stop, the views of every pair of nodes agree for good, if no session
\* task has ended.  After one has, the loop may go on electing a peer it no longer
\* initiates to, and stop the sessions that peer opens before their first sync is
\* answered.
EventuallyRolesAgree == <>[]((\A n, m \in Nodes : RolesAgree(n, m)) \/ ended # {})

\* The links that carry a route session with a running task at both ends.
Runs(n, m) == sess[n][m] # NoSession /\ sess[n][m].running
SessionLinks == {l \in link : \A n, m \in l : n # m => Runs(n, m)}

Crosses(l, S) == l \cap S # {} /\ l \ S # {}

\* The session links connect whatever the links connect: no cut of the mesh is
\* crossed by a link and by no session.
SessionsSpan ==
  \A S \in SUBSET Nodes :
    (\E l \in link : Crosses(l, S)) => \E l \in SessionLinks : Crosses(l, S)

\* Once faults stop, and no session task has ended, route data can reach every
\* connected node.
EventuallySessionsSpan == <>[](SessionsSpan \/ ended # {})
=============================================================================
