------------------------ MODULE RouteSessionsProofs -------------------------
(***************************************************************************)
(* Proofs about module RouteSessions, for every set of nodes, every graph  *)
(* of links and every bound: the type invariant, and that the sessions     *)
(* carrying the initiator role are exactly the elected one. And about      *)
(* module Credentials, whose keys the routes carry: no key is given twice, *)
(* and a restart comes up.                                                 *)
(***************************************************************************)
EXTENDS RouteSessions, Credentials, WellFoundedInduction, TLAPS

\* A non-empty set of peer ids (or session ids) has a least element, so the first
\* entry of the BTreeSet that maintain_sessions picks is a member of the set.
LEMMA FirstIsMember ==
  ASSUME NEW S \in SUBSET Nat, S # {}
  PROVE  First(S) \in S
<1>1. PICK x \in S : \A y \in S : ~(<<y, x>> \in OpToRel(<, Nat))
  BY NatLessThanWellFounded, WFMin, Zenon
<1>2. \A y \in S : x <= y
  <2> SUFFICES ASSUME NEW y \in S PROVE x <= y
    OBVIOUS
  <2>1. <<y, x>> \in Nat \X Nat
    OBVIOUS
  <2>2. ~(y < x)
    BY <1>1, <2>1 DEF OpToRel
  <2> QED BY <2>2
<1> QED BY <1>2, Zenon DEF First

-----------------------------------------------------------------------------
(* The methods of a session *)

\* Every method of SyncRouteSession that runs under the session lock returns a
\* session, only update_initiator_flag changes the role we play in it, and none its task.
LEMMA SessionMethods ==
  ASSUME NEW s \in Session, NEW id \in Nat, NEW b \in BOOLEAN
  PROVE  /\ UpdateInitiatorFlag(s, b) \in Session
         /\ UpdateInitiatorFlag(s, b).we_are_initiator = b
         /\ UpdateInitiatorFlag(s, b).running = s.running
         /\ UpdateRemoteState(s, id, b) \in Session
         /\ UpdateRemoteState(s, id, b).we_are_initiator = s.we_are_initiator
         /\ UpdateRemoteState(s, id, b).running = s.running
         /\ Touch(s) \in Session
         /\ Touch(s).we_are_initiator = s.we_are_initiator
         /\ Touch(s).running = s.running
         /\ ClearDstInitiatorIfSessionUnchanged(s, id) \in Session
         /\ ClearDstInitiatorIfSessionUnchanged(s, id).we_are_initiator = s.we_are_initiator
         /\ ClearDstInitiatorIfSessionUnchanged(s, id).running = s.running
         /\ ClearStaleDstInitiator(s) \in Session
         /\ ClearStaleDstInitiator(s).we_are_initiator = s.we_are_initiator
         /\ ClearStaleDstInitiator(s).running = s.running
BY Zenon DEF Session, UpdateInitiatorFlag, UpdateRemoteState, Touch,
       ClearDstInitiatorIfSessionUnchanged, ClearStaleDstInitiator

\* Taking over the remote state on contact keeps our role and the task.
LEMMA SyncFromPeer ==
  ASSUME NEW s \in Session, NEW id \in Nat, NEW b \in BOOLEAN
  PROVE  /\ UpdateRemoteState(Touch(s), id, b) \in Session
         /\ UpdateRemoteState(Touch(s), id, b).we_are_initiator = s.we_are_initiator
         /\ UpdateRemoteState(Touch(s), id, b).running = s.running
BY Zenon DEF Session, UpdateRemoteState, Touch

\* A session just created is one in which we are not the initiator and whose task runs.
LEMMA NewSessionType ==
  ASSUME NEW id \in Nat \ {0}
  PROVE  /\ NewSession(id) \in Session
         /\ ~NewSession(id).we_are_initiator /\ NewSession(id).running
BY DEF Session, NewSession

\* An answered call leaves a session behind, and our role in it alone.
LEMMA CommitType ==
  ASSUME NEW s \in Session, NEW c \in Call
  PROVE  /\ CommitOk(s, c) \in Session
         /\ CommitOk(s, c).we_are_initiator = s.we_are_initiator
         /\ CommitOk(s, c).running = s.running
         /\ CommitStopped(s, c) \in Session
         /\ CommitStopped(s, c).we_are_initiator = s.we_are_initiator
         /\ CommitStopped(s, c).running = s.running
<1>1. c.resp_id \in Nat /\ c.resp_init \in BOOLEAN /\ c.expect \in Nat
  BY DEF Call
<1>3. [s EXCEPT !.need_sync_initiator_info = TRUE] \in Session
  BY Zenon DEF Session
<1>4. /\ [s EXCEPT !.need_sync_initiator_info = TRUE].we_are_initiator = s.we_are_initiator
      /\ [s EXCEPT !.need_sync_initiator_info = TRUE].running = s.running
  BY DEF Session
<1>5. /\ CommitOk(s, c) \in Session
      /\ CommitOk(s, c).we_are_initiator = s.we_are_initiator
      /\ CommitOk(s, c).running = s.running
  BY <1>1, SyncFromPeer DEF CommitOk
<1>6. /\ ClearDstInitiatorIfSessionUnchanged(s, c.expect) \in Session
      /\ ClearDstInitiatorIfSessionUnchanged(s, c.expect).we_are_initiator = s.we_are_initiator
      /\ ClearDstInitiatorIfSessionUnchanged(s, c.expect).running = s.running
  BY <1>1, SessionMethods
<1> QED BY <1>3, <1>4, <1>5, <1>6 DEF CommitStopped

\* get_or_create_session returns a session, and a new one does not initiate.
LEMMA OpenedType ==
  ASSUME NEW n, NEW m, NEW s \in Session \cup {NoSession},
         s # NoSession \/ FreshIds(n, m) # {}
  PROVE  /\ Opened(n, m, s) \in Session
         /\ Opened(n, m, s).we_are_initiator => s # NoSession /\ s.we_are_initiator
         /\ Opened(n, m, s).running \/ (s # NoSession /\ ~s.running)
         /\ s # NoSession => Opened(n, m, s) = s
<1>1. CASE s # NoSession
  BY <1>1 DEF Opened
<1>2. CASE s = NoSession
  <2>1. FreshIds(n, m) \in SUBSET Nat /\ FreshIds(n, m) # {}
    BY <1>2, BoundsAssumption DEF FreshIds
  <2>2. First(FreshIds(n, m)) \in Nat \ {0}
    BY <2>1, FirstIsMember, BoundsAssumption DEF FreshIds
  <2> QED BY <1>2, <2>2, NewSessionType DEF Opened
<1> QED BY <1>1, <1>2

-----------------------------------------------------------------------------
(* The type invariant *)

Sessions == [Nodes -> [Nodes -> Session \cup {NoSession}]]
Calls == [Nodes -> [Nodes -> Call]]

\* Dropping session tasks leaves well-formed calls and late requests.
LEMMA DropCallsType ==
  ASSUME TypeOK, NEW n \in Nodes, NEW M \in SUBSET Nodes, DropCalls(n, M)
  PROVE  call' \in Calls /\ late' \subseteq Late
<1>1. NoCall \in Call
  BY DEF NoCall, Call, Stages
<1>2. call' \in Calls
  BY <1>1 DEF DropCalls, TypeOK, Calls
<1>3. \A m \in M : call[n][m].id \in Nat /\ call[n][m].init \in BOOLEAN
                   /\ call[n][m].obj \in Nat
  BY DEF TypeOK, Call
<1>4. ASSUME NEW r \in Outlive(n, M)
      PROVE  r \in Late
  <2>1. PICK m \in M : r = [src |-> n, dst |-> m, id |-> call[n][m].id,
                            init |-> call[n][m].init, obj |-> call[n][m].obj]
    BY Zenon DEF Outlive
  <2> QED BY <2>1, <1>3 DEF Late
<1> QED BY <1>2, <1>4 DEF DropCalls, TypeOK

\* A pass may choose only peers of the node.
LEMMA ChoiceType ==
  ASSUME NEW n \in Nodes, NEW ss, Candidates(n, ss) # {}, NEW known
  PROVE  Choice(Candidates(n, ss), known) \in Nodes
<1> DEFINE cands == Candidates(n, ss)
<1>1. cands \subseteq Nodes /\ Nodes \subseteq Nat
  BY NodesAssumption DEF Candidates, Peers
<1>2. \A S \in SUBSET cands : S # {} => First(S) \in Nodes
  BY <1>1, FirstIsMember
<1> QED BY <1>2 DEF Choice

\* Pruning keeps sessions sessions, and our role in the ones it keeps.
LEMMA PrunedType ==
  ASSUME TypeOK, NEW n \in Nodes
  PROVE  /\ Pruned(n) \in [Nodes -> Session \cup {NoSession}]
         /\ \A m \in Nodes :
              IF sess[n][m] # NoSession /\ m \in Peers(n)
              THEN /\ Pruned(n)[m] \in Session
                   /\ Pruned(n)[m].we_are_initiator = sess[n][m].we_are_initiator
                   /\ Pruned(n)[m].running = sess[n][m].running
              ELSE Pruned(n)[m] = NoSession
<1>1. ASSUME NEW m \in Nodes, sess[n][m] # NoSession
      PROVE  /\ ClearStaleDstInitiator(sess[n][m]) \in Session
             /\ ClearStaleDstInitiator(sess[n][m]).we_are_initiator
                  = sess[n][m].we_are_initiator
             /\ ClearStaleDstInitiator(sess[n][m]).running = sess[n][m].running
  <2>1. sess[n][m] \in Session
    BY <1>1 DEF TypeOK
  <2> QED BY <2>1, SessionMethods, Zenon
<1> QED BY <1>1 DEF Pruned

\* Handing the role over keeps sessions sessions; afterwards the role is with d,
\* and with no other session than before except cur's, which lost it.
LEMMA HandedOverType ==
  ASSUME NEW n, NEW ss \in [Nodes -> Session \cup {NoSession}], NEW cur, NEW d \in Nodes,
         ss[d] # NoSession \/ FreshIds(n, d) # {}
  PROVE  HandedOver(n, ss, cur, d) \in [Nodes -> Session \cup {NoSession}]
<1>0. Opened(n, d, ss[d]) \in Session
  BY OpenedType
<1>1. Started(Opened(n, d, ss[d])) \in Session /\ Started(Opened(n, d, ss[d])).running
  BY <1>0, Zenon DEF Started, Session
<1>2. /\ UpdateInitiatorFlag(Started(Opened(n, d, ss[d])), TRUE) \in Session
      /\ UpdateInitiatorFlag(Started(Opened(n, d, ss[d])), TRUE).we_are_initiator
      /\ UpdateInitiatorFlag(Started(Opened(n, d, ss[d])), TRUE).running
  BY <1>1, SessionMethods, Zenon
<1>3. ASSUME NEW m \in Nodes, ss[m] # NoSession
      PROVE  /\ UpdateInitiatorFlag(ss[m], FALSE) \in Session
             /\ ~UpdateInitiatorFlag(ss[m], FALSE).we_are_initiator
             /\ UpdateInitiatorFlag(ss[m], FALSE).running = ss[m].running
  <2>1. ss[m] \in Session
    BY <1>3
  <2> QED BY <2>1, SessionMethods, Zenon
<1> QED BY <1>2, <1>3, Zenon DEF HandedOver

\* The handover gives the role to d's session, whose task runs afterwards, takes it from
\* cur's and leaves the others alone.
LEMMA HandedOverRole ==
  ASSUME NEW n, NEW ss \in [Nodes -> Session \cup {NoSession}], NEW cur, NEW d \in Nodes,
         ss[d] # NoSession \/ FreshIds(n, d) # {}, d # cur
  PROVE  /\ HandedOver(n, ss, cur, d)[d] \in Session
         /\ HandedOver(n, ss, cur, d)[d].we_are_initiator
         /\ HandedOver(n, ss, cur, d)[d].running
         /\ \A m \in Nodes \ {d} : HandedOver(n, ss, cur, d)[m] # NoSession =>
              ss[m] # NoSession /\ HandedOver(n, ss, cur, d)[m].running = ss[m].running
         /\ \A m \in Nodes \ {d, cur} : HandedOver(n, ss, cur, d)[m] = ss[m]
         /\ cur \in Nodes => \/ HandedOver(n, ss, cur, d)[cur] = NoSession
                            \/ ~HandedOver(n, ss, cur, d)[cur].we_are_initiator
<1>0. Opened(n, d, ss[d]) \in Session
  BY OpenedType
<1>1. Started(Opened(n, d, ss[d])) \in Session /\ Started(Opened(n, d, ss[d])).running
  BY <1>0, Zenon DEF Started, Session
<1>2. /\ UpdateInitiatorFlag(Started(Opened(n, d, ss[d])), TRUE) \in Session
      /\ UpdateInitiatorFlag(Started(Opened(n, d, ss[d])), TRUE).we_are_initiator
      /\ UpdateInitiatorFlag(Started(Opened(n, d, ss[d])), TRUE).running
  BY <1>1, SessionMethods, Zenon
<1>3. ASSUME NEW m \in Nodes, ss[m] # NoSession
      PROVE  /\ UpdateInitiatorFlag(ss[m], FALSE) \in Session
             /\ ~UpdateInitiatorFlag(ss[m], FALSE).we_are_initiator
             /\ UpdateInitiatorFlag(ss[m], FALSE).running = ss[m].running
  <2>1. ss[m] \in Session
    BY <1>3
  <2> QED BY <2>1, SessionMethods, Zenon
<1> QED BY <1>2, <1>3, Zenon DEF HandedOver

\* Replacing one session or one call by another of its type keeps the type.
LEMMA UpdateType ==
  ASSUME TypeOK, NEW n \in Nodes, NEW m \in Nodes
  PROVE  /\ \A s \in Session : [sess EXCEPT ![n][m] = s] \in Sessions
         /\ \A c \in Call : [call EXCEPT ![n][m] = c] \in Calls
BY DEF TypeOK, Sessions, Calls

\* What a step of a task, a handler or the network has to preserve.
LEMMA TypeStep ==
  ASSUME TypeOK, sess' \in Sessions, call' \in Calls, late' \subseteq Late,
         faults' \in 0 .. MaxFaults, UNCHANGED <<link, maint, ended>>
  PROVE  TypeOK'
BY DEF TypeOK, Sessions, Calls

\* Every variable keeps its type, whatever the interleaving of loops, tasks and
\* handlers: an initial state has it and every step preserves it.
THEOREM TypeCorrect == Spec => []TypeOK
<1>1. Init => TypeOK
  BY BoundsAssumption DEF Init, TypeOK, Maint, StartMaint, NoCall, Call, Stages, None
<1>2. TypeOK /\ [Next]_vars => TypeOK'
  <2> SUFFICES ASSUME TypeOK, [Next]_vars PROVE TypeOK'
    OBVIOUS
  <2>1. ASSUME NEW n \in Nodes, Scan(n) PROVE TypeOK'
    <3>1. SessionPeers(n) \subseteq Nodes /\ Gone(n) \subseteq Nodes
      BY DEF SessionPeers, Gone
    <3>2. call' \in Calls /\ late' \subseteq Late
      BY <2>1, <3>1, DropCallsType DEF Scan
    <3>3. sess' \in Sessions
      BY <2>1, PrunedType DEF Scan, TypeOK, Sessions
    <3>4. PrunedCur(n) \in Nodes \cup {None}
      BY DEF PrunedCur, TypeOK, Maint
    <3>5. CASE maint' = [maint EXCEPT ![n].cur = PrunedCur(n)]
      <4>1. maint[n].pc = "wait"
        BY <2>1 DEF Scan
      <4>4. [maint[n] EXCEPT !.cur = PrunedCur(n)] \in Maint
        <5>1. maint[n] \in Maint
          BY DEF TypeOK
        <5> QED BY <3>4, <5>1 DEF Maint
      <4>2. maint' \in [Nodes -> Maint]
        BY <3>5, <4>4 DEF TypeOK
      <4>3. \A k \in Nodes : maint'[k].pc = maint[k].pc /\ maint'[k].dst = maint[k].dst
        BY <3>5 DEF TypeOK, Maint
      <4> QED BY <2>1, <3>2, <3>3, <4>2, <4>3, ZenonT(30) DEF Scan, TypeOK, Sessions, Calls
    <3>6. ASSUME Candidates(n, Pruned(n)) # {}, NEW known,
                 maint' = [maint EXCEPT ![n] =
                             [pc |-> "elect", cur |-> PrunedCur(n),
                              dst |-> Choice(Candidates(n, Pruned(n)), known),
                              peers |-> SessionPeers(n)]]
          PROVE  TypeOK'
      <4> DEFINE d == Choice(Candidates(n, Pruned(n)), known)
      <4>1. d \in Nodes
        BY <3>6, ChoiceType
      <4> HIDE DEF d
      <4>2. [pc |-> "elect", cur |-> PrunedCur(n), dst |-> d, peers |-> SessionPeers(n)] \in Maint
        BY <3>1, <3>4, <4>1 DEF Maint
      <4>3. maint' \in [Nodes -> Maint]
        BY <3>6, <4>2 DEF TypeOK, d
      <4>4. \A k \in Nodes : maint'[k].pc = "elect" => maint'[k].dst \in Nodes
        BY <3>6, <4>1 DEF TypeOK, d
      <4> QED BY <2>1, <3>2, <3>3, <4>3, <4>4 DEF Scan, TypeOK, Sessions, Calls
    <3> QED BY <2>1, <3>5, <3>6 DEF Scan
  <2>2. ASSUME NEW n \in Nodes, Elect(n) PROVE TypeOK'
    <3>1. maint[n].dst \in Nodes /\ sess[n] \in [Nodes -> Session \cup {NoSession}]
      BY <2>2 DEF Elect, TypeOK
    <3>2. sess[n][maint[n].dst] # NoSession \/ FreshIds(n, maint[n].dst) # {}
      BY <2>2 DEF Elect, CanOpen
    <3>5. HandedOver(n, sess[n], maint[n].cur, maint[n].dst)
            \in [Nodes -> Session \cup {NoSession}]
      BY <3>1, <3>2, HandedOverType, Zenon
    <3>3. maint' \in [Nodes -> Maint]
      BY <2>2, <3>1, ZenonT(30) DEF Elect, TypeOK, Maint
    <3>4. \A k \in Nodes : maint'[k].pc = "elect" => maint'[k].dst \in Nodes
      BY <2>2 DEF Elect, TypeOK, Maint
    <3>6. ended' \subseteq Nodes \X Nodes
      BY <2>2 DEF Elect, EndedAfter, TypeOK
    <3> QED BY <2>2, <3>5, <3>3, <3>4, <3>6 DEF Elect, TypeOK
  <2>3. ASSUME NEW n \in Nodes, Sweep(n) PROVE TypeOK'
    <3>1. IdleIn(sess[n], maint[n].peers) \subseteq Nodes
      BY DEF IdleIn, TypeOK, Maint
    <3>2. call' \in Calls /\ late' \subseteq Late
      BY <2>3, <3>1, DropCallsType DEF Sweep
    <3>3. sess' \in Sessions
      BY <2>3 DEF Sweep, TypeOK, Sessions
    <3>4. /\ [StartMaint EXCEPT !.cur = maint[n].cur] \in Maint
          /\ [StartMaint EXCEPT !.cur = maint[n].cur].pc = "wait"
      BY DEF TypeOK, Maint, StartMaint, None
    <3> QED BY <2>3, <3>2, <3>3, <3>4 DEF Sweep, TypeOK, Sessions, Calls
  <2>4. ASSUME NEW n \in Nodes, NEW m \in Nodes, SendSync(n, m) PROVE TypeOK'
    <3>1. sess[n][m] \in Session
      BY <2>4 DEF SendSync, TypeOK
    <3> DEFINE c == [NoCall EXCEPT !.stage = "sent", !.id = sess[n][m].my_session_id,
                                   !.init = sess[n][m].we_are_initiator,
                                   !.expect = sess[n][m].dst_session_id]
               s == [sess[n][m] EXCEPT !.need_sync_initiator_info = FALSE, !.revised = FALSE]
    <3>2. c \in Call
      BY <3>1, Zenon DEF NoCall, Call, Stages, Session
    <3>3. s \in Session
      BY <3>1, Zenon DEF Session
    <3>4. sess' = [sess EXCEPT ![n][m] = s]
      BY <2>4, Zenon DEF SendSync, TypeOK
    <3>5. call' = [call EXCEPT ![n][m] = c]
      BY <2>4 DEF SendSync
    <3>6. UNCHANGED <<link, maint, late, faults, ended>>
      BY <2>4 DEF SendSync
    <3>7. late' \subseteq Late /\ faults' \in 0 .. MaxFaults
      BY <3>6 DEF TypeOK
    <3> HIDE DEF c, s
    <3>8. sess' \in Sessions /\ call' \in Calls
      BY <3>2, <3>3, <3>4, <3>5, UpdateType, Zenon
    <3> QED BY <3>6, <3>7, <3>8, TypeStep
  <2>5. ASSUME NEW n \in Nodes, NEW m \in Nodes, Receive(n, m) PROVE TypeOK'
    <3>1. call[n][m] \in Call /\ sess[m][n] \in Session \cup {NoSession}
      BY DEF TypeOK
    <3>4. UNCHANGED <<link, maint, ended>> /\ late' \subseteq Late /\ faults' \in 0 .. MaxFaults
      BY <2>5 DEF Receive, TypeOK
    <3>2. CASE sess[m][n] # NoSession \/ call[n][m].init
      <4> DEFINE s == GetOrCreate(m, n)
                 c == [call[n][m] EXCEPT !.stage = "handling", !.obj = s.my_session_id]
      <4>1. s \in Session
        BY <2>5, <3>1, <3>2, OpenedType DEF Receive, GetOrCreate, CanOpen
      <4>2. c \in Call
        BY <3>1, <4>1, Zenon DEF Call, Stages, Session
      <4>3. sess' = [sess EXCEPT ![m][n] = s] /\ call' = [call EXCEPT ![n][m] = c]
        BY <2>5, <3>2, Zenon DEF Receive, TypeOK
      <4> HIDE DEF c, s
      <4> QED BY <3>4, <4>1, <4>2, <4>3, UpdateType, TypeStep, Zenon
    <3>3. CASE ~(sess[m][n] # NoSession \/ call[n][m].init)
      <4>1. [call[n][m] EXCEPT !.stage = "stopped"] \in Call
        BY <3>1 DEF Call, Stages
      <4>2. /\ call' = [call EXCEPT ![n][m] = [call[n][m] EXCEPT !.stage = "stopped"]]
            /\ sess' = sess
        BY <2>5, <3>3 DEF Receive, TypeOK
      <4>3. sess' \in Sessions
        BY <4>2 DEF TypeOK, Sessions
      <4> QED BY <3>4, <4>1, <4>2, <4>3, UpdateType, TypeStep, Zenon
    <3> QED BY <3>2, <3>3
  <2>6. ASSUME NEW n \in Nodes, NEW m \in Nodes, Admit(n, m) PROVE TypeOK'
    <3>1. call[n][m] \in Call /\ sess[m][n] \in Session \cup {NoSession}
      BY DEF TypeOK
    <3> DEFINE admitted == /\ sess[m][n] # NoSession
                           /\ sess[m][n].my_session_id = call[n][m].obj
                           /\ AdmitsInbound(sess[m][n], call[n][m].id, call[n][m].init)
    <3>4. UNCHANGED <<link, maint, ended>> /\ late' \subseteq Late /\ faults' \in 0 .. MaxFaults
      BY <2>6 DEF Admit, TypeOK
    <3>2. CASE admitted
      <4> DEFINE s == UpdateRemoteState(Touch(sess[m][n]), call[n][m].id, call[n][m].init)
                 c == [call[n][m] EXCEPT !.stage = "ok",
                                         !.resp_id = sess[m][n].my_session_id,
                                         !.resp_init = sess[m][n].we_are_initiator]
      <4>1. s \in Session
        BY <3>1, <3>2, SyncFromPeer DEF Call
      <4>2. c \in Call
        BY <3>1, <3>2, Zenon DEF Call, Stages, Session
      <4>4. sess' = [sess EXCEPT ![m][n] = s]
        BY <2>6, <3>2 DEF Admit
      <4>5. call' = [call EXCEPT ![n][m].stage = "ok",
                                 ![n][m].resp_id = sess[m][n].my_session_id,
                                 ![n][m].resp_init = sess[m][n].we_are_initiator]
        BY <2>6, <3>2 DEF Admit
      <4>3. sess' = [sess EXCEPT ![m][n] = s] /\ call' = [call EXCEPT ![n][m] = c]
        BY <4>4, <4>5, Zenon DEF TypeOK
      <4> HIDE DEF c, s
      <4> QED BY <3>4, <4>1, <4>2, <4>3, UpdateType, TypeStep, Zenon
    <3>3. CASE ~admitted
      <4>1. [call[n][m] EXCEPT !.stage = "stopped"] \in Call
        BY <3>1 DEF Call, Stages
      <4>2. /\ call' = [call EXCEPT ![n][m] = [call[n][m] EXCEPT !.stage = "stopped"]]
            /\ sess' = sess
        BY <2>6, <3>3 DEF Admit, TypeOK
      <4>3. sess' \in Sessions
        BY <4>2 DEF TypeOK, Sessions
      <4> QED BY <3>4, <4>1, <4>2, <4>3, UpdateType, TypeStep, Zenon
    <3> QED BY <3>2, <3>3
  <2>7. ASSUME NEW n \in Nodes, NEW m \in Nodes, Commit(n, m) PROVE TypeOK'
    <3>1. call[n][m] \in Call /\ NoCall \in Call
      BY DEF TypeOK, NoCall, Call, Stages
    <3>2. ASSUME sess[n][m] # NoSession
          PROVE  /\ CommitOk(sess[n][m], call[n][m]) \in Session
                 /\ CommitStopped(sess[n][m], call[n][m]) \in Session
      <4>1. sess[n][m] \in Session
        BY <3>2 DEF TypeOK
      <4> QED BY <3>1, <4>1, CommitType, Zenon
    <3>3. ASSUME sess' = sess PROVE sess' \in Sessions
      BY <3>3 DEF TypeOK, Sessions
    <3>4. ASSUME sess[n][m] # NoSession, sess' # sess PROVE sess' \in Sessions
      <4>1. \/ sess' = [sess EXCEPT ![n][m] = CommitOk(sess[n][m], call[n][m])]
            \/ sess' = [sess EXCEPT ![n][m] = CommitStopped(sess[n][m], call[n][m])]
        BY <2>7, <3>4 DEF Commit, TypeOK
      <4> QED BY <3>2, <3>4, <4>1, UpdateType
    <3>5. sess' \in Sessions
      BY <2>7, <3>3, <3>4 DEF Commit, RequestIsCurrent
    <3>6. call' \in Calls
      BY <2>7, <3>1, UpdateType, Zenon DEF Commit
    <3> QED BY <2>7, <3>5, <3>6, TypeStep DEF Commit, TypeOK
  <2>8. ASSUME NEW n \in Nodes, NEW m \in Nodes, Timeout(n, m) PROVE TypeOK'
    <3>1. call' \in Calls /\ late' \subseteq Late
      BY <2>8, DropCallsType DEF Timeout
    <3>2. ASSUME sess' = sess PROVE sess' \in Sessions
      BY <3>2 DEF TypeOK, Sessions
    <3>3. ASSUME RequestIsCurrent(n, m) PROVE sess' \in Sessions
      <4>1. sess[n][m] \in Session
        BY <3>3 DEF RequestIsCurrent, TypeOK
      <4>2. [sess[n][m] EXCEPT !.need_sync_initiator_info = TRUE] \in Session
        BY <4>1, Zenon DEF Session
      <4>3. sess' = [sess EXCEPT ![n][m] =
                       [sess[n][m] EXCEPT !.need_sync_initiator_info = TRUE]]
        BY <2>8, <3>3 DEF Timeout, TypeOK
      <4> QED BY <4>2, <4>3, UpdateType, Zenon
    <3>4. sess' \in Sessions
      BY <2>8, <3>2, <3>3 DEF Timeout
    <3>5. faults' \in 0 .. MaxFaults
      BY <2>8, BoundsAssumption DEF Timeout, TypeOK
    <3> QED BY <2>8, <3>1, <3>4, <3>5, TypeStep DEF Timeout
  <2>9. ASSUME NEW n \in Nodes, NEW m \in Nodes, FallSilent(n, m) PROVE TypeOK'
    <3>1. sess[n][m] \in Session
      BY <2>9 DEF FallSilent, TypeOK
    <3>2. [sess[n][m] EXCEPT !.silent = TRUE] \in Session
      BY <3>1, Zenon DEF Session
    <3>3. sess' = [sess EXCEPT ![n][m] = [sess[n][m] EXCEPT !.silent = TRUE]]
      BY <2>9 DEF FallSilent, TypeOK
    <3>4. sess' \in Sessions
      BY <3>2, <3>3, UpdateType, Zenon
    <3>5. faults' \in 0 .. MaxFaults
      BY <2>9, BoundsAssumption DEF FallSilent, TypeOK
    <3>6. call' \in Calls /\ late' \subseteq Late
      BY <2>9 DEF FallSilent, TypeOK, Calls
    <3> QED BY <2>9, <3>4, <3>5, <3>6, TypeStep DEF FallSilent
  <2>13. ASSUME NEW n \in Nodes, NEW m \in Nodes, TaskEnds(n, m) PROVE TypeOK'
    <3>1. sess[n][m] \in Session
      BY <2>13 DEF TaskEnds, TypeOK
    <3>2. [sess[n][m] EXCEPT !.running = FALSE] \in Session
      BY <3>1, Zenon DEF Session
    <3>3. sess' = [sess EXCEPT ![n][m] = [sess[n][m] EXCEPT !.running = FALSE]]
      BY <2>13 DEF TaskEnds, TypeOK
    <3>4. sess' \in Sessions
      BY <3>2, <3>3, UpdateType, Zenon
    <3>5. faults' \in 0 .. MaxFaults /\ ended' \subseteq Nodes \X Nodes
      BY <2>13, BoundsAssumption DEF TaskEnds, TypeOK
    <3> QED BY <2>13, <3>4, <3>5 DEF TaskEnds, TypeOK, Sessions
  <2>10. ASSUME NEW r \in late, HandleLate(r) PROVE TypeOK'
    <3>1. r.src \in Nodes /\ r.dst \in Nodes /\ r.id \in Nat /\ r.init \in BOOLEAN
      BY DEF TypeOK, Late
    <3>2. sess[r.dst][r.src] \in Session \cup {NoSession}
      BY <3>1 DEF TypeOK
    <3>3. ASSUME CanOpen(r.dst, r.src)
          PROVE  /\ GetOrCreate(r.dst, r.src) \in Session
                 /\ UpdateRemoteState(Touch(GetOrCreate(r.dst, r.src)), r.id, r.init) \in Session
      <4>1. GetOrCreate(r.dst, r.src) \in Session
        BY <3>2, <3>3, OpenedType DEF CanOpen, GetOrCreate
      <4> QED BY <3>1, <4>1, SyncFromPeer
    <3>4. ASSUME sess' = sess PROVE sess' \in Sessions
      BY <3>4 DEF TypeOK, Sessions
    <3>5. ASSUME sess' # sess PROVE sess' \in Sessions
      <4>1. /\ CanOpen(r.dst, r.src)
            /\ \/ sess' = [sess EXCEPT ![r.dst][r.src] = GetOrCreate(r.dst, r.src)]
               \/ sess' = [sess EXCEPT ![r.dst][r.src] =
                    UpdateRemoteState(Touch(GetOrCreate(r.dst, r.src)), r.id, r.init)]
        BY <2>10, <3>5 DEF HandleLate
      <4> QED BY <3>1, <3>3, <4>1, UpdateType
    <3>6. sess' \in Sessions
      BY <3>4, <3>5
    <3> QED BY <2>10, <3>6, TypeStep DEF HandleLate, TypeOK, Calls
  <2>11. ASSUME NEW l \in Links, LinkDown(l) \/ LinkUp(l) PROVE TypeOK'
    BY <2>11, BoundsAssumption DEF LinkDown, LinkUp, TypeOK
  <2>12. CASE UNCHANGED vars
    BY <2>12 DEF vars, TypeOK
  <2> QED BY <2>1, <2>2, <2>3, <2>4, <2>5, <2>6, <2>7, <2>8, <2>9, <2>10, <2>11, <2>12, <2>13
          DEF Next, Maintain
<1> QED BY <1>1, <1>2, PTL DEF Spec

-----------------------------------------------------------------------------
(* The initiator role *)

\* n plays the initiator in its session towards m.
HasRole(n, m) == sess[n][m] # NoSession /\ sess[n][m].we_are_initiator

\* InitiatorIsElected, one pair of nodes at a time, strengthened: the history knows of
\* every session without a task, which is what the sweep may drop the elected one for.
RoleFits(n, m) ==
  /\ HasRole(n, m) => m = maint[n].cur
  /\ m = maint[n].cur => HasRole(n, m) \/ <<n, m>> \in ended
  /\ sess[n][m] # NoSession => sess[n][m].running \/ <<n, m>> \in ended
RoleIsElected == \A n, m \in Nodes : RoleFits(n, m)

\* The pairs say what InitiatorIsElected says of the sets: peer id 0 is nobody.
LEMMA RoleIsElectedSuffices ==
  ASSUME TypeOK, RoleIsElected
  PROVE  InitiatorIsElected
<1>1. \A n \in Nodes : maint[n].cur \in Nodes \cup {None}
  BY DEF TypeOK, Maint
<1>2. None \notin Nodes
  BY NodesAssumption DEF None
<1>3. \A n \in Nodes : Initiated(n) = {m \in Nodes : HasRole(n, m)}
  BY DEF Initiated, SessionPeers, HasRole
<1> QED BY <1>1, <1>2, <1>3, ZenonT(30) DEF RoleIsElected, RoleFits, InitiatorIsElected

\* A step that touches one session, and neither the role in it nor its task, preserves
\* RoleIsElected.
LEMMA RoleKept ==
  ASSUME TypeOK, RoleIsElected, NEW n \in Nodes, NEW m \in Nodes, NEW s \in Session,
         s.we_are_initiator <=> HasRole(n, m),
         s.running \/ (sess[n][m] # NoSession /\ ~sess[n][m].running),
         sess' = [sess EXCEPT ![n][m] = s] \/ sess' = sess, UNCHANGED <<maint, ended>>
  PROVE  RoleIsElected'
<1>1. s # NoSession
  BY NoSessionAssumption
<1>2. \A i, j \in Nodes : sess'[i][j] = sess[i][j] \/ (i = n /\ j = m /\ sess'[i][j] = s)
  BY DEF TypeOK
<1>3. ASSUME NEW i \in Nodes, NEW j \in Nodes PROVE RoleFits(i, j)'
  <2>1. RoleFits(i, j) /\ RoleFits(n, m) /\ maint' = maint /\ ended' = ended
    BY DEF RoleIsElected
  <2>2. CASE sess'[i][j] = sess[i][j]
    BY <2>1, <2>2 DEF RoleFits, HasRole
  <2>3. CASE i = n /\ j = m /\ sess'[i][j] = s
    BY <1>1, <2>1, <2>3 DEF RoleFits, HasRole
  <2> QED BY <1>2, <2>2, <2>3
<1> QED BY <1>3 DEF RoleIsElected

\* Nor does one that leaves the sessions, the elected peer and the tasks of a node alone.
LEMMA RoleUntouched ==
  ASSUME NEW i \in Nodes, NEW j \in Nodes, RoleFits(i, j), sess'[i][j] = sess[i][j],
         maint'[i].cur = maint[i].cur, <<i, j>> \in ended => <<i, j>> \in ended'
  PROVE  RoleFits(i, j)'
BY DEF RoleFits, HasRole

\* One pass of maintain_sessions keeps role and elected peer together: Scan forgets
\* the elected peer with its session, Elect moves both and starts the task, Sweep drops
\* a session in which we initiate only when its task has ended.
LEMMA MaintainKeepsRole ==
  ASSUME TypeOK, RoleIsElected, NEW n \in Nodes, Maintain(n)
  PROVE  RoleIsElected'
<1>0. None \notin Nodes
  BY NodesAssumption DEF None
<1>1. CASE Scan(n)
  <2>1. /\ sess' = [sess EXCEPT ![n] = Pruned(n)]
        /\ \A k \in Nodes \ {n} : maint'[k].cur = maint[k].cur
        /\ maint'[n].cur = PrunedCur(n)
        /\ ended' = ended
    BY <1>1 DEF Scan, TypeOK, Maint
  <2>2. ASSUME NEW m \in Nodes
        PROVE  RoleFits(n, m)'
    <3>0. RoleFits(n, m) /\ maint'[n].cur = PrunedCur(n) /\ ended' = ended
      BY <2>1 DEF RoleIsElected
    <3>1. sess'[n][m] = Pruned(n)[m]
      BY <2>1 DEF TypeOK
    <3>2. CASE sess[n][m] # NoSession /\ m \in Peers(n)
      <4>1. m \notin Gone(n)
        BY <3>2 DEF Gone
      <4>2. /\ Pruned(n)[m] \in Session
            /\ Pruned(n)[m].we_are_initiator = sess[n][m].we_are_initiator
            /\ Pruned(n)[m].running = sess[n][m].running
        BY <3>2, PrunedType
      <4>3. HasRole(n, m)' <=> HasRole(n, m)
        BY <3>1, <3>2, <4>2, NoSessionAssumption DEF HasRole
      <4>4. m = PrunedCur(n) <=> m = maint[n].cur
        BY <1>0, <4>1 DEF PrunedCur
      <4> QED BY <3>0, <3>1, <3>2, <4>2, <4>3, <4>4 DEF RoleFits
    <3>3. CASE ~(sess[n][m] # NoSession /\ m \in Peers(n))
      <4>1. sess'[n][m] = NoSession
        BY <3>1, <3>3, PrunedType
      <4>2. m = maint[n].cur => m \in Gone(n) \/ <<n, m>> \in ended
        BY <3>0, <3>3 DEF RoleFits, HasRole, Gone, SessionPeers
      <4> QED BY <1>0, <3>0, <4>1, <4>2 DEF RoleFits, PrunedCur, HasRole
    <3> QED BY <3>2, <3>3
  <2>3. ASSUME NEW k \in Nodes \ {n}, NEW m \in Nodes PROVE RoleFits(k, m)'
    <3>1. RoleFits(k, m) /\ sess'[k][m] = sess[k][m]
      BY <2>1 DEF TypeOK, RoleIsElected
    <3> QED BY <2>1, <3>1, RoleUntouched, ZenonT(30)
  <2> QED BY <2>2, <2>3 DEF RoleIsElected
<1>2. CASE Elect(n)
  <2> DEFINE d == maint[n].dst
             cur == maint[n].cur
             ss == HandedOver(n, sess[n], cur, d)
  <2>1. /\ d \in Nodes
        /\ sess[n] \in [Nodes -> Session \cup {NoSession}]
        /\ sess[n][d] # NoSession \/ FreshIds(n, d) # {}
    BY <1>2 DEF Elect, TypeOK, CanOpen
  <2>2. /\ sess' = [sess EXCEPT ![n] = ss]
        /\ \A k \in Nodes \ {n} : maint'[k].cur = maint[k].cur
        /\ maint'[n].cur = d
        /\ ended' = EndedAfter(n, cur, d)
    BY <1>2 DEF Elect, TypeOK, Maint
  <2>3. ASSUME NEW k \in Nodes \ {n}, NEW m \in Nodes PROVE RoleFits(k, m)'
    <3>1. RoleFits(k, m) /\ sess'[k][m] = sess[k][m]
      BY <2>2 DEF TypeOK, RoleIsElected
    <3>2. <<k, m>> \in ended => <<k, m>> \in ended'
      BY <2>2 DEF EndedAfter
    <3> QED BY <2>2, <3>1, <3>2, RoleUntouched
  <2>4. \A m \in Nodes : sess'[n][m] = ss[m]
    BY <2>2 DEF TypeOK
  <2>5. CASE d = cur
    <3>1. \A m \in Nodes : ss[m] = sess[n][m]
      BY <2>5 DEF HandedOver
    <3>2. ended' = ended
      BY <2>2, <2>5 DEF EndedAfter
    <3>3. ASSUME NEW m \in Nodes PROVE RoleFits(n, m)'
      <4>1. RoleFits(n, m) /\ sess'[n][m] = sess[n][m]
        BY <2>4, <3>1 DEF RoleIsElected
      <4> QED BY <2>2, <2>5, <3>2, <4>1, RoleUntouched, ZenonT(30)
    <3> QED BY <2>3, <3>3 DEF RoleIsElected
  <2>6. CASE d # cur
    <3>0. cur = maint[n].cur /\ ss = HandedOver(n, sess[n], cur, d)
      OBVIOUS
    <3> HIDE DEF ss, d, cur
    <3>1. /\ ss[d] \in Session /\ ss[d].we_are_initiator /\ ss[d].running
          /\ \A m \in Nodes \ {d} : ss[m] # NoSession =>
               sess[n][m] # NoSession /\ ss[m].running = sess[n][m].running
          /\ \A m \in Nodes \ {d, cur} : ss[m] = sess[n][m]
          /\ cur \in Nodes => ss[cur] = NoSession \/ ~ss[cur].we_are_initiator
      <4>1. sess[n] \in [Nodes -> Session \cup {NoSession}] /\ d \in Nodes /\ d # cur
        BY <2>1, <2>6
      <4>2. sess[n][d] # NoSession \/ FreshIds(n, d) # {}
        BY <2>1
      <4>3. /\ HandedOver(n, sess[n], cur, d)[d] \in Session
            /\ HandedOver(n, sess[n], cur, d)[d].we_are_initiator
            /\ HandedOver(n, sess[n], cur, d)[d].running
            /\ \A m \in Nodes \ {d} : HandedOver(n, sess[n], cur, d)[m] # NoSession =>
                 /\ sess[n][m] # NoSession
                 /\ HandedOver(n, sess[n], cur, d)[m].running = sess[n][m].running
            /\ \A m \in Nodes \ {d, cur} : HandedOver(n, sess[n], cur, d)[m] = sess[n][m]
            /\ cur \in Nodes => \/ HandedOver(n, sess[n], cur, d)[cur] = NoSession
                               \/ ~HandedOver(n, sess[n], cur, d)[cur].we_are_initiator
        BY <4>1, <4>2, HandedOverRole, Zenon
      <4> QED BY <3>0, <4>3
    <3>2. /\ sess'[n][d] # NoSession
          /\ sess'[n][d].we_are_initiator /\ sess'[n][d].running
      BY <2>1, <2>4, <3>1, NoSessionAssumption
    <3>3. ASSUME NEW m \in Nodes, m = d PROVE RoleFits(n, m)'
      <4>1. maint'[n].cur = m
        BY <2>2, <3>3
      <4>2. sess'[n][m] # NoSession /\ sess'[n][m].we_are_initiator /\ sess'[n][m].running
        BY <3>2, <3>3
      <4> QED BY <4>1, <4>2 DEF RoleFits, HasRole
    <3>4. ASSUME NEW m \in Nodes, m # d PROVE RoleFits(n, m)'
      <4>1. RoleFits(n, m) /\ sess'[n][m] = ss[m] /\ m # maint'[n].cur
        BY <2>2, <2>4, <3>4 DEF RoleIsElected
      <4>2. <<n, m>> \in ended => <<n, m>> \in ended'
        BY <2>2, <3>4 DEF EndedAfter
      <4>3. ~HasRole(n, m)'
        BY <3>0, <3>1, <3>4, <4>1 DEF RoleFits, HasRole
      <4>4. sess'[n][m] # NoSession => sess'[n][m].running \/ <<n, m>> \in ended
        BY <3>1, <3>4, <4>1 DEF RoleFits
      <4> QED BY <4>1, <4>2, <4>3, <4>4 DEF RoleFits
    <3> QED BY <2>3, <3>3, <3>4 DEF RoleIsElected
  <2> QED BY <2>5, <2>6
<1>3. CASE Sweep(n)
  <2> DEFINE idle == IdleIn(sess[n], maint[n].peers)
  <2>1. \A m \in Nodes : sess'[n][m] = IF m \in idle THEN NoSession ELSE sess[n][m]
    BY <1>3 DEF Sweep, TypeOK
  <2>2. \A k \in Nodes \ {n}, m \in Nodes : sess'[k][m] = sess[k][m]
    BY <1>3 DEF Sweep, TypeOK
  <2>3. ended' = ended /\ \A k \in Nodes : maint'[k].cur = maint[k].cur
    BY <1>3 DEF Sweep, TypeOK, Maint, StartMaint
  <2>4. ASSUME NEW k \in Nodes, NEW m \in Nodes, sess'[k][m] = sess[k][m]
        PROVE  RoleFits(k, m)'
    BY <2>3, <2>4, RoleUntouched, ZenonT(30) DEF RoleIsElected
  <2>5. ASSUME NEW m \in Nodes, m \in idle PROVE RoleFits(n, m)'
    <3>1. RoleFits(n, m) /\ sess'[n][m] = NoSession /\ maint'[n].cur = maint[n].cur
      BY <2>1, <2>3, <2>5 DEF RoleIsElected
    <3>2. HasRole(n, m) => <<n, m>> \in ended
      BY <2>5, <3>1 DEF IdleIn, Idle, HasRole, RoleFits
    <3> QED BY <2>3, <3>1, <3>2 DEF RoleFits, HasRole
  <2> HIDE DEF idle
  <2> QED BY <2>1, <2>2, <2>4, <2>5 DEF RoleIsElected
<1> QED BY <1>1, <1>2, <1>3 DEF Maintain

\* No task, handler or network step changes the role: RPC answers, requests of the
\* peer, late requests and timeouts leave we_are_initiator alone, and a session
\* opened by the handler starts without it.
LEMMA RpcKeepsRole ==
  ASSUME TypeOK, RoleIsElected, NEW n \in Nodes, NEW m \in Nodes,
         \/ SendSync(n, m) \/ Receive(n, m) \/ Admit(n, m)
         \/ Commit(n, m) \/ Timeout(n, m) \/ FallSilent(n, m)
  PROVE  RoleIsElected'
<1>1. /\ call[n][m] \in Call
      /\ sess[n][m] \in Session \cup {NoSession}
      /\ sess[m][n] \in Session \cup {NoSession}
  BY DEF TypeOK
<1>2. CASE SendSync(n, m)
  <2> DEFINE s == [sess[n][m] EXCEPT !.need_sync_initiator_info = FALSE, !.revised = FALSE]
  <2>1. sess[n][m] \in Session /\ sess[n][m] # NoSession
    BY <1>1, <1>2 DEF SendSync
  <2>2. /\ s \in Session /\ s.we_are_initiator = sess[n][m].we_are_initiator
        /\ s.running = sess[n][m].running
    BY <2>1, Zenon DEF Session
  <2>3. sess' = [sess EXCEPT ![n][m] = s] /\ UNCHANGED <<maint, ended>>
    BY <1>2, Zenon DEF SendSync, TypeOK
  <2> HIDE DEF s
  <2>4. /\ s.we_are_initiator <=> HasRole(n, m)
        /\ s.running \/ (sess[n][m] # NoSession /\ ~sess[n][m].running)
    BY <2>1, <2>2 DEF HasRole
  <2> QED BY <2>2, <2>3, <2>4, RoleKept, Zenon
<1>3. CASE Receive(n, m)
  <2>1. CASE sess' = sess
    BY <1>3, <2>1 DEF Receive, RoleIsElected, RoleFits, HasRole
  <2>2. CASE sess' # sess
    <3> DEFINE s == GetOrCreate(m, n)
    <3>1. CanOpen(m, n) /\ sess' = [sess EXCEPT ![m][n] = s] /\ UNCHANGED <<maint, ended>>
      BY <1>3, <2>2 DEF Receive
    <3>2. s \in Session
      BY <1>1, <3>1, OpenedType DEF CanOpen, GetOrCreate
    <3>3. /\ s.we_are_initiator <=> HasRole(m, n)
          /\ s.running \/ (sess[m][n] # NoSession /\ ~sess[m][n].running)
      BY <1>1, <3>1, OpenedType DEF CanOpen, GetOrCreate, HasRole
    <3> HIDE DEF s
    <3> QED BY <3>1, <3>2, <3>3, RoleKept, Zenon
  <2> QED BY <2>1, <2>2
<1>4. CASE Admit(n, m)
  <2>1. CASE sess' = sess
    BY <1>4, <2>1 DEF Admit, RoleIsElected, RoleFits, HasRole
  <2>2. CASE sess' # sess
    <3> DEFINE s == UpdateRemoteState(Touch(sess[m][n]), call[n][m].id, call[n][m].init)
    <3>1. sess[m][n] # NoSession /\ sess' = [sess EXCEPT ![m][n] = s] /\ UNCHANGED <<maint, ended>>
      BY <1>4, <2>2 DEF Admit
    <3>2. /\ s \in Session /\ s.we_are_initiator = sess[m][n].we_are_initiator
          /\ s.running = sess[m][n].running
      BY <1>1, <3>1, SyncFromPeer, Zenon DEF Call
    <3> HIDE DEF s
    <3>3. /\ s.we_are_initiator <=> HasRole(m, n)
          /\ s.running \/ (sess[m][n] # NoSession /\ ~sess[m][n].running)
      BY <3>1, <3>2 DEF HasRole
    <3> QED BY <3>1, <3>2, <3>3, RoleKept, Zenon
  <2> QED BY <2>1, <2>2
<1>5. CASE Commit(n, m)
  <2>1. CASE sess' = sess
    BY <1>5, <2>1 DEF Commit, RoleIsElected, RoleFits, HasRole
  <2>2. CASE sess' # sess
    <3>1. sess[n][m] # NoSession /\ UNCHANGED <<maint, ended>>
      BY <1>5, <2>2 DEF Commit, RequestIsCurrent
    <3>2. PICK s \in {CommitOk(sess[n][m], call[n][m]), CommitStopped(sess[n][m], call[n][m])} :
            sess' = [sess EXCEPT ![n][m] = s]
      BY <1>5, <2>2 DEF Commit, TypeOK
    <3>3. /\ s \in Session /\ s.we_are_initiator = sess[n][m].we_are_initiator
          /\ s.running = sess[n][m].running
      BY <1>1, <3>1, CommitType
    <3>4. /\ s.we_are_initiator <=> HasRole(n, m)
          /\ s.running \/ (sess[n][m] # NoSession /\ ~sess[n][m].running)
      BY <3>1, <3>3 DEF HasRole
    <3> QED BY <3>1, <3>2, <3>3, <3>4, RoleKept, Zenon
  <2> QED BY <2>1, <2>2
<1>6. CASE Timeout(n, m)
  <2>1. CASE sess' = sess
    BY <1>6, <2>1 DEF Timeout, RoleIsElected, RoleFits, HasRole
  <2>2. CASE sess' # sess
    <3> DEFINE s == [sess[n][m] EXCEPT !.need_sync_initiator_info = TRUE]
    <3>1. sess[n][m] # NoSession /\ UNCHANGED <<maint, ended>>
      BY <1>6, <2>2 DEF Timeout, RequestIsCurrent
    <3>2. sess' = [sess EXCEPT ![n][m] = s]
      BY <1>6, <2>2 DEF Timeout, TypeOK
    <3>3. /\ s \in Session /\ s.we_are_initiator = sess[n][m].we_are_initiator
          /\ s.running = sess[n][m].running
      BY <1>1, <3>1, Zenon DEF Session
    <3> HIDE DEF s
    <3>4. /\ s.we_are_initiator <=> HasRole(n, m)
          /\ s.running \/ (sess[n][m] # NoSession /\ ~sess[n][m].running)
      BY <3>1, <3>3 DEF HasRole
    <3> QED BY <3>1, <3>2, <3>3, <3>4, RoleKept, Zenon
  <2> QED BY <2>1, <2>2
<1>7. CASE FallSilent(n, m)
  <2> DEFINE s == [sess[n][m] EXCEPT !.silent = TRUE]
  <2>1. sess[n][m] \in Session /\ sess[n][m] # NoSession
    BY <1>1, <1>7 DEF FallSilent
  <2>2. /\ s \in Session /\ s.we_are_initiator = sess[n][m].we_are_initiator
        /\ s.running = sess[n][m].running
    BY <2>1, Zenon DEF Session
  <2>3. sess' = [sess EXCEPT ![n][m] = s] /\ UNCHANGED <<maint, ended>>
    BY <1>7 DEF FallSilent, TypeOK
  <2> HIDE DEF s
  <2>4. /\ s.we_are_initiator <=> HasRole(n, m)
        /\ s.running \/ (sess[n][m] # NoSession /\ ~sess[n][m].running)
    BY <2>1, <2>2 DEF HasRole
  <2> QED BY <2>2, <2>3, <2>4, RoleKept, Zenon
<1> QED BY <1>2, <1>3, <1>4, <1>5, <1>6, <1>7

\* Nor does a request whose caller is gone.
LEMMA LateKeepsRole ==
  ASSUME TypeOK, RoleIsElected, NEW r \in late, HandleLate(r)
  PROVE  RoleIsElected'
<1>1. r.src \in Nodes /\ r.dst \in Nodes /\ r.id \in Nat /\ r.init \in BOOLEAN
  BY DEF TypeOK, Late
<1>2. sess[r.dst][r.src] \in Session \cup {NoSession}
  BY <1>1 DEF TypeOK
<1>3. CASE sess' = sess
  BY <1>3 DEF HandleLate, RoleIsElected, RoleFits, HasRole
<1>4. CASE sess' # sess
  <2> DEFINE t == GetOrCreate(r.dst, r.src)
  <2>1. CanOpen(r.dst, r.src) /\ UNCHANGED <<maint, ended>>
    BY <1>4 DEF HandleLate
  <2>2. t \in Session
    BY <1>2, <2>1, OpenedType DEF CanOpen, GetOrCreate
  <2>3. /\ t.we_are_initiator <=> HasRole(r.dst, r.src)
        /\ t.running \/ (sess[r.dst][r.src] # NoSession /\ ~sess[r.dst][r.src].running)
    BY <1>2, <2>1, OpenedType DEF CanOpen, GetOrCreate, HasRole
  <2>4. PICK s \in {t, UpdateRemoteState(Touch(t), r.id, r.init)} :
          sess' = [sess EXCEPT ![r.dst][r.src] = s]
    BY <1>4 DEF HandleLate
  <2> HIDE DEF t
  <2>5. /\ s \in Session /\ s.we_are_initiator = t.we_are_initiator
        /\ s.running = t.running
    BY <1>1, <2>2, SyncFromPeer
  <2>6. /\ s.we_are_initiator <=> HasRole(r.dst, r.src)
        /\ s.running \/ (sess[r.dst][r.src] # NoSession /\ ~sess[r.dst][r.src].running)
    BY <2>3, <2>5
  <2> QED BY <1>1, <2>1, <2>4, <2>5, <2>6, RoleKept, Zenon
<1> QED BY <1>3, <1>4

\* The initiator role follows the election loop: in every reachable state the
\* sessions of a node that carry we_are_initiator are exactly the one towards
\* cur_dst_peer_id_to_initiate, for any mesh and any interleaving of
\* maintain_sessions, session tasks and sync_route_info handlers.
THEOREM InitiatorFollowsElection == Spec => []InitiatorIsElected
<1>1. Init => RoleIsElected
  BY NodesAssumption DEF Init, RoleIsElected, RoleFits, HasRole, StartMaint, None
<1>2. TypeOK /\ RoleIsElected /\ [Next]_vars => RoleIsElected'
  <2> SUFFICES ASSUME TypeOK, RoleIsElected, [Next]_vars PROVE RoleIsElected'
    OBVIOUS
  <2>1. ASSUME NEW l \in Links, LinkDown(l) \/ LinkUp(l) PROVE RoleIsElected'
    BY <2>1 DEF LinkDown, LinkUp, RoleIsElected, RoleFits, HasRole
  <2>2. CASE UNCHANGED vars
    BY <2>2 DEF vars, RoleIsElected, RoleFits, HasRole
  <2>3. ASSUME NEW n \in Nodes, NEW m \in Nodes, TaskEnds(n, m) PROVE RoleIsElected'
    <3>1. sess[n][m] \in Session
      BY <2>3 DEF TaskEnds, TypeOK
    <3>2. /\ [sess[n][m] EXCEPT !.running = FALSE].we_are_initiator = sess[n][m].we_are_initiator
          /\ [sess[n][m] EXCEPT !.running = FALSE] # NoSession
      BY <3>1, Zenon, NoSessionAssumption DEF Session
    <3>3. \A i, j \in Nodes :
            sess'[i][j] = IF i = n /\ j = m THEN [sess[n][m] EXCEPT !.running = FALSE]
                                           ELSE sess[i][j]
      BY <2>3 DEF TaskEnds, TypeOK
    <3>4. ended' = ended \cup {<<n, m>>} /\ UNCHANGED maint /\ sess[n][m] # NoSession
      BY <2>3 DEF TaskEnds
    <3>5. ASSUME NEW i \in Nodes, NEW j \in Nodes PROVE RoleFits(i, j)'
      <4>1. RoleFits(i, j) /\ maint'[i].cur = maint[i].cur
        BY <3>4 DEF RoleIsElected
      <4>2. CASE i = n /\ j = m
        BY <3>2, <3>3, <3>4, <4>1, <4>2, ZenonT(30) DEF RoleFits, HasRole
      <4>3. CASE ~(i = n /\ j = m)
        BY <3>3, <3>4, <4>1, <4>3, RoleUntouched, ZenonT(30)
      <4> QED BY <4>2, <4>3
    <3> QED BY <3>5 DEF RoleIsElected
  <2> QED BY <2>1, <2>2, <2>3, MaintainKeepsRole, RpcKeepsRole, LateKeepsRole DEF Next
<1>3. TypeOK /\ RoleIsElected => InitiatorIsElected
  BY RoleIsElectedSuffices
<1> QED BY <1>1, <1>2, <1>3, TypeCorrect, PTL DEF Spec

-----------------------------------------------------------------------------
(* Credentials: no key twice, and restarts come up.                        *)

BaseTables == [CredIds -> [key : CredKeys \union {NoKey}, expired : BOOLEAN]]

\* An entry without a key is none, and no key is twice among the base credentials.
BaseSound(b) ==
  /\ \A i \in CredIds : b[i].key = NoKey => b[i] = NoEntry
  /\ \A i, j \in CredIds : i # j /\ b[i] # NoEntry => b[i].key # b[j].key

\* The file always holds the base table, and the patch's set is the one reserved or, when
\* it changes nothing, the one installed.
CrIInv ==
  /\ CrTypeOK
  /\ ephemeral \in [Attached -> CredKeys \union {NoKey}]
  /\ crEvents \in 0 .. MaxCrEvents /\ up \in BOOLEAN
  /\ patch \in [at : {"none", "persist", "install"}, set : ManagedSets \union {NoSet}]
  /\ patch.at # "none" => patch.set \in {managed, pendingSet} /\ patch.set \in ManagedSets
  /\ stored = base
  /\ BaseSound(base)
  /\ KeysUnique

\* What a base table must satisfy beside the managed and the ephemeral credentials.
BaseFits(b) ==
  /\ b \in BaseTables /\ BaseSound(b)
  /\ BaseIds(b) \cap ManagedIds = {}
  /\ BaseKeys(b) \cap (ManagedKeys \union KeysOf(ephemeral)) = {}

\* The entry of a credential that is not there.
LEMMA NoEntryType ==
  /\ NoEntry \in [key : CredKeys \union {NoKey}, expired : BOOLEAN] /\ NoEntry.key = NoKey
  /\ \A k \in CredKeys : /\ Fresh(k) \in [key : CredKeys \union {NoKey}, expired : BOOLEAN]
                         /\ Fresh(k).key = k /\ Fresh(k) # NoEntry
<1>1. /\ NoEntry \in [key : CredKeys \union {NoKey}, expired : BOOLEAN] /\ NoEntry.key = NoKey
  BY DEF NoEntry
<1>2. ASSUME NEW k \in CredKeys
      PROVE  Fresh(k) \in [key : CredKeys \union {NoKey}, expired : BOOLEAN] /\ Fresh(k).key = k
  BY DEF Fresh
<1> QED BY <1>1, <1>2, CrAssumption

\* A change of the base table that fits, written or not.
LEMMA CommitKeeps ==
  ASSUME CrIInv, NEW b, BaseFits(b), CommitBase(b),
         UNCHANGED <<managed, pendingSet, ephemeral, confFile, patch, lateWrite, up>>
  PROVE  CrIInv'
<1>1. \/ stored' = b /\ base' = b /\ crEvents' = crEvents
      \/ stored' = stored /\ base' = base /\ crEvents' = crEvents + 1 /\ crEvents < MaxCrEvents
  BY DEF CommitBase
<1>2. CASE stored' = b /\ base' = b /\ crEvents' = crEvents
  <2>1. CrTypeOK'
    BY <1>2 DEF CrIInv, CrTypeOK, BaseFits, BaseTables
  <2>2. KeysUnique'
    BY <1>2 DEF CrIInv, KeysUnique, BaseFits, BaseSound, ManagedIds, ManagedKeys
  <2> QED BY <1>2, <2>1, <2>2 DEF CrIInv, BaseFits
<1>3. CASE stored' = stored /\ base' = base /\ crEvents' = crEvents + 1 /\ crEvents < MaxCrEvents
  <2>1. CrTypeOK' /\ KeysUnique'
    BY <1>3 DEF CrIInv, CrTypeOK, KeysUnique, ManagedIds, ManagedKeys
  <2>2. crEvents' \in 0 .. MaxCrEvents
    BY <1>3, CrAssumption DEF CrIInv
  <2> QED BY <1>3, <2>1, <2>2 DEF CrIInv
<1> QED BY <1>1, <1>2, <1>3

\* The base table fits what the invariant says of the others.
LEMMA BaseFitsNow == CrIInv => BaseFits(base)
BY DEF CrIInv, CrTypeOK, BaseFits, BaseTables, KeysUnique

\* A table that keeps some entries of one that fits, fits.
LEMMA FewerFit ==
  ASSUME NEW b, NEW d \in BaseTables, BaseFits(b), \A i \in CredIds : d[i] \in {b[i], NoEntry}
  PROVE  BaseFits(d)
<1>1. \A i \in CredIds : d[i].key \in {b[i].key, NoKey}
  BY NoEntryType
<1>2. BaseIds(d) \subseteq BaseIds(b) /\ BaseKeys(d) \subseteq BaseKeys(b)
  BY <1>1 DEF BaseIds, BaseKeys
<1>3. BaseSound(d)
  BY <1>1, NoEntryType DEF BaseFits, BaseSound
<1> QED BY <1>2, <1>3 DEF BaseFits

\* A table with one more entry fits when neither its id nor its key is in use.
LEMMA OneMoreFits ==
  ASSUME NEW b, NEW i \in CredIds, NEW k \in CredKeys, BaseFits(b), i \notin ManagedIds,
         k \notin {b[j].key : j \in CredIds \ {i}} \union ManagedKeys \union KeysOf(ephemeral)
  PROVE  BaseFits([b EXCEPT ![i] = Fresh(k)])
<1> DEFINE d == [b EXCEPT ![i] = Fresh(k)]
<1>1. d \in BaseTables /\ d[i] = Fresh(k) /\ \A j \in CredIds \ {i} : d[j] = b[j]
  BY NoEntryType DEF BaseFits, BaseTables
<1>2. BaseSound(d)
  BY <1>1, NoEntryType, CrAssumption DEF BaseFits, BaseSound
<1>3. BaseIds(d) \subseteq BaseIds(b) \union {i} /\ BaseKeys(d) \subseteq BaseKeys(b) \union {k}
  BY <1>1, NoEntryType DEF BaseIds, BaseKeys
<1> HIDE DEF d
<1>4. BaseFits(d)
  BY <1>1, <1>2, <1>3 DEF BaseFits
<1> QED BY <1>4 DEF d

\* Every step of the credential manager keeps its invariant.
LEMMA CrStep == CrIInv /\ [CrNext]_crVars => CrIInv'
<1> SUFFICES ASSUME CrIInv, [CrNext]_crVars PROVE CrIInv'
  OBVIOUS
<1> USE CrAssumption
<1>0. BaseFits(base) /\ base \in BaseTables
  BY BaseFitsNow DEF BaseFits
<1>a. Active(base) \in BaseTables /\ \A i \in CredIds : Active(base)[i] \in {base[i], NoEntry}
  BY <1>0, NoEntryType DEF Active, BaseTables
<1>b. BaseFits(Active(base))
  BY <1>0, <1>a, FewerFit
<1>1. ASSUME NEW i \in CredIds, NEW k \in CredKeys, Generate(i, k) PROVE CrIInv'
  <2>1. k \notin {Active(base)[j].key : j \in CredIds \ {i}} \union ManagedKeys \union KeysOf(ephemeral)
    BY <1>1 DEF Generate, BaseKeys
  <2>2. BaseFits([Active(base) EXCEPT ![i] = Fresh(k)])
    BY <1>1, <1>b, <2>1, OneMoreFits DEF Generate
  <2> QED BY <1>1, <2>2, CommitKeeps DEF Generate
<1>2. ASSUME NEW i \in CredIds, NEW k \in CredKeys, UpsertCredential(i, k) PROVE CrIInv'
  <2>1. BaseFits([base EXCEPT ![i] = Fresh(k)])
    BY <1>2, <1>0, OneMoreFits DEF UpsertCredential
  <2> QED BY <1>2, <2>1, CommitKeeps DEF UpsertCredential
<1>3. ASSUME NEW i \in CredIds, RevokeCredential(i) PROVE CrIInv'
  <2>1. /\ [base EXCEPT ![i] = NoEntry] \in BaseTables
        /\ \A j \in CredIds : [base EXCEPT ![i] = NoEntry][j] \in {base[j], NoEntry}
    BY <1>0, NoEntryType DEF BaseTables
  <2>2. BaseFits([base EXCEPT ![i] = NoEntry])
    BY <1>0, <2>1, FewerFit, Zenon
  <2> QED BY <1>3, <2>2, CommitKeeps DEF RevokeCredential
<1>4. CASE RemoveExpired
  BY <1>4, <1>b, CommitKeeps DEF RemoveExpired
<1>5. ASSUME NEW i \in CredIds, Expires(i) PROVE CrIInv'
  <2>1. /\ base' = [base EXCEPT ![i].expired = TRUE] /\ stored' = base' /\ base[i] # NoEntry
        /\ UNCHANGED <<managed, pendingSet, ephemeral, confFile, patch, lateWrite, up, crEvents>>
    BY <1>5 DEF Expires, CrIInv
  <2>2. base[i] \in [key : CredKeys \union {NoKey}, expired : BOOLEAN]
    BY <1>0 DEF BaseTables
  <2>3. /\ base'[i] \in [key : CredKeys \union {NoKey}, expired : BOOLEAN]
        /\ base'[i].key = base[i].key
    BY <1>0, <2>1, <2>2, Zenon DEF BaseTables
  <2>4. base' \in BaseTables /\ \A j \in CredIds \ {i} : base'[j] = base[j]
    BY <1>0, <2>1, <2>3 DEF BaseTables
  <2>5. base[i].key # NoKey
    BY <2>1 DEF CrIInv, BaseSound
  <2>6. BaseSound(base')
    BY <2>1, <2>3, <2>4, <2>5, NoEntryType DEF CrIInv, BaseSound
  <2>7. BaseIds(base') = BaseIds(base) /\ BaseKeys(base') = BaseKeys(base)
    BY <2>1, <2>3, <2>4, <2>5, NoEntryType DEF BaseIds, BaseKeys
  <2>8. KeysUnique'
    BY <2>1, <2>6, <2>7, Zenon DEF CrIInv, KeysUnique, BaseSound, ManagedIds, ManagedKeys
  <2>9. CrTypeOK'
    BY <2>1, <2>4 DEF CrIInv, CrTypeOK, BaseTables
  <2> QED BY <2>1, <2>6, <2>8, <2>9 DEF CrIInv
<1>6. ASSUME NEW e \in Attached, RevokeEphemeral(e) \/ \E k \in CredKeys : RegisterEphemeral(e, k)
      PROVE  CrIInv'
  <2>1. /\ UNCHANGED <<base, managed, pendingSet, stored, confFile, patch, lateWrite, up, crEvents>>
        /\ ephemeral' \in [Attached -> CredKeys \union {NoKey}]
    BY <1>6 DEF RevokeEphemeral, RegisterEphemeral, CrIInv
  <2>2. KeysOf(ephemeral') \cap (BaseKeys(base) \union ManagedKeys) = {}
    <3>1. CASE RevokeEphemeral(e)
      <4>1. KeysOf(ephemeral') \subseteq KeysOf(ephemeral)
        BY <3>1 DEF RevokeEphemeral, KeysOf, CrIInv
      <4> QED BY <4>1 DEF CrIInv, KeysUnique
    <3>2. ASSUME NEW k \in CredKeys, RegisterEphemeral(e, k)
          PROVE  KeysOf(ephemeral') \cap (BaseKeys(base) \union ManagedKeys) = {}
      <4>1. KeysOf(ephemeral') \subseteq KeysOf(ephemeral) \union {k}
        BY <3>2 DEF RegisterEphemeral, KeysOf, CrIInv
      <4> QED BY <3>2, <4>1, Zenon DEF CrIInv, KeysUnique, RegisterEphemeral
    <3> QED BY <1>6, <3>1, <3>2
  <2>3. KeysUnique'
    BY <2>1, <2>2 DEF CrIInv, KeysUnique, ManagedIds, ManagedKeys
  <2> QED BY <2>1, <2>3 DEF CrIInv, CrTypeOK
<1>7. ASSUME NEW m \in ManagedSets, ValidatePatch(m) PROVE CrIInv'
  <2>1. /\ patch.at = "none" /\ ~ConflictsWith(m, base, ephemeral)
        /\ patch' = [at |-> "persist", set |-> m]
        /\ pendingSet' = IF m # managed THEN m ELSE pendingSet
        /\ UNCHANGED <<base, managed, ephemeral, stored, confFile, lateWrite, up, crEvents>>
    BY <1>7 DEF ValidatePatch
  <2>2. pendingSet = NoSet
    BY <2>1 DEF CrIInv, CrTypeOK
  <2>3. CrTypeOK'
    BY <2>1, <2>2 DEF CrIInv, CrTypeOK
  <2>4. IdsOf(pendingSet') \subseteq IdsOf(pendingSet) \union IdsOf(m)
        /\ KeysOf(pendingSet') \subseteq KeysOf(pendingSet) \union KeysOf(m)
    BY <2>1
  <2>5. KeysUnique'
    BY <2>1, <2>4 DEF CrIInv, KeysUnique, ManagedIds, ManagedKeys, ConflictsWith
  <2> QED BY <2>1, <2>3, <2>5 DEF CrIInv
<1>8. CASE PersistOk
  <2>1. /\ patch.at = "persist" /\ patch'.at = "install" /\ patch'.set = patch.set
        /\ patch' \in [at : {"none", "persist", "install"}, set : ManagedSets \union {NoSet}]
        /\ confFile' = patch.set
        /\ UNCHANGED <<base, managed, pendingSet, ephemeral, stored, lateWrite, up, crEvents>>
    BY <1>8 DEF PersistOk, CrIInv
  <2>2. CrTypeOK'
    BY <2>1 DEF CrIInv, CrTypeOK
  <2>3. KeysUnique'
    BY <2>1 DEF CrIInv, KeysUnique, ManagedIds, ManagedKeys
  <2> QED BY <2>1, <2>2, <2>3 DEF CrIInv
<1>c. IdsOf(NoSet) = {} /\ KeysOf(NoSet) = {}
  BY DEF IdsOf, KeysOf, NoSet
<1>d. NoPatch.at = "none" /\ NoPatch \in [at : {"none", "persist", "install"}, set : ManagedSets \union {NoSet}]
  BY DEF NoPatch
<1>9. CASE PatchEnds
  <2>1. /\ patch' = NoPatch /\ pendingSet' = NoSet /\ crEvents < MaxCrEvents /\ crEvents' = crEvents + 1
        /\ lateWrite' \in ManagedSets \union {NoSet}
        /\ UNCHANGED <<base, managed, ephemeral, stored, confFile, up>>
    BY <1>9 DEF PatchEnds, CrIInv, CrTypeOK
  <2>2. CrTypeOK' /\ crEvents' \in 0 .. MaxCrEvents
    BY <2>1 DEF CrIInv, CrTypeOK
  <2>3. KeysUnique'
    BY <1>c, <2>1 DEF CrIInv, KeysUnique, ManagedIds, ManagedKeys
  <2> QED BY <1>d, <2>1, <2>2, <2>3 DEF CrIInv
<1>e. CASE LateWriteLands
  <2>1. /\ confFile' \in ManagedSets /\ lateWrite' = NoSet
        /\ UNCHANGED <<base, managed, pendingSet, ephemeral, stored, patch, up, crEvents>>
    BY <1>e DEF LateWriteLands, CrIInv, CrTypeOK
  <2>2. CrTypeOK'
    BY <2>1 DEF CrIInv, CrTypeOK
  <2>3. KeysUnique'
    BY <2>1 DEF CrIInv, KeysUnique, ManagedIds, ManagedKeys
  <2> QED BY <2>1, <2>2, <2>3 DEF CrIInv
<1>10. CASE InstallPatch
  <2>1. /\ patch.at = "install" /\ patch' = NoPatch /\ managed' = patch.set /\ pendingSet' = NoSet
        /\ UNCHANGED <<base, ephemeral, stored, confFile, lateWrite, up, crEvents>>
    BY <1>10 DEF InstallPatch
  <2>2. patch.set \in {managed, pendingSet} /\ patch.set \in ManagedSets
    BY <2>1 DEF CrIInv
  <2>3. CrTypeOK'
    BY <2>1, <2>2 DEF CrIInv, CrTypeOK
  <2>4. KeysUnique'
    BY <1>c, <2>1, <2>2 DEF CrIInv, KeysUnique, ManagedIds, ManagedKeys
  <2> QED BY <1>d, <2>1, <2>3, <2>4 DEF CrIInv
<1>11. CASE RestartInstance
  <2>1. /\ crEvents < MaxCrEvents /\ crEvents' = crEvents + 1 /\ base' = base
        /\ ephemeral' = [e \in Attached |-> NoKey] /\ pendingSet' = NoSet /\ patch' = NoPatch
        /\ lateWrite' = NoSet /\ up' = ~ConflictsWith(confFile, base, ephemeral')
        /\ managed' = (IF up' THEN confFile ELSE EmptySet)
        /\ UNCHANGED <<stored, confFile>>
    BY <1>11 DEF RestartInstance, CrIInv
  <2>2. KeysOf(ephemeral') = {} /\ KeysOf(EmptySet) = {} /\ IdsOf(EmptySet) = {}
    BY <2>1 DEF KeysOf, IdsOf, EmptySet
  <2>3. EmptySet \in ManagedSets
    BY DEF EmptySet, ManagedSets
  <2>4. CrTypeOK' /\ crEvents' \in 0 .. MaxCrEvents /\ up' \in BOOLEAN
    <3>1. up' \in BOOLEAN
      BY <2>1 DEF ConflictsWith
    <3>2. managed' \in ManagedSets
      BY <2>1, <2>3 DEF CrIInv, CrTypeOK
    <3> QED BY <2>1, <3>1, <3>2 DEF CrIInv, CrTypeOK
  <2>5. /\ BaseIds(base) \cap IdsOf(managed') = {}
        /\ BaseKeys(base) \cap KeysOf(managed') = {}
    BY <2>1, <2>2, Zenon DEF ConflictsWith
  <2>6. KeysUnique'
    BY <1>c, <2>1, <2>2, <2>5 DEF CrIInv, KeysUnique, ManagedIds, ManagedKeys
  <2> QED BY <1>d, <2>1, <2>4, <2>6 DEF CrIInv
<1>12. CASE UNCHANGED crVars
  BY <1>12 DEF crVars, CrIInv, CrTypeOK, KeysUnique, ManagedIds, ManagedKeys
<1> QED
  BY <1>1, <1>2, <1>3, <1>4, <1>5, <1>6, <1>7, <1>8, <1>9, <1>e, <1>10, <1>11, <1>12 DEF CrNext

\* The invariant of the credential manager holds in every behaviour.
LEMMA CrInvariant == CrSpec => []CrIInv
<1>1. CrInit => CrIInv
  <2> SUFFICES ASSUME CrInit PROVE CrIInv
    OBVIOUS
  <2> USE CrAssumption DEF CrInit
  <2>1. EmptySet \in ManagedSets /\ NoPatch.at = "none"
        /\ NoPatch \in [at : {"none", "persist", "install"}, set : ManagedSets \union {NoSet}]
    BY DEF EmptySet, ManagedSets, NoPatch
  <2>2. CrTypeOK
    BY <2>1, NoEntryType DEF CrTypeOK
  <2>3. BaseIds(base) = {} /\ BaseKeys(base) = {} /\ ManagedKeys = {} /\ BaseSound(base)
    BY NoEntryType DEF BaseIds, BaseKeys, ManagedKeys, KeysOf, EmptySet, NoSet, BaseSound
  <2>4. KeysUnique
    BY <2>3 DEF KeysUnique, BaseSound
  <2>5. up \in BOOLEAN
    BY Zenon
  <2> QED BY <2>1, <2>2, <2>3, <2>4, <2>5 DEF CrIInv
<1> QED BY <1>1, CrStep, PTL DEF CrSpec

\* For any ids, keys, attached peers and number of failures: a replacement is reserved only
\* while its patch is under way.
THEOREM CredentialTypes == CrSpec => []CrTypeOK
BY CrInvariant, PTL DEF CrIInv

\* For any ids, keys, attached peers and number of failures: no id and no key is in two
\* tables, nor a key twice in one, whatever changes while a patch waits for its write.
THEOREM CredentialKeysUnique == CrSpec => []KeysUnique
BY CrInvariant, PTL DEF CrIInv

\* For any ids, keys, attached peers and number of failures: a restart gives back the base
\* credentials at any moment, and comes up with the managed ones while the configuration file
\* holds the installed ones or those a patch is about to install. Nothing is said of the file
\* that the write of a cancelled patch left: that restart may be refused (RestartConverges).
THEOREM CredentialRestart == CrSpec => []RestartComesUp
<1>1. CrIInv => RestartComesUp
  <2> SUFFICES ASSUME CrIInv, confFile \in Expected
               PROVE  ~ConflictsWith(confFile, stored, NoSet)
    BY DEF RestartComesUp, CrIInv
  <2>1. confFile \in {managed, pendingSet} /\ stored = base
    BY DEF CrIInv, Expected
  <2>2. KeysOf(NoSet) = {}
    BY DEF KeysOf, NoSet
  <2> QED BY <2>1, <2>2 DEF ConflictsWith, CrIInv, KeysUnique, ManagedIds, ManagedKeys
<1> QED BY <1>1, CrInvariant, PTL

=============================================================================
