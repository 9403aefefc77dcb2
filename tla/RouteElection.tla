---------------------------- MODULE RouteElection ----------------------------
(***************************************************************************)
(* The initiator election of module RouteSessions on larger meshes.  The   *)
(* state and the operators are those of RouteSessions; only the scheduling *)
(* is coarser: one pass of maintain_sessions is one step, and so is one    *)
(* sync_route_info RPC over a live link, from the request's snapshot to    *)
(* the commit of its response.  RouteSessions checks the interleavings     *)
(* inside them on two nodes; here the question is which sessions the       *)
(* election settles on for a given graph of links.                         *)
(***************************************************************************)
EXTENDS RouteSessions

CONSTANT Meshes   \* the graphs, sets of Links, that the links that are up may grow to

\* Any part of one of these graphs.
Graphs == UNION {SUBSET g : g \in Meshes}
InitAnyGraph ==
  /\ link \in Graphs
  /\ sess = [n \in Nodes |-> [m \in Nodes |-> NoSession]]
  /\ maint = [n \in Nodes |-> StartMaint]
  /\ call = [n \in Nodes |-> [m \in Nodes |-> NoCall]]
  /\ late = {}
  /\ faults = 0
  /\ ended = {}

\* No request is outstanding between steps, so nobody compares revisions.
Rest(s) == IF s = NoSession THEN s ELSE [s EXCEPT !.revised = FALSE]

\* One pass of the loop that elects d.
ElectingPass(n, kept, d) ==
  LET ss   == HandedOver(n, kept, PrunedCur(n), d)
      idle == IdleIn(ss, SessionPeers(n))
  IN /\ sess' = [sess EXCEPT ![n] =
                   [m \in Nodes |-> IF m \in idle THEN NoSession ELSE Rest(ss[m])]]
     /\ maint' = [maint EXCEPT ![n].cur = d]
     /\ ended' = EndedAfter(n, PrunedCur(n), d)

\* One pass, given the public peers the node's route table knows of.
PassKnowing(n, known) ==
  LET kept  == Pruned(n)
      cands == Candidates(n, kept)
  IN /\ IF cands = {}
        THEN /\ sess' = [sess EXCEPT ![n] = [m \in Nodes |-> Rest(kept[m])]]
             /\ maint' = [maint EXCEPT ![n].cur = PrunedCur(n)]
             /\ UNCHANGED ended
        ELSE \E d \in {Choice(cands, known)} : ElectingPass(n, kept, d)
     /\ UNCHANGED <<link, call, late, faults>>

Pass(n) == \E known \in SUBSET Public : PassKnowing(n, known)

\* One RPC of n's session task for m, answered at once.
Exchange(n, m) ==
  LET s == [sess[n][m] EXCEPT !.need_sync_initiator_info = FALSE, !.revised = FALSE]
      t == GetOrCreate(m, n)
      c == [NoCall EXCEPT !.init = s.we_are_initiator, !.expect = s.dst_session_id,
                          !.resp_id = t.my_session_id, !.resp_init = t.we_are_initiator]
      known == sess[m][n] # NoSession \/ c.init
      admitted == known /\ AdmitsInbound(t, s.my_session_id, c.init)
  IN /\ sess[n][m] # NoSession
     /\ sess[n][m].running
     /\ {n, m} \in link
     /\ sess' = [sess EXCEPT
          ![n][m] = Rest(IF admitted THEN CommitOk(s, c) ELSE CommitStopped(s, c)),
          ![m][n] = IF admitted
                    THEN Rest(UpdateRemoteState(Touch(t), s.my_session_id, c.init))
                    ELSE IF known THEN t ELSE @]
     /\ UNCHANGED <<link, maint, call, late, faults, ended>>

CoarseNext ==
  \/ \E n \in Nodes : Pass(n)
  \/ \E n \in Nodes : \E m \in Nodes \ {n} : Exchange(n, m) \/ TaskEnds(n, m) \/ FallSilent(n, m)
  \/ \E l \in Links : LinkDown(l) \/ (link \union {l} \in Graphs /\ LinkUp(l))

CoarseSpec == InitAnyGraph /\ [][CoarseNext]_vars

-----------------------------------------------------------------------------
(* Properties *)

\* Nothing the nodes do by themselves changes the sessions any more, while every node
\* knows the public peers in known: none of them yet, or in the end all of them.
Settled(known) ==
  /\ \A n \in Nodes : ~ENABLED <<PassKnowing(n, known)>>_vars
  /\ \A n, m \in Nodes : /\ ~ENABLED <<Exchange(n, m)>>_vars
                         /\ ~ENABLED <<SilenceDue(n, m)>>_vars

\* When the election has settled, its sessions connect whatever the links
\* connect: maintain_sessions builds a spanning structure of the mesh.
SettledSpans == SessionsSpan \/ \A known \in SUBSET Public : ~Settled(known)
=============================================================================
