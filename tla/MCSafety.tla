------------------------------ MODULE MCSafety ------------------------------
(* The data-plane session, the secure datagrams, the rate limiter, the credentials   *)
(* and the initiator election, checked in one run. They share no state: every         *)
(* behaviour picks one, its focus, runs it by its own specification and leaves the    *)
(* others in their initial state.                                                     *)
EXTENDS DataPlaneSession, DatagramWindow, TokenBucket, Credentials

CONSTANT NoSession

VARIABLES focus, link, sess, maint, call, late, faults, ended   \* the last seven of RouteElection

\* A star with the credential peer 1 and the public peer 3, and a triangle.
Stations == 1 .. 5
CredentialStations == {1}
PublicStations == {3}
Star == {{1, 2}, {2, 3}, {2, 4}}
Triangle == {{2, 4}, {2, 5}, {4, 5}}
StarAndTriangle == {Star, Triangle}
StationLinks == Star \cup Triangle
Election == INSTANCE RouteElection WITH
  Nodes <- Stations, Links <- StationLinks, Meshes <- StarAndTriangle,
  Credential <- CredentialStations, Public <- PublicStations,
  MaxFaults <- 0, MaxLate <- 0, MaxSessionId <- 3

electionVars == <<link, sess, maint, call, late, faults, ended>>
safetyVars == <<focus, vars, dgVars, tbVars, crVars, electionVars>>

SafetyInit ==
  /\ focus \in {"session", "datagram", "bucket", "credentials", "election"}
  /\ SessionInit /\ DgInit /\ TbInit /\ CrInit /\ Election!InitAnyGraph
  /\ focus # "election" => link = {}

SafetyNext ==
  /\ UNCHANGED focus
  /\ \/ focus = "session" /\ SessionNext
     \/ focus # "session" /\ UNCHANGED vars
  /\ \/ focus = "datagram" /\ DgNext
     \/ focus # "datagram" /\ UNCHANGED dgVars
  /\ \/ focus = "bucket" /\ TbNext
     \/ focus # "bucket" /\ UNCHANGED tbVars
  /\ \/ focus = "credentials" /\ CrNext
     \/ focus # "credentials" /\ UNCHANGED crVars
  /\ \/ focus = "election" /\ Election!CoarseNext
     \/ focus # "election" /\ UNCHANGED electionVars

SafetySpec == SafetyInit /\ [][SafetyNext]_safetyVars

-----------------------------------------------------------------------------
\* The type invariants of four components, with the bookkeeping each of them pins down: ids
\* stop before they overflow, a window marks its highest number, no bucket is over its
\* capacity, a reservation of credentials ends with its patch.
PlaneTypeOK == SessionTypeOK /\ DgTypeOK /\ TbTypeOK /\ CrTypeOK

\* SettledSpans of module RouteElection: a settled election spans the graph
\* (maintain_sessions).
SettledSpans == focus = "election" => Election!SettledSpans
=============================================================================
