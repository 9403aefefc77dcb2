------------------------------ MODULE MCServices ------------------------------
(* The smaller components, checked in one run. They share no state, so nothing is  *)
(* to be learnt from interleaving them: every behaviour picks one, its focus, runs  *)
(* that one by its own specification, and leaves the others in their initial state. *)
EXTENDS Rpc, PingProbe, Dhcp, MCManaged, Lifecycle, MCPublicIpv6, DataPlaneSession

VARIABLE focus

Foci == {"rpc", "probe", "dhcp", "managed", "lifecycle", "ipv6", "session"}

svcVars == <<focus, rpcVars, probeVars, dhVars, mcVars, lcVars, p6Vars, vars>>

SvcInit ==
  /\ focus \in Foci
  /\ RpcInit /\ ProbeInit /\ DhInit /\ McInit /\ LcInit /\ P6Init
  /\ SessionInit
  /\ focus # "dhcp" => default = [n \in Hosts |-> 1]

SvcNext ==
  /\ UNCHANGED focus
  /\ \/ focus = "rpc" /\ RpcNext
     \/ focus # "rpc" /\ UNCHANGED rpcVars
  /\ \/ focus = "probe" /\ ProbeNext
     \/ focus # "probe" /\ UNCHANGED probeVars
  /\ \/ focus = "dhcp" /\ DhNext
     \/ focus # "dhcp" /\ UNCHANGED dhVars
  /\ \/ focus = "managed" /\ McNext
     \/ focus # "managed" /\ UNCHANGED mcVars
  /\ \/ focus = "lifecycle" /\ LcNext
     \/ focus # "lifecycle" /\ UNCHANGED lcVars
  /\ \/ focus = "ipv6" /\ P6Next
     \/ focus # "ipv6" /\ UNCHANGED p6Vars
  /\ \/ focus = "session" /\ SessionNext
     \/ focus # "session" /\ UNCHANGED vars

\* The fairness of each component (RpcFairness, ...), for the behaviours in which it runs.
SvcFairness ==
  /\ \A c \in Calls : WF_rpcVars(focus = "rpc" /\ Timeout(c)) /\ WF_rpcVars(focus = "rpc" /\ Expire(c))
  /\ WF_probeVars(focus = "probe" /\ PingerStep) /\ WF_probeVars(focus = "probe" /\ PingLost)
  /\ WF_probeVars(focus = "probe" /\ ReceiverStep) /\ WF_probeVars(focus = "probe" /\ PacketLost)
  /\ WF_probeVars(focus = "probe" /\ PeerSends)
  /\ WF_probeVars(focus = "probe" /\ \E p \in inbound : Arrives(p))
  /\ \A n \in Hosts :
       /\ WF_dhVars(focus = "dhcp" /\ \E a \in NextAddresses(n) : Evaluate(n, a))
       /\ WF_dhVars(focus = "dhcp" /\ HostOk(n))
       /\ \A m \in Hosts \ {n} : WF_dhVars(focus = "dhcp" /\ Learn(n, m))
  /\ WF_mcVars(focus = "managed" /\ Heartbeat) /\ WF_mcVars(focus = "managed" /\ Round)
  /\ WF_mcVars(focus = "managed" /\ \E hint \in hints : RecordHint(hint))
  /\ WF_mcVars(focus = "managed" /\ DirectEnd)
  /\ \A t \in Callers : WF_lcVars(focus = "lifecycle" /\ Proceeds(t))
  /\ \A t \in RpcTasks : WF_p6Vars(focus = "ipv6" /\ EndLease(t))
  /\ WF_p6Vars(focus = "ipv6" /\ EndGc)
  /\ \A c \in Clients : /\ WF_p6Vars(focus = "ipv6" /\ BeginLease(c))
                        /\ WF_p6Vars(focus = "ipv6" /\ SyncClient(c))
                        /\ WF_p6Vars(focus = "ipv6" /\ ReplyArrives(c))
  /\ WF_vars(focus = "session" /\ Notify)
  /\ \A id \in Ids : WF_vars(focus = "session" /\ task[id] = "cancelled" /\ TaskEnds(id))
  /\ \A w \in Waiters : WF_vars(focus = "session" /\ Woken(w))
  /\ \A a \in AsyncWaiters : WF_vars(focus = "session" /\ Notified(a))
SvcSpec == SvcInit /\ [][SvcNext]_svcVars /\ SvcFairness

-----------------------------------------------------------------------------
\* The type invariants of the components, with the bookkeeping each of them pins down: the
\* inflight table is that of the living futures, the operation lock has one holder, a base
\* revision is the applied one.
SvcTypeOK ==
  RpcTypeOK /\ ProbeTypeOK /\ DhTypeOK /\ McTypeOK /\ LcTypeOK /\ P6TypeOK

\* Liveness that the initial state does not satisfy is claimed of the component that runs.

\* SettleApart of module Dhcp: the nodes end up with addresses of their own (reconcile_once).
DhcpSettles == <>[](focus = "dhcp" => Apart)

\* Converges of module ManagedConfig: the device ends up running the published rows
\* (prepare_reconcile_round to mark_applied).
ManagedConverges == <>[](focus = "managed" => Converged)

\* EveryoneLeased of module PublicIpv6: every client ends up with a lease (sync_client_state).
ClientsLeased == <>[](focus = "ipv6" => AllLeased)
=============================================================================
