----------------------------- MODULE PublicIpv6 -----------------------------
(* The leases of public IPv6 addresses (easytier-core, peers/public_ipv6/service.rs): *)
(* one provider hands out the addresses of its prefix, clients acquire and renew      *)
(* them by RPC. Every operation of the provider reads a copy of the whole table,      *)
(* works on it (for a new lease across an await), and writes the copy back. The       *)
(* provider's tasks interleave, RPCs time out, leases run out.                        *)
EXTENDS Naturals, FiniteSetsExt

CONSTANTS Clients,       \* instances that want an address
          UsableSlots,   \* host offsets of the prefix
          StartSlot,     \* the slot an instance's id points at
          LeaseTtl, RenewAt,   \* PUBLIC_IPV6_LEASE_TTL, PUBLIC_IPV6_RENEW_INTERVAL
          MaxRpcTasks,   \* bound: RPCs the provider serves at once
          MaxP6Events    \* bound: RPCs that time out, and steps of time

VARIABLES
  table,     \* provider_state: the lease of a client
  served,    \* each task of the provider: its operation, and the copy it works on
  cli,       \* each client: its lease and its RPC
  p6Events

p6Vars == <<table, served, cli, p6Events>>

RpcTasks == 1..MaxRpcTasks
Gc == MaxRpcTasks + 1   \* provider_gc_routine
ProviderTasks == 1..Gc

NoLease == [addr |-> 0, left |-> 0]
Leases == [addr : 0..UsableSlots, left : 0..LeaseTtl]
NoOp == [kind |-> "none", c |-> "none", want |-> 0, live |-> FALSE, copy |-> <<>>]
NoRpc == [at |-> "idle", stage |-> "new", reply |-> NoLease]

P6Init ==
  /\ table = [c \in Clients |-> NoLease] /\ served = [t \in ProviderTasks |-> NoOp]
  /\ cli = [c \in Clients |-> [lease |-> NoLease, rpc |-> NoRpc]] /\ p6Events = 0

\* prune_expired_leases
Pruned(tab) == [c \in Clients |-> IF tab[c].left = 0 THEN NoLease ELSE tab[c]]

Aging(l) == [l EXCEPT !.left = IF @ > 0 THEN @ - 1 ELSE 0]

\* Time passes, for every copy of a valid_until.
TimePasses ==
  /\ p6Events < MaxP6Events /\ p6Events' = p6Events + 1
  /\ table' = [c \in Clients |-> Aging(table[c])]
  /\ served' = [t \in ProviderTasks |->
                  [served[t] EXCEPT !.copy = [c \in DOMAIN @ |-> Aging(@[c])]]]
  /\ cli' = [c \in Clients |-> [cli[c] EXCEPT !.lease = Aging(@), !.rpc.reply = Aging(@)]]

-----------------------------------------------------------------------------
\* The provider.

FreeTasks == {t \in RpcTasks : served[t] = NoOp}

\* acquire_lease reads the table; before it writes, another thread, or at the await of
\* collect_reserved_addrs another task, may change it.
BeginLease(c) ==
  /\ FreeTasks # {} /\ cli[c].rpc.at # "idle" /\ cli[c].rpc.stage = "new"
  /\ served' = [served EXCEPT ![Min(FreeTasks)] =
       [kind |-> cli[c].rpc.at, c |-> c, live |-> TRUE, copy |-> Pruned(table),
        want |-> IF cli[c].rpc.at = "renew" THEN cli[c].lease.addr ELSE 0]]
  /\ cli' = [cli EXCEPT ![c].rpc.stage = "served"]
  /\ UNCHANGED <<table, p6Events>>

BeginGc ==
  /\ served[Gc] = NoOp
  /\ served' = [served EXCEPT ![Gc] = [NoOp EXCEPT !.kind = "gc", !.copy = Pruned(table)]]
  /\ UNCHANGED <<table, cli, p6Events>>

SlotsFromStart(c, copy) == (StartSlot[c]..UsableSlots) \ {copy[d].addr : d \in Clients}

\* allocate_public_ipv6_leases: the slots not used, and of them the first from StartSlot on.
FreeSlots(c, copy) == (1..UsableSlots) \ {copy[d].addr : d \in Clients}
Distance(c, s) == (s + UsableSlots - StartSlot[c]) % UsableSlots
FirstFree(c, copy) ==
  CHOOSE s \in FreeSlots(c, copy) : \A r \in FreeSlots(c, copy) : Distance(c, s) <= Distance(c, r)

\* The lease given for the copy, or NoLease for an error: an active one is extended, and a
\* renewal needs it to be the client's own.
Granted(op) ==
  IF op.copy[op.c] # NoLease
  THEN IF op.want \notin {0, op.copy[op.c].addr} THEN NoLease
       ELSE [op.copy[op.c] EXCEPT !.left = LeaseTtl]
  ELSE IF op.kind = "renew" \/ FreeSlots(op.c, op.copy) = {} THEN NoLease
       ELSE [addr |-> FirstFree(op.c, op.copy), left |-> LeaseTtl]

\* The rest of acquire_lease: the copy with the lease replaces the table, and the reply goes
\* to the client if its RPC still waits for it.
EndLease(t) ==
  /\ served[t].kind \in {"renew", "acquire"}
  /\ LET op == served[t]
         l  == Granted(op)
     IN /\ table' = IF l = NoLease THEN table ELSE [op.copy EXCEPT ![op.c] = l]
        /\ cli' = IF op.live THEN [cli EXCEPT ![op.c].rpc = [at |-> op.kind, stage |-> "answered", reply |-> l]]
                  ELSE cli
  /\ served' = [served EXCEPT ![t] = NoOp]
  /\ UNCHANGED p6Events

\* The end of gc_provider_leases.
EndGc ==
  /\ served[Gc].kind = "gc" /\ table' = served[Gc].copy
  /\ served' = [served EXCEPT ![Gc] = NoOp]
  /\ UNCHANGED <<cli, p6Events>>

-----------------------------------------------------------------------------
\* The client: sync_client_state.

AskNow(c, at) == [cli EXCEPT ![c].rpc = [at |-> at, stage |-> "new", reply |-> NoLease]]

SyncClient(c) ==
  /\ cli[c].rpc = NoRpc /\ cli[c].lease.left <= RenewAt
  /\ cli' = AskNow(c, IF cli[c].lease # NoLease THEN "renew" ELSE "acquire")
  /\ UNCHANGED <<table, served, p6Events>>

\* After an error, a lease that has run out is given up.
AfterError(c) == IF cli[c].lease.left = 0 THEN NoLease ELSE cli[c].lease

\* A failed renewal is followed by an acquisition, a failed acquisition ends the round.
RpcFailed(c) ==
  IF cli[c].rpc.at = "renew" THEN cli' = AskNow(c, "acquire")
  ELSE cli' = [cli EXCEPT ![c] = [lease |-> AfterError(c), rpc |-> NoRpc]]

ReplyArrives(c) ==
  /\ cli[c].rpc.stage = "answered"
  /\ IF cli[c].rpc.reply.addr # 0
     THEN cli' = [cli EXCEPT ![c] = [lease |-> cli[c].rpc.reply, rpc |-> NoRpc]]
     ELSE RpcFailed(c)
  /\ UNCHANGED <<table, served, p6Events>>

\* Nobody waits any more for a task that still works on the RPC.
RpcTimesOut(c) ==
  /\ cli[c].rpc.at # "idle" /\ cli[c].rpc.stage # "answered"
  /\ p6Events < MaxP6Events /\ p6Events' = p6Events + 1
  /\ RpcFailed(c)
  /\ served' = [t \in ProviderTasks |-> IF served[t].c = c THEN [served[t] EXCEPT !.live = FALSE] ELSE served[t]]
  /\ UNCHANGED table

P6Next ==
  \/ \E t \in RpcTasks : EndLease(t)
  \/ BeginGc \/ EndGc \/ TimePasses
  \/ \E c \in Clients : BeginLease(c) \/ SyncClient(c) \/ ReplyArrives(c) \/ RpcTimesOut(c)

P6Spec == P6Init /\ [][P6Next]_p6Vars

\* The client's loop runs, and the provider's tasks end.
P6Fairness ==
  /\ \A t \in RpcTasks : WF_p6Vars(EndLease(t))
  /\ WF_p6Vars(EndGc)
  /\ \A c \in Clients : /\ WF_p6Vars(BeginLease(c)) /\ WF_p6Vars(SyncClient(c))
                        /\ WF_p6Vars(ReplyArrives(c))
P6FairSpec == P6Spec /\ P6Fairness

-----------------------------------------------------------------------------

\* The table and the clients have their types; what a client asks to renew is a lease it has.
P6TypeOK ==
  /\ table \in [Clients -> Leases] /\ \A c \in Clients : cli[c].lease \in Leases /\ cli[c].rpc.reply \in Leases
  /\ \A c \in Clients : cli[c].rpc.at = "renew" => cli[c].lease # NoLease

\* With a slot for everyone, everyone ends up with a lease, whatever the provider forgets
\* and whichever RPCs time out (sync_client_state, allocate_public_ipv6_leases).
AllLeased == \A c \in Clients : cli[c].lease.left > 0
EveryoneLeased == <>[]AllLeased

\* Two clients whose leases have not run out have different addresses.
LeasesDistinct ==
  \A c, d \in Clients : c # d /\ cli[c].lease.left > 0 /\ cli[d].lease.left > 0
                          => cli[c].lease.addr # cli[d].lease.addr
=============================================================================
