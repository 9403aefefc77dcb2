---------------------------- MODULE ManagedConfig ----------------------------
(* The reconciliation of managed network configurations between the console's    *)
(* database and one device (easytier-web/src/client_manager): publications        *)
(* replace the rows and the revision in one transaction and leave a hint; direct   *)
(* mutations go to the device behind the reconciler's back and invalidate what it  *)
(* knows; a reconcile round, woken by heartbeats, reads the shared runtime state,  *)
(* the revision, the running instances and the rows in turn, brings the device to  *)
(* the rows with one RPC at a time, and reports the revision as applied.           *)
(* All rows are web-owned and none is disabled, revisions are fresh, the webhook   *)
(* is off. A configuration is a small number, 0 is "no such instance".             *)
EXTENDS Integers, FiniteSets, FiniteSetsExt

CONSTANTS Insts,        \* ids of network instances: numbers, in the order rows are visited
          Contents,     \* the sets of rows a publication may install
          FirstRows,    \* the rows of revision 1
          MaxMcEvents   \* bound: publications, direct mutations, failed RPCs, stops, reconnects

\* Some instance is always the first of those left to visit.
ASSUME McAssumption ==
  /\ Insts # {} /\ \A S \in SUBSET Insts : S # {} => Min(S) \in S
  /\ MaxMcEvents \in Nat
  /\ Contents \subseteq [Insts -> Nat] /\ FirstRows \in [Insts -> Nat]

VARIABLES
  rows,      \* user_running_network_configs of the device
  rev,       \* its managed_config_revision
  hints,     \* publications committed whose hint is not yet recorded
  rt,        \* ManagedRuntimeState
  core,      \* what runs on the device
  hb,        \* running_network_instances of the latest heartbeat
  failed,    \* direct_run_failed_instance_ids of the session
  notified,  \* the session's notifier
  cache,     \* ReconcileCache of the session
  round,     \* the round under way
  direct,    \* the direct mutation under way
  mcEvents   \* events so far that the bound counts

mcVars == <<rows, rev, hints, rt, core, hb, failed, notified, cache, round, direct, mcEvents>>

Absent == 0
Running(c) == {i \in Insts : c[i] # Absent}
NoHint == [kind |-> "none", exp |-> 0, tgt |-> 0, ids |-> {}]
FullHint == [NoHint EXCEPT !.kind = "full"]
NewRuntimeState == [applied |-> 0, base |-> 0, pending |-> NoHint, epoch |-> 0, cacheEpoch |-> 0]
NewCache == [cacheEpoch |-> 0, cleaned |-> FALSE, last |-> Insts, entries |-> [i \in Insts |-> Absent]]
Idle == [at |-> "idle", snap |-> NewRuntimeState, target |-> 0, apply |-> FALSE, full |-> TRUE,
         ids |-> {}, running |-> {}, want |-> [i \in Insts |-> Absent], del |-> {}, listed |-> FALSE, metas |-> {},
         fenced |-> FALSE, bad |-> FALSE, todo |-> {}, act |-> "none"]
NoDirect == [at |-> "none", inst |-> Min(Insts), value |-> Absent]

\* A device that runs the rows of revision 1, with the console and its session freshly
\* started: nothing is known to be applied.
McInit ==
  /\ rows = FirstRows /\ rev = 1 /\ hints = {} /\ rt = NewRuntimeState
  /\ core = rows /\ hb = Running(rows) /\ failed = {} /\ notified = TRUE /\ cache = NewCache
  /\ round = Idle /\ direct = NoDirect /\ mcEvents = 0

Counted == mcEvents < MaxMcEvents /\ mcEvents' = mcEvents + 1

-----------------------------------------------------------------------------
(* Publications: the transaction, and later the hint. *)

\* apply_managed_config_update, Full or Patch on the current revision; a conflicting or
\* repeated publication changes nothing.
Publish(kind, content) ==
  /\ Counted /\ content # rows
  /\ rows' = content /\ rev' = rev + 1
  /\ hints' = hints \cup {[kind |-> kind, exp |-> rev, tgt |-> rev + 1,
                           ids |-> {i \in Insts : content[i] # rows[i]}]}
  /\ UNCHANGED <<rt, core, hb, failed, notified, cache, round, direct>>

\* Mutant: patches that do not follow each other are merged all the same.
MergedAnyway(pending, hint) ==
  IF hint.kind = "full" \/ pending.kind = "full" THEN FullHint
  ELSE IF pending.kind = "none" THEN hint
  ELSE [hint EXCEPT !.exp = pending.exp]

\* record_managed_config_reconcile_hint: consecutive patches add up, anything else is Full.
Merged(pending, hint) ==
  IF hint.kind = "full" \/ pending.kind = "full" THEN FullHint
  ELSE IF pending.kind = "none" THEN hint
  ELSE IF pending.tgt = hint.exp
       THEN [pending EXCEPT !.tgt = hint.tgt, !.ids = @ \cup hint.ids]
  ELSE FullHint

\* record_full_managed_config_change and record_patch_managed_config_change, with the
\* notification; hints of concurrent publications may be recorded in any order.
RecordHint(hint) ==
  LET already == rt.applied = hint.tgt
      changed == ~(already /\ rt.pending.kind = "none") IN
  /\ hint \in hints /\ hints' = hints \ {hint}
  /\ rt' = IF ~changed THEN rt
           ELSE [rt EXCEPT !.pending = IF already THEN @ ELSE Merged(@, hint), !.epoch = @ + 1]
  /\ notified' = (notified \/ changed)
  /\ UNCHANGED <<rows, rev, core, hb, failed, cache, round, direct, mcEvents>>

-----------------------------------------------------------------------------
(* Direct mutations: the state is invalidated before and after the RPC. *)

\* invalidate_managed_runtime_state
Invalidated(state) ==
  [state EXCEPT !.applied = 0, !.base = 0, !.pending = FullHint,
                !.epoch = @ + 1, !.cacheEpoch = @ + 1]

DirectBegin ==
  /\ Counted /\ direct.at = "none"
  /\ \E i \in Insts, v \in UNION {{c[j] : j \in Insts} : c \in Contents} :
       direct' = [at |-> "begun", inst |-> i, value |-> v]
  /\ rt' = Invalidated(rt) /\ notified' = TRUE
  /\ UNCHANGED <<rows, rev, hints, core, hb, failed, cache, round>>

\* A removal deletes the row before it asks the device; a run is saved, if at all, after it.
Removal == direct.value = Absent

\* run_network_instance with overwrite, or delete_network_instance, on the device.
DirectRpc ==
  /\ direct.at = IF Removal THEN "saved" ELSE "begun"
  /\ direct' = [direct EXCEPT !.at = "ran"]
  /\ core' = [core EXCEPT ![direct.inst] = direct.value]
  /\ UNCHANGED <<rows, rev, hints, rt, hb, failed, notified, cache, round, mcEvents>>

\* insert_or_update_user_network_config, or delete_network_configs.
DirectSave ==
  /\ direct.at = IF Removal THEN "begun" ELSE "ran"
  /\ direct' = [direct EXCEPT !.at = "saved"]
  /\ rows' = [rows EXCEPT ![direct.inst] = direct.value]
  /\ UNCHANGED <<rev, hints, rt, core, hb, failed, notified, cache, round, mcEvents>>

\* The second invalidation, also when a step failed or a run is not to be saved.
DirectEnd ==
  /\ direct.at # "none" /\ direct' = NoDirect
  /\ rt' = Invalidated(rt) /\ notified' = TRUE
  /\ UNCHANGED <<rows, rev, hints, core, hb, failed, cache, round, mcEvents>>

-----------------------------------------------------------------------------
(* The session and its heartbeats. *)

Env == <<rows, rev, hints, direct>>

\* handle_heartbeat: the latest list of running instances, and a wake-up.
Heartbeat ==
  /\ hb' = Running(core) /\ notified' = TRUE
  /\ UNCHANGED <<Env, rt, core, failed, cache, round, mcEvents>>

\* An instance stops on the device.
InstanceStops(i) ==
  /\ Counted /\ core[i] # Absent /\ core' = [core EXCEPT ![i] = Absent]
  /\ UNCHANGED <<Env, rt, hb, failed, notified, cache, round>>

\* What the RPC under way does on the device: a delete, a run that leaves a running
\* instance alone (overwrite is false), or an overwrite or hot patch.
AfterRpc ==
  LET i == Min(round.todo) IN
  CASE round.act = "delete" -> [j \in Insts |-> IF j \in round.del THEN Absent ELSE core[j]]
    [] round.act = "run" -> IF core[i] = Absent THEN [core EXCEPT ![i] = round.want[i]] ELSE core
    [] round.act = "set" -> [core EXCEPT ![i] = round.want[i]]
    [] OTHER -> core

\* A new session replaces the old one, whose round is over: owns_authorized_session refuses
\* it. The RPC it had sent is carried out first or never. The device is the same process, and
\* bind_managed_runtime_state keeps its state, or has restarted without instances.
Reconnect ==
  /\ Counted
  /\ \/ core' \in {core, AfterRpc} /\ rt' = rt
     \/ core' = [i \in Insts |-> Absent] /\ rt' = NewRuntimeState
  /\ hb' = Running(core') /\ failed' = {} /\ notified' = TRUE /\ cache' = NewCache /\ round' = Idle
  /\ UNCHANGED Env

-----------------------------------------------------------------------------
(* A round: what it reads. *)

At(at) == round.at = at

\* recv_latest_heartbeat and the first lock of prepare_reconcile_round: the heartbeat's list
\* and the runtime state are read, and a cache of an older epoch is dropped.
StartRound ==
  /\ At("idle") /\ notified /\ notified' = FALSE
  /\ round' = [Idle EXCEPT !.at = "rev", !.snap = rt, !.running = hb \ failed]
  /\ cache' = IF cache.cacheEpoch = rt.cacheEpoch THEN cache
              ELSE [NewCache EXCEPT !.cacheEpoch = rt.cacheEpoch]
  /\ UNCHANGED <<Env, rt, core, hb, failed, mcEvents>>

\* select_reconcile_scope
PatchOnly(state, target) ==
  /\ state.pending.kind = "patch" /\ state.base # 0
  /\ state.pending.exp = state.base /\ state.pending.tgt = target

\* read_managed_config_revision, and what the round is for.
ReadRevision ==
  /\ At("rev")
  /\ LET apply == rev # round.snap.applied
         patch == apply /\ PatchOnly(round.snap, rev) IN
     round' = [round EXCEPT !.at = "list", !.target = rev, !.apply = apply, !.full = ~patch,
                 !.ids = IF patch THEN round.snap.pending.ids ELSE Insts,
                 !.snap = [NewRuntimeState EXCEPT !.epoch = round.snap.epoch]]
  /\ UNCHANGED <<Env, rt, core, hb, failed, notified, cache, mcEvents>>

\* running_instance_ids_for_round: the device is asked when a revision is to be applied;
\* instances whose start failed do not count as running.
ListRunning ==
  /\ At("list")
  /\ round' = [round EXCEPT !.at = "load", !.todo = round.ids,
                 !.running = IF round.apply THEN Running(core) \ failed ELSE @]
  /\ UNCHANGED <<Env, rt, core, hb, failed, notified, cache, mcEvents>>

\* The listing fails and the round is skipped.
ListFails ==
  /\ At("list") /\ round.apply /\ Counted /\ round' = Idle
  /\ UNCHANGED <<Env, rt, core, hb, failed, notified, cache>>

\* load_round_configs: all rows at once, or the dirty ones one by one.
LoadRows ==
  /\ At("load")
  /\ LET read == IF round.full THEN round.todo ELSE {Min(round.todo)}
         want == [i \in Insts |-> IF i \in read THEN rows[i] ELSE round.want[i]]
         todo == round.todo \ read IN
     round' = [round EXCEPT !.want = want, !.todo = todo,
                 !.at = IF todo = {} THEN "sync" ELSE "load",
                 !.del = IF round.full THEN {} ELSE {i \in round.ids : want[i] = Absent}]
  /\ UNCHANGED <<Env, rt, core, hb, failed, notified, cache, mcEvents>>

\* sync_running_sources_for_round: the device names the running web-owned instances, and
\* the rows of a Full round are read again; when the listing fails the round goes on.
SyncSources ==
  /\ At("sync")
  /\ \/ /\ LET metas == round.running \cap Running(core) IN
           round' = [round EXCEPT !.at = "clean", !.listed = TRUE, !.metas = metas,
                       !.want = IF round.full /\ metas # {} THEN rows ELSE @]
        /\ UNCHANGED mcEvents
     \/ /\ round.running # {} /\ Counted
        /\ round' = [round EXCEPT !.at = "clean"]
  /\ UNCHANGED <<Env, rt, core, hb, failed, notified, cache>>

-----------------------------------------------------------------------------
(* A round: what it changes, each time behind the fence. *)

Current == rt.epoch = round.snap.epoch

\* Mutant: the revision counts as applied while the round changes the device.
BegunKeepingApplied ==
  IF round.fenced THEN rt ELSE [rt EXCEPT !.base = IF round.full THEN 0 ELSE @]

\* The part of begin_managed_runtime_mutation behind its guard, Current: with the first
\* mutation of the round nothing counts as applied, nor as a base if the round is Full.
Begun ==
  IF round.fenced THEN rt
  ELSE [rt EXCEPT !.applied = 0, !.base = IF round.full THEN 0 ELSE @]

Desired == {i \in round.ids : round.want[i] # Absent}
Forget(c, ids) == [c EXCEPT !.entries = [i \in Insts |-> IF i \in ids THEN Absent ELSE @[i]]]
Cleaned(c) == [c EXCEPT !.cleaned = TRUE, !.last = Desired]

\* running_web_source_instance_ids: without the device's word only those of known.
RunningWeb(known) == IF round.listed THEN round.metas ELSE round.running \cap known

\* The instances that cleanup_patch_deleted_instances or
\* cleanup_stale_web_source_instances deletes.
Stale ==
  IF ~round.full THEN RunningWeb(round.del) \cap round.del
  ELSE IF cache.cleaned /\ cache.last = Desired THEN {}
  ELSE RunningWeb(Running(rows)) \ Desired

\* cleanup_direct_run_failures_for_round, and the cleanup up to its RPC.
Clean ==
  /\ At("clean")
  /\ IF ~Current THEN round' = Idle /\ UNCHANGED <<failed, rt, cache>>
     ELSE /\ failed' = IF round.full THEN failed \cap Desired ELSE failed \ round.del
          /\ IF Stale # {}
             THEN /\ rt' = Begun
                  /\ round' = [round EXCEPT !.at = "rpc", !.act = "delete", !.del = Stale,
                                 !.fenced = TRUE, !.todo = Desired]
                  /\ cache' = IF round.full THEN Forget(cache, Insts \ Desired) ELSE cache
             ELSE /\ rt' = rt
                  /\ round' = [round EXCEPT !.at = "each", !.todo = Desired]
                  /\ cache' = IF round.full THEN Cleaned(Forget(cache, Insts \ Desired))
                              ELSE Forget(cache, round.del)
  /\ UNCHANGED <<Env, core, hb, notified, mcEvents>>

Next1(r, i) == [r EXCEPT !.at = "each", !.act = "none", !.del = {}, !.todo = @ \ {i}]
Failed1(r, i) == [Next1(r, i) EXCEPT !.bad = TRUE]
Remember(c, i, value) == [c EXCEPT !.entries[i] = value]

\* One turn of the loop of reconcile_desired_runtime_configs, up to its RPC:
\* reconcile_running_web_config plans from the cache or else from the device,
\* run_missing_network_config ends the round when the fence refuses it.
EachConfig ==
  LET i == Min(round.todo)
      observed == IF cache.entries[i] # Absent THEN cache.entries[i] ELSE core[i]
      mutate(act) == /\ Current /\ rt' = Begun
                     /\ round' = [round EXCEPT !.at = "rpc", !.act = act, !.fenced = TRUE] IN
  /\ At("each") /\ round.todo # {}
  /\ \/ /\ i \in round.running /\ ~round.apply
        /\ round' = Next1(round, i) /\ UNCHANGED <<rt, cache>>
     \/ /\ i \in round.running /\ round.apply /\ observed = round.want[i]
        /\ round' = Next1(round, i) /\ cache' = Remember(cache, i, observed) /\ UNCHANGED rt
     \/ /\ i \in round.running /\ round.apply /\ observed \notin {round.want[i], Absent}
        /\ mutate("set") /\ UNCHANGED cache
     \/ /\ i \in round.running /\ round.apply
        /\ observed = Absent \/ (observed # round.want[i] /\ ~Current)
        /\ round' = Failed1(round, i) /\ cache' = Forget(cache, {i}) /\ UNCHANGED rt
     \/ /\ i \notin round.running /\ mutate("run") /\ cache' = Forget(cache, {i})
     \/ /\ i \notin round.running /\ ~Current
        /\ round' = [Failed1(round, i) EXCEPT !.todo = {}] /\ cache' = Forget(cache, {i})
        /\ UNCHANGED rt
  /\ UNCHANGED <<Env, core, hb, failed, notified, mcEvents>>

\* The device does not say what it runs.
ReadFails ==
  LET i == Min(round.todo) IN
  /\ At("each") /\ round.todo # {} /\ i \in round.running /\ round.apply
  /\ cache.entries[i] = Absent /\ Counted
  /\ round' = Failed1(round, i)
  /\ UNCHANGED <<Env, rt, core, hb, failed, notified, cache>>

\* Mutant: a start that succeeds does not clear an earlier failure.
RunResultKept(i, bad) ==
  IF round.act # "run" \/ ~Current THEN failed ELSE failed \cup (IF bad THEN {i} ELSE {})

\* record_direct_run_result
RunResult(i, bad) ==
  IF round.act # "run" \/ ~Current THEN failed ELSE IF bad THEN failed \cup {i} ELSE failed \ {i}

\* The RPC is carried out and answered, and the configuration read back: one that a run left
\* as it was still differs.
RpcDone ==
  /\ At("rpc") /\ core' = AfterRpc
  /\ IF round.act = "delete"
     THEN /\ round' = [round EXCEPT !.at = "each", !.act = "none", !.del = {}]
          /\ LET c == Forget(cache, round.ids \ Desired) IN
             cache' = IF round.full THEN Cleaned(c) ELSE c
          /\ failed' = failed
     ELSE LET i == Min(round.todo)
              good == core'[i] = round.want[i] IN
          /\ round' = IF good THEN Next1(round, i) ELSE Failed1(round, i)
          /\ cache' = IF good THEN Remember(cache, i, core'[i]) ELSE Forget(cache, {i})
          /\ failed' = RunResult(i, FALSE)
  /\ UNCHANGED <<Env, rt, hb, notified, mcEvents>>

\* The RPC fails: refused, unanswered, or answered after the client gave up, or only the
\* read-back fails; an instance that is gone cannot be patched.
RpcFails ==
  /\ At("rpc")
  /\ \/ Counted /\ core' \in {core, AfterRpc}
     \/ round.act = "set" /\ core[Min(round.todo)] = Absent /\ UNCHANGED <<core, mcEvents>>
  /\ IF round.act = "delete"
     THEN /\ round' = [round EXCEPT !.at = "each", !.act = "none", !.del = {}, !.bad = TRUE]
          /\ UNCHANGED <<cache, failed>>
     ELSE LET i == Min(round.todo) IN
          /\ round' = Failed1(round, i)
          /\ cache' = Forget(cache, {i})
          /\ \/ failed' = RunResult(i, TRUE)
             \/ core' = AfterRpc /\ failed' = RunResult(i, FALSE)
  /\ UNCHANGED <<Env, rt, hb, notified>>

\* The end of the loop, and mark_config_revision_applied_if_current up to its lock: the
\* revision is read again.
CheckRevision ==
  /\ At("each") /\ round.todo = {}
  /\ cache' = IF round.bad THEN cache
              ELSE [cache EXCEPT !.last = IF round.full THEN Desired ELSE (@ \ round.ids) \cup Desired]
  /\ round' = IF round.bad \/ ~(round.apply \/ round.fenced) \/ rev # round.target THEN Idle
              ELSE [round EXCEPT !.at = "mark"]
  /\ UNCHANGED <<Env, rt, core, hb, failed, notified, mcEvents>>

Applied(state, revision) ==
  [state EXCEPT !.applied = revision, !.base = revision, !.pending = NoHint]

\* Mutant: the revision is recorded although the state changed meanwhile.
MarkAppliedAnyway ==
  /\ At("mark") /\ round' = Idle
  /\ rt' = Applied(rt, round.target)
  /\ UNCHANGED <<Env, core, hb, failed, notified, cache, mcEvents>>

\* record_applied_config_revision
MarkApplied ==
  /\ At("mark") /\ round' = Idle
  /\ rt' = IF Current THEN Applied(rt, round.target) ELSE rt
  /\ UNCHANGED <<Env, core, hb, failed, notified, cache, mcEvents>>

Round == StartRound \/ ReadRevision \/ ListRunning \/ LoadRows \/ SyncSources \/ Clean
         \/ EachConfig \/ RpcDone \/ CheckRevision \/ MarkApplied

McNext ==
  \/ \E kind \in {"full", "patch"}, content \in Contents : Publish(kind, content)
  \/ \E hint \in hints : RecordHint(hint)
  \/ DirectBegin \/ DirectRpc \/ DirectSave \/ DirectEnd
  \/ Heartbeat \/ Reconnect \/ \E i \in Insts : InstanceStops(i)
  \/ Round \/ ListFails \/ ReadFails \/ RpcFails

McSpec == McInit /\ [][McNext]_mcVars

\* Heartbeats keep coming, a session's task runs, and a request handler runs to its end.
McFairness ==
  /\ WF_mcVars(Heartbeat) /\ WF_mcVars(Round)
  /\ WF_mcVars(\E hint \in hints : RecordHint(hint)) /\ WF_mcVars(DirectEnd)
McFairSpec == McSpec /\ McFairness

-----------------------------------------------------------------------------

Hints == [kind : {"none", "full", "patch"}, exp : 0 .. (MaxMcEvents + 1),
          tgt : 0 .. (MaxMcEvents + 1), ids : SUBSET Insts]
RuntimeStates == [applied : 0 .. (MaxMcEvents + 1), base : 0 .. (MaxMcEvents + 1), pending : Hints,
           epoch : 0 .. (2 * MaxMcEvents), cacheEpoch : 0 .. (2 * MaxMcEvents)]

\* Revisions, hints and the round have their types, the revision a patch builds on is the
\* applied one while there is one, and a round sends no RPC before it has taken the applied
\* revision back (ManagedRuntimeState, begin_managed_runtime_mutation).
McTypeOK ==
  /\ rev \in 1 .. (MaxMcEvents + 1) /\ hints \subseteq Hints /\ rt \in RuntimeStates
  /\ rt.applied # 0 => rt.base = rt.applied
  /\ failed \subseteq Insts /\ hb \subseteq Insts /\ notified \in BOOLEAN
  /\ round.at \in {"idle", "rev", "list", "load", "sync", "clean", "each", "rpc", "mark"}
  /\ At("rpc") => round.fenced /\ (round.act = "delete" \/ round.todo # {})

\* The device runs no other configuration of instance i than its row's; an instance that
\* stopped is the next round's to restart.
Agrees(i) == rows[i] # Absent => core[i] \in {Absent, rows[i]}

\* The current revision is reported as applied only while the device agrees with its rows,
\* whatever publications, direct mutations, failed RPCs and reconnects came in between
\* (begin_managed_runtime_mutation, mark_config_revision_applied_if_current).
AppliedHolds ==
  rt.applied = rev /\ direct.at = "none" => \A i \in Insts : Agrees(i)

\* Whenever the state would let a round do the patch alone, the patch is enough: the device
\* agrees with the rows on every instance the accumulated hint does not name, partly done
\* rounds and hints recorded out of order included (select_reconcile_scope).
PatchSuffices ==
  PatchOnly(rt, rev) /\ direct.at = "none" => \A i \in Insts \ rt.pending.ids : Agrees(i)

\* When publications, direct mutations and faults end, the device comes to run exactly the
\* configured instances that have rows, and the revision is reported as applied for good
\* (reconcile_network_configs_on_heartbeat).
Converged == rt.applied = rev /\ \A i \in Insts : rows[i] # Absent => core[i] = rows[i]
Converges == <>[]Converged

\* An applied revision leaves no instance running whose row it deleted
\* (cleanup_stale_web_source_instances, cleanup_patch_deleted_instances).
NoOrphan ==
  rt.applied = rev /\ direct.at = "none" => Running(core) \subseteq Running(rows)

=============================================================================
