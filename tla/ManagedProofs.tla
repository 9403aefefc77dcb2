---------------------------- MODULE ManagedProofs ----------------------------
(***************************************************************************)
(* What holds of the reconciliation of managed configurations for any      *)
(* instances, rows and number of events: the device agrees with a revision *)
(* that counts as applied, and a patch is enough whenever a round does     *)
(* only the patch. First the inductive invariant and the steps up to the   *)
(* reading of the rows, then the steps of a round that change the device,  *)
(* and the theorems.                                                       *)
(***************************************************************************)
EXTENDS ManagedConfig, TLAPS

HintRecords == [kind : {"none", "full", "patch"}, exp : Nat, tgt : Nat, ids : SUBSET Insts]
States == [applied : Nat, base : Nat, pending : HintRecords, epoch : Nat, cacheEpoch : Nat]
Histories == [Nat -> SUBSET Insts]

\* A publication since revision b changed row i.
Changed(chg, i, b) == \E r \in b .. (rev - 1) : i \in chg[r]

Rounds ==
  [at : {"idle", "rev", "list", "load", "sync", "clean", "each", "rpc", "mark"},
   snap : States, target : Nat, apply : BOOLEAN, full : BOOLEAN,
   ids : SUBSET Insts, running : SUBSET Insts, want : [Insts -> Nat], del : SUBSET Insts,
   listed : BOOLEAN, metas : SUBSET Insts, fenced : BOOLEAN, bad : BOOLEAN,
   todo : SUBSET Insts, act : {"none", "delete", "run", "set"}]

Caches == [cacheEpoch : Nat, cleaned : BOOLEAN, last : SUBSET Insts, entries : [Insts -> Nat]]
Directs == [at : {"none", "begun", "ran", "saved"}, inst : Insts, value : Nat]

McTables ==
  /\ rows \in [Insts -> Nat] /\ core \in [Insts -> Nat] /\ rev \in Nat \ {0}
  /\ hints \subseteq HintRecords /\ rt \in States /\ round \in Rounds /\ cache \in Caches
  /\ direct \in Directs /\ failed \subseteq Insts /\ hb \subseteq Insts /\ notified \in BOOLEAN

\* What a runtime state knows is no more than what was published: a pending patch names the
\* rows that the publications between its two revisions changed.
Informed(chg, state) ==
  /\ state.base <= rev
  /\ state.applied # 0 => state.base = state.applied
  /\ state.pending.kind = "patch" =>
       /\ 1 <= state.pending.exp /\ state.pending.exp < state.pending.tgt /\ state.pending.tgt <= rev
       /\ \A i \in Insts : i \in state.pending.ids <=>
            \E r \in state.pending.exp .. (state.pending.tgt - 1) : i \in chg[r]

Published(chg) ==
  /\ Informed(chg, rt)
  /\ \A h \in hints : /\ h.kind \in {"full", "patch"} /\ 1 <= h.exp /\ h.tgt = h.exp + 1 /\ h.tgt <= rev
                      /\ h.ids = chg[h.exp]

Reading == {"idle", "rev"}
Loaded == IF At("load") THEN round.ids \ round.todo
          ELSE IF At("list") THEN {} ELSE round.ids

\* What a round has read and where it stands. A round that has changed the device took the
\* base back, or only touches rows that changed since.
RoundStands(chg) ==
  /\ ~At("idle") => round.snap.epoch <= rt.epoch
  /\ At("rev") => /\ ~round.fenced
                  /\ Informed(chg, round.snap) /\ rt.base \in {0, round.snap.base}
                  /\ Current => rt = round.snap
  /\ round.act # "none" => At("rpc")
  /\ At("rpc") => round.fenced /\ (round.act = "delete" \/ round.todo # {})
  /\ round.at \notin Reading =>
       /\ 1 <= round.target /\ round.target <= rev
       /\ ~round.apply => round.full
       /\ round.full => round.ids = Insts
       /\ ~round.full /\ rt.base # 0 => \A i \in round.ids : Changed(chg, i, rt.base)
       /\ round.fenced /\ round.full => rt.base = 0
       /\ At("load") => round.todo \subseteq round.ids /\ (round.full => round.todo = round.ids)
       /\ round.at \in {"each", "rpc"} => round.todo \subseteq Desired
       /\ At("mark") => round.todo = {} /\ ~round.bad

\* What the reconciler's cache says of an instance is still so.
CacheHolds ==
  /\ cache.cacheEpoch <= rt.cacheEpoch
  /\ ~At("idle") /\ Current => cache.cacheEpoch = rt.cacheEpoch
  /\ cache.cacheEpoch = rt.cacheEpoch /\ direct.at = "none" =>
       \A i \in Insts : cache.entries[i] # Absent => core[i] \in {Absent, cache.entries[i]}

\* Since the base the device differs from the rows only where publications changed them.
BaseHolds(chg) ==
  rt.base # 0 /\ direct.at = "none" => \A i \in Insts : Agrees(i) \/ Changed(chg, i, rt.base)

\* The same of the revision a current round works for: on the rows it does not touch, on
\* those it has read, and on those it has brought to the device.
RoundHolds(chg) ==
  round.at \notin Reading /\ Current /\ direct.at = "none" =>
    /\ \A i \in Insts : i \notin round.ids \/ ~round.apply =>
         Agrees(i) \/ Changed(chg, i, round.target)
    /\ \A i \in Loaded : round.want[i] = rows[i] \/ Changed(chg, i, round.target)
    /\ round.at \in {"each", "rpc", "mark"} /\ round.apply /\ ~round.bad =>
         \A i \in Desired \ round.todo : core[i] \in {Absent, round.want[i]}

McGood(chg) ==
  /\ McTables /\ Published(chg) /\ RoundStands(chg) /\ CacheHolds
  /\ BaseHolds(chg) /\ RoundHolds(chg)
McIInv == \E chg \in Histories : McGood(chg)

\* The states, rounds, caches and hints the code starts from have their types.
LEMMA FixedRecords ==
  /\ NoHint \in HintRecords /\ NoHint.kind = "none"
  /\ FullHint \in HintRecords /\ FullHint.kind = "full"
  /\ NewRuntimeState \in States /\ NewRuntimeState.applied = 0 /\ NewRuntimeState.base = 0
  /\ NewRuntimeState.pending.kind = "none" /\ NewRuntimeState.epoch = 0 /\ NewRuntimeState.cacheEpoch = 0
  /\ NewCache \in Caches /\ NewCache.cacheEpoch = 0 /\ NewCache.entries = [i \in Insts |-> Absent]
  /\ Idle \in Rounds /\ Idle.at = "idle" /\ Idle.act = "none"
  /\ NoDirect \in Directs /\ NoDirect.at = "none"
<1> USE McAssumption
<1>1. NoHint \in HintRecords /\ NoHint.kind = "none" /\ FullHint \in HintRecords /\ FullHint.kind = "full"
  BY DEF NoHint, FullHint, HintRecords
<1>2. /\ NewRuntimeState \in States /\ NewRuntimeState.applied = 0 /\ NewRuntimeState.base = 0
      /\ NewRuntimeState.pending = NoHint /\ NewRuntimeState.epoch = 0 /\ NewRuntimeState.cacheEpoch = 0
  BY <1>1 DEF NewRuntimeState, States
<1>3. NewCache \in Caches /\ NewCache.cacheEpoch = 0 /\ NewCache.entries = [i \in Insts |-> Absent]
  BY DEF NewCache, Caches, Absent
<1>4. Idle \in Rounds /\ Idle.at = "idle" /\ Idle.act = "none"
  BY <1>2 DEF Idle, Rounds, Absent
<1>5. Min(Insts) \in Insts
  BY McAssumption
<1>6. NoDirect \in Directs /\ NoDirect.at = "none"
  BY <1>5 DEF NoDirect, Directs, Absent
<1> QED BY <1>1, <1>2, <1>3, <1>4, <1>6

\* What the RPC under way does to each instance.
LEMMA RpcReach ==
  ASSUME NEW chg \in Histories, McGood(chg)
  PROVE  /\ AfterRpc \in [Insts -> Nat]
         /\ \A j \in Insts : \/ AfterRpc[j] \in {core[j], Absent}
                             \/ /\ At("rpc") /\ round.act # "delete" /\ j = Min(round.todo)
                                /\ j \in Desired /\ AfterRpc[j] = round.want[j]
         /\ At("rpc") /\ round.act # "delete" => Min(round.todo) \in round.todo
<1>1. /\ round.want \in [Insts -> Nat] /\ round.act \in {"none", "delete", "run", "set"}
      /\ core \in [Insts -> Nat] /\ round.todo \in SUBSET Insts /\ (round.act # "none" => At("rpc"))
  BY DEF McGood, McTables, Rounds, RoundStands
<1>2. At("rpc") => round.todo \subseteq Desired /\ (round.act = "delete" \/ round.todo # {})
  BY DEF McGood, RoundStands, At, Reading
<1>3. At("rpc") /\ round.act # "delete" => Min(round.todo) \in round.todo
  <2> DEFINE todo == round.todo
  <2>1. todo \in SUBSET Insts
    BY <1>1
  <2> HIDE DEF todo
  <2>2. todo # {} => Min(todo) \in todo
    BY <2>1, McAssumption
  <2> QED BY <1>2, <2>2 DEF todo
<1> DEFINE i == Min(round.todo)
<1>4. CASE round.act = "delete"
  <2>1. AfterRpc = [j \in Insts |-> IF j \in round.del THEN Absent ELSE core[j]]
    BY <1>4 DEF AfterRpc
  <2> QED BY <1>1, <1>4, <2>1 DEF Absent
<1>5. CASE round.act \in {"run", "set"}
  <2>1. AfterRpc \in {core, [core EXCEPT ![i] = round.want[i]]}
    BY <1>5 DEF AfterRpc
  <2>2. i \in Desired /\ i \in Insts /\ At("rpc") /\ round.act # "delete" /\ round.want[i] \in Nat
    BY <1>1, <1>2, <1>3, <1>5
  <2> HIDE DEF i
  <2>3. /\ AfterRpc \in [Insts -> Nat]
        /\ \A j \in Insts : AfterRpc[j] = core[j] \/ (j = i /\ AfterRpc[j] = round.want[j])
    BY <1>1, <2>1, <2>2
  <2> QED BY <1>3, <2>2, <2>3 DEF i
<1>7. CASE round.act = "none"
  <2>1. AfterRpc = core
    BY <1>7 DEF AfterRpc
  <2> QED BY <1>1, <1>3, <2>1
<1> QED BY <1>1, <1>4, <1>5, <1>7

\* A round that is over promises nothing.
LEMMA RoundOver ==
  ASSUME round' = Idle, NEW chg
  PROVE  RoundStands(chg)' /\ RoundHolds(chg)' /\ round' \in Rounds
         /\ ((~At("idle") /\ Current => cache.cacheEpoch = rt.cacheEpoch)')
BY FixedRecords DEF RoundStands, RoundHolds, At, Reading

\* A publication of the rows under a new revision: the history gains what it changed.
LEMMA PublishKeeps ==
  ASSUME McIInv, NEW kind \in {"full", "patch"}, NEW content \in Contents, Publish(kind, content)
  PROVE  McIInv'
<1> USE McAssumption
<1>1. PICK chg \in Histories : McGood(chg)
  BY DEF McIInv
<1> DEFINE D == {i \in Insts : content[i] # rows[i]}
           h == [kind |-> kind, exp |-> rev, tgt |-> rev + 1, ids |-> D]
<1>2. /\ rows' = content /\ rev' = rev + 1
      /\ hints' = hints \cup {h}
      /\ UNCHANGED <<rt, core, hb, failed, notified, cache, round, direct>>
  BY DEF Publish
<1>3. /\ rev \in Nat \ {0} /\ McTables
      /\ rt \in States /\ round \in Rounds /\ hints \subseteq HintRecords
  BY <1>1 DEF McGood, McTables
<1>4. PICK ch \in Histories : ch = [chg EXCEPT ![rev] = D]
  <2>1. D \in SUBSET Insts
    OBVIOUS
  <2>2. [chg EXCEPT ![rev] = D] \in Histories
    BY <1>2, <1>3, <2>1 DEF Histories
  <2> QED BY <2>2
<1>5. ch[rev] = D /\ \A r \in 1 .. (rev - 1) : ch[r] = chg[r]
  BY <1>2, <1>3, <1>4 DEF Histories
<1>6. /\ h \in HintRecords /\ h.kind \in {"full", "patch"} /\ h.exp = rev /\ h.tgt = rev + 1 /\ h.ids = ch[rev]
  BY <1>2, <1>3, <1>5 DEF HintRecords
<1>7. \A i \in Insts : i \in D <=> rows'[i] # rows[i]
  BY <1>2
<1>8. /\ rt.base \in Nat /\ rt.pending.exp \in Nat /\ rt.pending.tgt \in Nat
      /\ round.snap.base \in Nat /\ round.snap.pending.exp \in Nat
      /\ round.snap.pending.tgt \in Nat /\ round.ids \subseteq Insts /\ round.target \in Nat
      /\ \A g \in hints : g.exp \in Nat /\ g.tgt \in Nat
  BY <1>3 DEF States, Rounds, HintRecords
<1> HIDE DEF D, h
<1>9. \A i \in Insts, b \in 1 .. rev : Changed(chg, i, b) \/ i \in D => Changed(ch, i, b)'
  BY <1>2, <1>3, <1>5 DEF Changed
<1>10. McTables'
  <2>1. hints' \subseteq HintRecords
    BY <1>2, <1>3, <1>6
  <2>2. rows' \in [Insts -> Nat]
    BY <1>2
  <2> QED BY <1>2, <1>3, <2>1, <2>2 DEF McTables
<1>11. Published(ch)'
  <2>1. Informed(chg, rt) /\ \A g \in hints : g.kind \in {"full", "patch"} /\ 1 <= g.exp
                               /\ g.tgt = g.exp + 1 /\ g.tgt <= rev /\ g.ids = chg[g.exp]
    BY <1>1 DEF McGood, Published
  <2>2. Informed(ch, rt)'
    BY <1>2, <1>3, <1>5, <1>8, <2>1 DEF Informed
  <2>3. ASSUME NEW g \in hints'
        PROVE  g.kind \in {"full", "patch"} /\ 1 <= g.exp /\ g.tgt = g.exp + 1 /\ g.tgt <= rev' /\ g.ids = ch[g.exp]
    <3>1. CASE g \in hints
      <4>1. g.exp \in 1 .. (rev - 1)
        BY <3>1, <2>1, <1>3, <1>8
      <4> QED BY <1>2, <1>3, <1>5, <1>8, <2>1, <3>1, <4>1
    <3>2. CASE g = h
      BY <1>2, <1>3, <1>6, <3>2
    <3> QED BY <1>2, <3>1, <3>2
  <2> QED BY <2>2, <2>3 DEF Published
<1>12. RoundStands(ch)'
  <2>1. RoundStands(chg)
    BY <1>1 DEF McGood
  <2>2. At("rev") => Informed(ch, round.snap)'
    BY <1>2, <1>3, <1>5, <1>8, <2>1 DEF Informed, RoundStands
  <2>3. rt.base # 0 => rt.base \in 1 .. rev
    BY <1>1, <1>8, <1>3 DEF McGood, Published, Informed
  <2>4. round.at \notin Reading /\ ~round.full /\ rt.base # 0 => \A i \in round.ids : Changed(ch, i, rt.base)'
    BY <1>2, <1>8, <1>9, <2>1, <2>3 DEF RoundStands
  <2> QED BY <1>2, <1>3, <1>8, <2>1, <2>2, <2>4 DEF RoundStands, At, Current, Desired
<1>13. CacheHolds'
  BY <1>1, <1>2 DEF McGood, CacheHolds, At, Current
<1>14. BaseHolds(ch)'
  <2>1. rt.base # 0 => rt.base \in 1 .. rev
    BY <1>1, <1>8, <1>3 DEF McGood, Published, Informed
  <2> QED BY <1>1, <1>2, <1>7, <1>9, <2>1 DEF McGood, BaseHolds, Agrees
<1>15. RoundHolds(ch)'
  <2> SUFFICES ASSUME round.at \notin Reading, Current, direct.at = "none"
               PROVE  RoundHolds(ch)'
    BY <1>2 DEF RoundHolds, Current
  <2>1. round.target \in 1 .. rev
    BY <1>1, <1>3, <1>8 DEF McGood, RoundStands
  <2>2. /\ \A i \in Insts : i \notin round.ids \/ ~round.apply =>
             (Agrees(i) \/ Changed(ch, i, round.target))'
        /\ \A i \in Loaded : (round.want[i] = rows[i] \/ Changed(ch, i, round.target))'
    <3>1. Loaded \subseteq Insts
      BY <1>8 DEF Loaded
    <3> QED BY <1>1, <1>2, <1>7, <1>9, <2>1, <3>1, Zenon DEF McGood, RoundHolds, Agrees
  <2>3. Loaded' = Loaded /\ Desired' = Desired
    BY <1>2 DEF Loaded, At, Desired
  <2> QED BY <1>1, <1>2, <2>2, <2>3 DEF McGood, RoundHolds
<1> QED BY <1>10, <1>11, <1>12, <1>13, <1>14, <1>15 DEF McIInv, McGood

\* A raised epoch leaves the round under way without its promises.
LEMMA EpochRaised ==
  ASSUME NEW chg \in Histories, McGood(chg), rt' \in States, rt'.epoch = rt.epoch + 1,
         rt'.base \in {rt.base, 0}, UNCHANGED <<rev, round>>
  PROVE  /\ RoundStands(chg)' /\ RoundHolds(chg)'
         /\ ((~At("idle") /\ Current => cache.cacheEpoch = rt.cacheEpoch)')
<1>1. /\ rt.epoch \in Nat /\ round.snap.epoch \in Nat /\ RoundStands(chg) /\ rt'.epoch \in Nat
  BY DEF McGood, McTables, States, Rounds
<1>2. ~At("idle") => round.snap.epoch <= rt.epoch
  BY <1>1 DEF RoundStands
<1>3. ~At("idle") => round'.snap.epoch <= rt'.epoch /\ ~Current'
  BY <1>1, <1>2 DEF Current
<1>4. RoundHolds(chg)'
  BY <1>3 DEF RoundHolds, At, Reading
<1>5. /\ At("rev") => Informed(chg, round.snap)'
  BY <1>1 DEF RoundStands, Informed
<1>6. round.at \notin Reading /\ ~round.full /\ rt'.base # 0 => \A i \in round.ids : Changed(chg, i, rt.base)'
  BY <1>1 DEF RoundStands, Changed
<1>7. RoundStands(chg)'
  BY <1>1, <1>3, <1>5, <1>6 DEF RoundStands, At, Desired
<1> QED BY <1>3, <1>4, <1>7 DEF At

\* A hint of a publication reaches the runtime state, in whatever order hints come.
LEMMA RecordHintKeeps ==
  ASSUME NEW chg \in Histories, McGood(chg), NEW hint \in hints, RecordHint(hint)
  PROVE  McGood(chg)'
<1> USE McAssumption
<1> DEFINE already == rt.applied = hint.tgt
           changed == ~(already /\ rt.pending.kind = "none")
           p == IF already THEN rt.pending ELSE Merged(rt.pending, hint)
           new == [rt EXCEPT !.pending = p, !.epoch = @ + 1]
<1>1. /\ hints' = hints \ {hint} /\ rt' = (IF ~changed THEN rt ELSE new)
      /\ notified' = (notified \/ changed)
      /\ UNCHANGED <<rows, rev, core, hb, failed, cache, round, direct>>
  BY DEF RecordHint
<1>2. /\ McTables /\ rt \in States /\ hint \in HintRecords /\ rt.pending \in HintRecords /\ rt.epoch \in Nat
      /\ rev \in Nat \ {0}
      /\ rt.base \in Nat /\ rt.applied \in Nat /\ rt.cacheEpoch \in Nat /\ notified \in BOOLEAN
  BY DEF McGood, McTables, States
<1>3. /\ Informed(chg, rt) /\ hint.kind \in {"full", "patch"} /\ 1 <= hint.exp /\ hint.tgt = hint.exp + 1
      /\ hint.tgt <= rev /\ hint.ids = chg[hint.exp]
  BY DEF McGood, Published
<1>4. /\ p \in HintRecords
      /\ p.kind = "patch" =>
           /\ 1 <= p.exp /\ p.exp < p.tgt /\ p.tgt <= rev
           /\ \A i \in Insts : i \in p.ids <=> \E r \in p.exp .. (p.tgt - 1) : i \in chg[r]
  <2>1. CASE already \/ hint.kind = "full" \/ rt.pending.kind = "full"
    BY <1>2, <1>3, <2>1, FixedRecords DEF Merged, Informed
  <2>2. CASE ~already /\ hint.kind # "full" /\ rt.pending.kind = "none"
    <3>1. p = hint
      BY <2>2 DEF Merged
    <3>2. hint.exp \in Nat /\ \A r \in hint.exp .. (hint.tgt - 1) : r = hint.exp
      BY <1>2, <1>3 DEF HintRecords
    <3>3. hint.exp \in hint.exp .. (hint.tgt - 1)
      BY <1>3, <3>2
    <3> QED BY <1>2, <1>3, <3>1, <3>2, <3>3
  <2>3. CASE ~already /\ hint.kind # "full" /\ rt.pending.kind = "patch" /\ rt.pending.tgt = hint.exp
    <3> DEFINE q == [rt.pending EXCEPT !.tgt = hint.tgt, !.ids = rt.pending.ids \cup hint.ids]
    <3>1. p = q
      BY <2>3 DEF Merged
    <3>2. /\ q \in HintRecords /\ q.exp = rt.pending.exp /\ q.tgt = hint.tgt /\ q.ids = rt.pending.ids \cup hint.ids
          /\ q.exp \in Nat /\ hint.exp \in Nat
      <4>1. /\ rt.pending.ids \cup hint.ids \in SUBSET Insts /\ hint.tgt \in Nat
            /\ rt.pending.exp \in Nat /\ hint.exp \in Nat
        BY <1>2 DEF HintRecords
      <4> DEFINE u == rt.pending.ids \cup hint.ids
      <4> HIDE DEF u
      <4>2. /\ [rt.pending EXCEPT !.tgt = hint.tgt, !.ids = u] \in HintRecords
            /\ [rt.pending EXCEPT !.tgt = hint.tgt, !.ids = u].exp = rt.pending.exp
            /\ [rt.pending EXCEPT !.tgt = hint.tgt, !.ids = u].tgt = hint.tgt
            /\ [rt.pending EXCEPT !.tgt = hint.tgt, !.ids = u].ids = u
        <5>1. u \in SUBSET Insts
          BY <4>1 DEF u
        <5> QED BY <1>2, <4>1, <5>1, Zenon DEF HintRecords
      <4> QED BY <4>1, <4>2 DEF u
    <3> HIDE DEF q, p
    <3>3. 1 <= q.exp /\ q.exp < hint.exp /\ q.tgt <= rev
          /\ \A i \in Insts : i \in rt.pending.ids <=> \E r \in q.exp .. (hint.exp - 1) : i \in chg[r]
      BY <1>3, <2>3, <3>2 DEF Informed
    <3>4. \A r \in Nat : r \in q.exp .. (q.tgt - 1) <=> r \in q.exp .. (hint.exp - 1) \/ r = hint.exp
      BY <1>3, <3>2, <3>3
    <3>5. \A i \in Insts : i \in q.ids <=> \E r \in q.exp .. (q.tgt - 1) : i \in chg[r]
      <4>1. \A r \in q.exp .. (q.tgt - 1) : r \in Nat
        BY <3>2
      <4>2. \A r \in q.exp .. (hint.exp - 1) : r \in Nat
        BY <3>2
      <4> QED BY <1>3, <3>2, <3>3, <3>4, <4>1, <4>2
    <3> QED BY <1>3, <3>1, <3>2, <3>3, <3>5
  <2>4. CASE ~already /\ hint.kind # "full" /\ rt.pending.kind = "patch" /\ rt.pending.tgt # hint.exp
    BY <2>4, FixedRecords DEF Merged
  <2> QED BY <1>2, <2>1, <2>2, <2>3, <2>4 DEF HintRecords
<1> HIDE DEF p
<1>9. /\ new \in States /\ new.applied = rt.applied /\ new.base = rt.base /\ new.pending = p
      /\ new.epoch = rt.epoch + 1 /\ new.cacheEpoch = rt.cacheEpoch
  <2>1. rt.epoch + 1 \in Nat
    BY <1>2
  <2> QED BY <1>2, <1>4, <2>1, Zenon DEF States
<1> HIDE DEF new
<1>10. /\ rt' \in States /\ rt'.base = rt.base /\ rt'.applied = rt.applied
       /\ rt'.cacheEpoch = rt.cacheEpoch /\ rt'.epoch \in {rt.epoch, rt.epoch + 1}
       /\ rt' = rt \/ (rt'.epoch = rt.epoch + 1 /\ rt'.pending = p)
  BY <1>1, <1>2, <1>9
<1>11. McTables'
  <2>1. notified' \in BOOLEAN
    BY <1>1, Zenon
  <2>2. hints' \subseteq HintRecords
    BY <1>1 DEF McGood, McTables
  <2> QED BY <1>1, <1>2, <1>10, <2>1, <2>2 DEF McTables
<1>12. Published(chg)'
  <2>1. Informed(chg, rt)'
    BY <1>1, <1>3, <1>4, <1>10 DEF Informed
  <2> QED BY <1>1, <2>1 DEF McGood, Published
<1>13. BaseHolds(chg)'
  BY <1>1, <1>10 DEF McGood, BaseHolds, Agrees, Changed
<1>14. RoundStands(chg)' /\ RoundHolds(chg)'
       /\ ((~At("idle") /\ Current => cache.cacheEpoch = rt.cacheEpoch)')
  <2>1. CASE rt' = rt
    <3>1. RoundStands(chg)'
      BY <1>1, <2>1 DEF McGood, RoundStands, At, Current, Desired, Changed, Informed
    <3>2. RoundHolds(chg)'
      BY <1>1, <2>1 DEF McGood, RoundHolds, At, Current, Desired, Changed, Loaded, Agrees
    <3> QED BY <1>1, <2>1, <3>1, <3>2 DEF McGood, CacheHolds, At, Current
  <2>2. CASE rt'.epoch = rt.epoch + 1
    BY <1>1, <1>10, <2>2, EpochRaised
  <2> QED BY <1>10, <2>1, <2>2
<1>15. CacheHolds'
  BY <1>1, <1>10, <1>14 DEF McGood, CacheHolds
<1> QED BY <1>11, <1>12, <1>13, <1>14, <1>15 DEF McGood

\* What an invalidation leaves of the runtime state.
LEMMA InvalidatedFacts ==
  ASSUME rt \in States
  PROVE  /\ Invalidated(rt) \in States
         /\ Invalidated(rt).applied = 0 /\ Invalidated(rt).base = 0
         /\ Invalidated(rt).pending = FullHint /\ Invalidated(rt).epoch = rt.epoch + 1
         /\ Invalidated(rt).cacheEpoch = rt.cacheEpoch + 1
<1>1. rt.epoch + 1 \in Nat /\ rt.cacheEpoch + 1 \in Nat
  BY DEF States
<1>2. FullHint \in HintRecords
  BY FixedRecords
<1> QED BY <1>1, <1>2, Zenon DEF Invalidated, States

\* The beginning and the end of a direct mutation.
LEMMA InvalidationKeeps ==
  ASSUME NEW chg \in Histories, McGood(chg), DirectBegin \/ DirectEnd
  PROVE  McGood(chg)'
<1> USE McAssumption
<1>1. /\ rt' = Invalidated(rt) /\ notified' = TRUE
      /\ UNCHANGED <<rows, rev, hints, core, hb, failed, cache, round>>
  BY DEF DirectBegin, DirectEnd
<1>2. /\ McTables /\ rt \in States /\ rt.epoch \in Nat /\ rt.cacheEpoch \in Nat
      /\ rev \in Nat \ {0} /\ cache \in Caches /\ cache.cacheEpoch \in Nat
  BY DEF McGood, McTables, States, Caches
<1>4. /\ rt' \in States /\ rt'.applied = 0 /\ rt'.base = 0 /\ rt'.pending = FullHint
      /\ rt'.epoch = rt.epoch + 1 /\ rt'.cacheEpoch = rt.cacheEpoch + 1
  BY <1>1, <1>2, InvalidatedFacts
<1>5. direct' \in Directs
  <2>1. CASE DirectEnd
    BY <2>1, FixedRecords DEF DirectEnd
  <2>2. CASE DirectBegin
    <3>1. PICK i \in Insts, c \in Contents, j \in Insts : direct' = [at |-> "begun", inst |-> i, value |-> c[j]]
      BY <2>2 DEF DirectBegin
    <3>2. c[j] \in Nat
      OBVIOUS
    <3> QED BY <3>1, <3>2 DEF Directs
  <2> QED BY <2>1, <2>2
<1>7. McTables'
  <2>1. notified' \in BOOLEAN
    BY <1>1, Zenon
  <2> QED BY <1>1, <1>2, <1>4, <1>5, <2>1 DEF McTables
<1>8. Published(chg)'
  BY <1>1, <1>2, <1>4, FixedRecords DEF McGood, Published, Informed
<1>9. BaseHolds(chg)'
  BY <1>4 DEF BaseHolds
<1>10. RoundStands(chg)' /\ RoundHolds(chg)'
       /\ ((~At("idle") /\ Current => cache.cacheEpoch = rt.cacheEpoch)')
  BY <1>1, <1>4, EpochRaised
<1>11. CacheHolds'
  <2>1. cache'.cacheEpoch < rt'.cacheEpoch /\ cache'.cacheEpoch <= rt'.cacheEpoch
        /\ cache'.cacheEpoch # rt'.cacheEpoch
    BY <1>1, <1>2, <1>4 DEF McGood, CacheHolds
  <2> QED BY <1>10, <2>1 DEF CacheHolds
<1> QED BY <1>7, <1>8, <1>9, <1>10, <1>11 DEF McGood

\* The steps of a direct mutation in between: nothing is promised while it is under way.
LEMMA DirectKeeps ==
  ASSUME NEW chg \in Histories, McGood(chg), DirectRpc \/ DirectSave
  PROVE  McGood(chg)'
<1>1. /\ direct.at # "none" /\ direct'.at \in {"ran", "saved"} /\ direct' \in Directs
      /\ UNCHANGED <<rev, hints, rt, hb, failed, notified, cache, round>>
  BY DEF DirectRpc, DirectSave, Removal, McGood, McTables, Directs
<1>2. rows' \in [Insts -> Nat] /\ core' \in [Insts -> Nat]
  BY DEF DirectRpc, DirectSave, Removal, McGood, McTables, Directs
<1>3. McTables'
  BY <1>1, <1>2 DEF McGood, McTables
<1>4. Published(chg)'
  BY <1>1 DEF McGood, Published, Informed
<1>5. RoundStands(chg)'
  BY <1>1 DEF McGood, RoundStands, Informed, At, Current, Changed, Desired
<1>6. CacheHolds'
  BY <1>1 DEF McGood, CacheHolds, At, Current
<1>7. BaseHolds(chg)' /\ RoundHolds(chg)'
  BY <1>1 DEF BaseHolds, RoundHolds
<1> QED BY <1>3, <1>4, <1>5, <1>6, <1>7 DEF McGood

\* A step that stops instances, or none, and touches nothing but what heartbeats say.
LEMMA StopKeeps ==
  ASSUME NEW chg \in Histories, McGood(chg), Heartbeat \/ \E i \in Insts : InstanceStops(i)
  PROVE  McGood(chg)'
<1> USE McAssumption
<1>1. /\ UNCHANGED <<rows, rev, hints, direct, rt, failed, cache, round>>
      /\ core' \in [Insts -> Nat] /\ \A i \in Insts : core'[i] \in {core[i], Absent}
  BY DEF Heartbeat, InstanceStops, McGood, McTables, Env, Absent
<1>2. hb' \subseteq Insts /\ notified' \in BOOLEAN
  <2>1. hb' \subseteq Insts
    BY Zenon DEF Heartbeat, InstanceStops, Running, McGood, McTables
  <2>2. notified' = TRUE \/ notified' = notified
    BY DEF Heartbeat, InstanceStops
  <2>3. notified' \in BOOLEAN
    BY <2>2, Zenon DEF McGood, McTables
  <2> QED BY <2>1, <2>3
<1>3. McTables'
  BY <1>1, <1>2 DEF McGood, McTables
<1>4. Published(chg)'
  BY <1>1 DEF McGood, Published, Informed
<1>5. RoundStands(chg)'
  BY <1>1 DEF McGood, RoundStands, Informed, At, Current, Changed, Desired
<1>6. CacheHolds'
  BY <1>1 DEF McGood, CacheHolds, At, Current
<1>7. \A i \in Insts : Agrees(i) => Agrees(i)'
  BY <1>1 DEF Agrees
<1>8. BaseHolds(chg)'
  BY <1>1, <1>7 DEF McGood, BaseHolds, Changed
<1>9. RoundHolds(chg)'
  <2>1. Loaded' = Loaded /\ Desired' = Desired /\ Desired \subseteq Insts /\ Current' = Current
    BY <1>1 DEF Loaded, Desired, At, Current, McGood, McTables, Rounds
  <2> QED BY <1>1, <1>7, <2>1 DEF McGood, RoundHolds, Changed
<1> QED BY <1>3, <1>4, <1>5, <1>6, <1>8, <1>9 DEF McGood

\* The rows the RPC under way may change have changed since the base.
LEMMA RpcKeepsBase ==
  ASSUME NEW chg \in Histories, McGood(chg), UNCHANGED <<rows, rev, direct>>, rt'.base = rt.base,
         core' \in {core, AfterRpc}
  PROVE  BaseHolds(chg)'
<1> SUFFICES ASSUME rt.base # 0, direct.at = "none", NEW j \in Insts
             PROVE  (Agrees(j) \/ Changed(chg, j, rt.base))'
  BY DEF BaseHolds
<1>1. Agrees(j) \/ Changed(chg, j, rt.base)
  BY DEF McGood, BaseHolds
<1>2. CASE core'[j] \in {core[j], Absent}
  BY <1>1, <1>2 DEF Agrees, Changed
<1>3. CASE core'[j] \notin {core[j], Absent}
  <2>1. At("rpc") /\ j \in Desired
    BY <1>3, RpcReach
  <2>2. round.fenced /\ ~round.full /\ j \in round.ids
    BY <2>1 DEF McGood, RoundStands, At, Reading, Desired
  <2>3. Changed(chg, j, rt.base)
    BY <2>1, <2>2 DEF McGood, RoundStands, At, Reading
  <2> QED BY <2>3 DEF Changed
<1> QED BY <1>2, <1>3

\* A new session of the same process, or of a device that restarted without instances.
LEMMA ReconnectKeeps ==
  ASSUME NEW chg \in Histories, McGood(chg), Reconnect
  PROVE  McGood(chg)'
<1> USE McAssumption
<1>1. /\ hb' = Running(core') /\ failed' = {}
      /\ notified' = TRUE /\ cache' = NewCache /\ round' = Idle /\ UNCHANGED <<rows, rev, hints, direct>>
      /\ \/ core' \in {core, AfterRpc} /\ rt' = rt
         \/ core' = [i \in Insts |-> Absent] /\ rt' = NewRuntimeState
  BY DEF Reconnect, Env
<1>2. core' \in [Insts -> Nat] /\ rt' \in States
  BY <1>1, RpcReach, FixedRecords DEF McGood, McTables, Absent
<1>3. McTables'
  <2>1. hb' \subseteq Insts /\ failed' \subseteq Insts /\ cache' \in Caches /\ round' \in Rounds
    BY <1>1, FixedRecords DEF Running
  <2>2. notified' \in BOOLEAN
    BY <1>1, Zenon
  <2> QED BY <1>1, <1>2, <2>1, <2>2 DEF McGood, McTables
<1>4. Published(chg)'
  <2>1. Informed(chg, rt)'
    <3>1. rev \in Nat
      BY DEF McGood, McTables
    <3> QED BY <1>1, <3>1, FixedRecords DEF McGood, Published, Informed
  <2> QED BY <1>1, <2>1 DEF McGood, Published
<1>5. BaseHolds(chg)'
  <2>1. CASE rt' = rt
    BY <1>1, <2>1, RpcKeepsBase, FixedRecords DEF BaseHolds
  <2>2. CASE rt' = NewRuntimeState
    BY <2>2, FixedRecords DEF BaseHolds
  <2> QED BY <1>1, <2>1, <2>2
<1>6. CacheHolds'
  <2>1. cache'.cacheEpoch <= rt'.cacheEpoch
    <3>1. rt'.cacheEpoch \in Nat
      BY <1>2 DEF States
    <3> QED BY <1>1, <3>1, FixedRecords
  <2>2. \A i \in Insts : cache'.entries[i] = Absent
    BY <1>1, FixedRecords
  <2> QED BY <1>1, <2>1, <2>2, RoundOver DEF CacheHolds
<1> QED BY <1>1, <1>3, <1>4, <1>5, <1>6, RoundOver DEF McGood

\* The types after a step of a round.
LEMMA RoundTables ==
  ASSUME McTables, rt' \in States, round' \in Rounds, cache' \in Caches, core' \in [Insts -> Nat],
         failed' \subseteq Insts, notified' \in BOOLEAN, UNCHANGED <<Env, hb>>
  PROVE  McTables'
BY Zenon DEF McTables, Env

\* What the state knows after a step that takes the applied revision or the base back, or not.
LEMMA StillPublished ==
  ASSUME NEW chg \in Histories, McGood(chg), UNCHANGED <<rev, hints>>, rt'.pending = rt.pending,
         rt'.base \in {rt.base, 0}, rt'.applied # 0 => rt'.base = rt'.applied
  PROVE  Published(chg)'
<1>1. rev \in Nat
  BY DEF McGood, McTables
<1> QED BY <1>1 DEF McGood, Published, Informed

\* The cache after a step that forgets entries or stops instances.
LEMMA CacheStillHolds ==
  ASSUME NEW chg \in Histories, McGood(chg), cache'.cacheEpoch = cache.cacheEpoch,
         rt'.cacheEpoch = rt.cacheEpoch, rt'.epoch = rt.epoch, UNCHANGED direct,
         At("idle")' \/ (~At("idle") /\ round'.snap.epoch = round.snap.epoch),
         \A i \in Insts : cache'.entries[i] = Absent \/ core'[i] \in {Absent, cache'.entries[i]}
                          \/ (cache'.entries[i] = cache.entries[i] /\ core'[i] \in {core[i], Absent})
  PROVE  CacheHolds'
BY DEF McGood, CacheHolds, Current

\* A round begins with a copy of the runtime state.
LEMMA StartKeeps ==
  ASSUME NEW chg \in Histories, McGood(chg), StartRound
  PROVE  McGood(chg)'
<1> USE McAssumption
<1>1. /\ notified' = FALSE /\ UNCHANGED <<Env, rt, core, hb, failed>>
      /\ round' = [Idle EXCEPT !.at = "rev", !.snap = rt, !.running = hb \ failed]
      /\ cache' = IF cache.cacheEpoch = rt.cacheEpoch THEN cache
                  ELSE [NewCache EXCEPT !.cacheEpoch = rt.cacheEpoch]
  BY DEF StartRound
<1>2. rt \in States /\ cache \in Caches /\ McTables /\ hb \ failed \in SUBSET Insts
  BY DEF McGood, McTables
<1>3. /\ round' \in Rounds /\ round'.at = "rev" /\ round'.snap = rt /\ round'.act = "none"
      /\ round'.fenced = FALSE
  <2>1. Idle \in Rounds /\ Idle.act = "none" /\ Idle.fenced = FALSE
    BY FixedRecords, Zenon DEF Idle
  <2> DEFINE s == hb \ failed
  <2> HIDE DEF s
  <2>2. /\ [Idle EXCEPT !.at = "rev", !.snap = rt, !.running = s] \in Rounds
        /\ [Idle EXCEPT !.at = "rev", !.snap = rt, !.running = s].at = "rev"
        /\ [Idle EXCEPT !.at = "rev", !.snap = rt, !.running = s].snap = rt
        /\ [Idle EXCEPT !.at = "rev", !.snap = rt, !.running = s].act = "none"
        /\ [Idle EXCEPT !.at = "rev", !.snap = rt, !.running = s].fenced = FALSE
    <3>1. s \in SUBSET Insts
      BY <1>2 DEF s
    <3> QED BY <1>2, <2>1, <3>1, Zenon DEF Rounds
  <2> QED BY <1>1, <2>2 DEF s
<1>4. /\ cache' \in Caches /\ cache'.cacheEpoch = rt.cacheEpoch
      /\ cache' = cache \/ \A i \in Insts : cache'.entries[i] = Absent
  <2>1. rt.cacheEpoch \in Nat
    BY <1>2 DEF States
  <2>2. /\ [NewCache EXCEPT !.cacheEpoch = rt.cacheEpoch] \in Caches
        /\ [NewCache EXCEPT !.cacheEpoch = rt.cacheEpoch].cacheEpoch = rt.cacheEpoch
        /\ [NewCache EXCEPT !.cacheEpoch = rt.cacheEpoch].entries = [i \in Insts |-> Absent]
    BY <2>1, FixedRecords DEF Caches
  <2> QED BY <1>1, <1>2, <2>2
<1>5. McTables'
  <2>1. notified' \in BOOLEAN
    BY <1>1, Zenon
  <2>2. core \in [Insts -> Nat] /\ failed \subseteq Insts
    BY <1>2 DEF McTables
  <2> QED BY <1>1, <1>2, <1>3, <1>4, <2>1, <2>2, RoundTables
<1>6. Published(chg)' /\ BaseHolds(chg)'
  BY <1>1 DEF McGood, Published, Informed, BaseHolds, Agrees, Changed, Env
<1>7. RoundStands(chg)'
  <2>1. rt.epoch <= rt.epoch
    BY <1>2 DEF States
  <2>2. Informed(chg, round.snap)'
    BY <1>1, <1>3 DEF McGood, Published, Informed, Env
  <2> QED BY <1>1, <1>3, <2>1, <2>2 DEF RoundStands, At, Reading
<1>8. RoundHolds(chg)'
  BY <1>3 DEF RoundHolds, Reading
<1>9. CacheHolds'
  <2>1. rt.cacheEpoch <= rt.cacheEpoch
    BY <1>2 DEF States
  <2>2. CASE cache' = cache
    BY <1>1, <1>4, <2>1, <2>2, Zenon DEF McGood, CacheHolds, Env
  <2>3. CASE \A i \in Insts : cache'.entries[i] = Absent
    BY <1>1, <1>4, <2>1, <2>3 DEF CacheHolds
  <2> QED BY <1>4, <2>2, <2>3
<1> QED BY <1>5, <1>6, <1>7, <1>8, <1>9 DEF McGood

\* The revision is read, and the round decides between a patch and everything.
LEMMA ReadRevisionKeeps ==
  ASSUME NEW chg \in Histories, McGood(chg), ReadRevision
  PROVE  McGood(chg)'
<1> USE McAssumption
<1> DEFINE apply == rev # round.snap.applied
           patch == apply /\ PatchOnly(round.snap, rev)
           ids == IF patch THEN round.snap.pending.ids ELSE Insts
           snap == [NewRuntimeState EXCEPT !.epoch = round.snap.epoch]
           new == [round EXCEPT !.at = "list", !.target = rev, !.apply = apply, !.full = ~patch,
                                !.ids = ids, !.snap = snap]
<1>1. /\ At("rev") /\ round' = new /\ UNCHANGED <<Env, rt, core, hb, failed, notified, cache>>
  BY DEF ReadRevision
<1>2. /\ McTables /\ round \in Rounds /\ round.snap \in States /\ round.snap.pending \in HintRecords
      /\ rev \in Nat \ {0} /\ rt \in States
  BY DEF McGood, McTables, Rounds, States
<1>3. ids \in SUBSET Insts /\ apply \in BOOLEAN /\ patch \in BOOLEAN /\ (~patch) \in BOOLEAN
  <2>1. ids \in SUBSET Insts
    BY <1>2 DEF HintRecords
  <2>2. apply \in BOOLEAN
    BY Zenon
  <2>3. patch \in BOOLEAN
    BY Zenon DEF PatchOnly
  <2> HIDE DEF ids, apply, patch
  <2>4. (~patch) \in BOOLEAN
    BY <2>3, Zenon
  <2> QED BY <2>1, <2>2, <2>3, <2>4
<1>4. snap \in States /\ snap.epoch = round.snap.epoch
  BY <1>2, FixedRecords DEF States
<1>5. /\ new \in Rounds /\ new.at = "list" /\ new.target = rev /\ new.apply = apply
      /\ new.full = ~patch /\ new.ids = ids /\ new.snap.epoch = round.snap.epoch
      /\ new.fenced = round.fenced /\ new.act = round.act
  <2> DEFINE full == ~patch
  <2> HIDE DEF ids, apply, full, snap
  <2>1. full \in BOOLEAN
    BY <1>3 DEF full
  <2>2. new = [round EXCEPT !.at = "list", !.target = rev, !.apply = apply, !.full = full,
                            !.ids = ids, !.snap = snap]
    BY DEF full
  <2> HIDE DEF new
  <2>4. rev \in Nat
    BY <1>2
  <2>5. /\ new.at = "list" /\ new.target = rev /\ new.apply = apply
        /\ new.full = full /\ new.ids = ids /\ new.snap = snap
        /\ new.fenced = round.fenced /\ new.act = round.act
    BY <1>2, <2>2 DEF Rounds
  <2>6. new \in Rounds
    BY <1>2, <1>3, <1>4, <2>1, <2>2, <2>4, ZenonT(30) DEF Rounds
  <2>3. /\ new \in Rounds /\ new.at = "list" /\ new.target = rev /\ new.apply = apply
        /\ new.full = full /\ new.ids = ids /\ new.snap = snap
        /\ new.fenced = round.fenced /\ new.act = round.act
    BY <2>5, <2>6
  <2> QED BY <1>4, <2>3 DEF full
<1> HIDE DEF new, snap
<1>6. /\ RoundStands(chg) /\ Informed(chg, round.snap) /\ ~round.fenced /\ round.act = "none"
      /\ rt.base \in {0, round.snap.base} /\ (Current => rt = round.snap)
      /\ round.snap.epoch <= rt.epoch
  BY <1>1 DEF McGood, RoundStands, At
<1>7. patch => /\ round.snap.pending.exp = round.snap.base /\ round.snap.base # 0
               /\ \A i \in Insts : i \in ids <=> Changed(chg, i, round.snap.base)
  BY <1>6 DEF PatchOnly, Informed, Changed
<1>8. McTables'
  BY <1>1, <1>2, <1>5, RoundTables DEF McTables
<1>9. Published(chg)' /\ BaseHolds(chg)'
  BY <1>1, Zenon DEF McGood, Published, Informed, BaseHolds, Agrees, Changed, Env
<1>10. RoundStands(chg)'
  <2>2. ~patch => ids = Insts
    OBVIOUS
  <2>3. ~apply => ~patch
    OBVIOUS
  <2>4. patch /\ rt.base # 0 => \A i \in ids : Changed(chg, i, rt.base)'
    BY <1>1, <1>3, <1>6, <1>7 DEF Changed, Env
  <2>5. 1 <= rev /\ rev <= rev
    BY <1>2
  <2> HIDE DEF ids, patch, apply
  <2> QED BY <1>1, <1>5, <1>6, <2>2, <2>3, <2>4, <2>5, Zenon DEF RoundStands, At, Reading, Env
<1>11. RoundHolds(chg)'
  <2> SUFFICES ASSUME Current', direct'.at = "none" PROVE RoundHolds(chg)'
    BY DEF RoundHolds
  <2>1. rt = round.snap /\ direct.at = "none"
    BY <1>1, <1>5, <1>6 DEF Current, Env
  <2>2. rt.base # 0 => \A i \in Insts : Agrees(i) \/ Changed(chg, i, rt.base)
    BY <2>1, Zenon DEF McGood, BaseHolds
  <2>3. ASSUME NEW i \in Insts, i \notin ids \/ ~apply
        PROVE  Agrees(i) \/ Changed(chg, i, rev)
    <3>1. CASE ~apply
      <4>1. rt.applied = rev /\ rt.base = rev /\ rev # 0
        BY <1>2, <1>6, <2>1, <3>1 DEF Informed
      <4> QED BY <2>2, <4>1
    <3>2. CASE i \notin ids
      <4>1. patch
        BY <3>2
      <4>2. ~Changed(chg, i, rt.base) /\ rt.base # 0
        BY <1>7, <2>1, <3>2, <4>1
      <4> QED BY <2>2, <4>2
    <3> QED BY <2>3, <3>1, <3>2
  <2>4. \A i \in Insts : i \notin round'.ids \/ ~round'.apply => (Agrees(i) \/ Changed(chg, i, round.target))'
    <3> HIDE DEF ids, apply
    <3> QED BY <1>1, <1>5, <2>3 DEF Agrees, Changed, Env
  <2>5. Loaded' = {}
    BY <1>1, <1>5 DEF Loaded, At
  <2> QED BY <1>1, <1>5, <2>4, <2>5 DEF RoundHolds
<1>12. CacheHolds'
  BY <1>1, <1>5 DEF McGood, CacheHolds, At, Current, Env
<1> QED BY <1>8, <1>9, <1>10, <1>11, <1>12 DEF McGood

\* A round that reads: what it has loaded agrees with the rows, and nothing else changed.
LEMMA ReadingGoesOn ==
  ASSUME NEW chg \in Histories, McGood(chg), UNCHANGED <<Env, rt, core, hb, failed, notified, cache>>,
         round.at \in {"list", "load", "sync"}, round' \in Rounds, round'.at \in {"load", "sync", "clean"},
         round'.snap = round.snap, round'.target = round.target, round'.apply = round.apply,
         round'.full = round.full, round'.ids = round.ids, round'.fenced = round.fenced,
         round'.act = round.act,
         round'.at = "load" => round'.todo \subseteq round.ids /\ (round.full => round'.todo = round.ids),
         \A i \in Loaded' : (i \in Loaded /\ round'.want[i] = round.want[i]) \/ round'.want[i] = rows[i]
  PROVE  McGood(chg)'
<1>1. McTables'
  BY RoundTables, Zenon DEF McGood, McTables
<1>2. Published(chg)' /\ BaseHolds(chg)'
  BY ZenonT(30) DEF McGood, Published, Informed, BaseHolds, Agrees, Changed, Env
<1>3. round.act = "none"
  BY Zenon DEF McGood, RoundStands, At
<1>4. RoundStands(chg)'
  BY <1>3 DEF McGood, RoundStands, At, Reading, Current, Changed, Env
<1>5. RoundHolds(chg)'
  <2> SUFFICES ASSUME Current', direct'.at = "none" PROVE RoundHolds(chg)'
    BY DEF RoundHolds
  <2>1. Current /\ direct.at = "none" /\ round.at \notin Reading
    BY DEF Current, Env, Reading
  <2>2. \A i \in Insts : i \notin round'.ids \/ ~round'.apply => (Agrees(i) \/ Changed(chg, i, round.target))'
    BY <2>1 DEF McGood, RoundHolds, Agrees, Changed, Env
  <2>3. \A i \in Loaded' : (round.want[i] = rows[i] \/ Changed(chg, i, round.target))'
    BY <2>1 DEF McGood, RoundHolds, Changed, Env
  <2> QED BY <2>2, <2>3, Zenon DEF RoundHolds
<1>6. CacheHolds'
  BY DEF McGood, CacheHolds, At, Current, Env
<1> QED BY <1>1, <1>2, <1>4, <1>5, <1>6 DEF McGood

\* The device is asked which instances run, or the question fails.
LEMMA ListKeeps ==
  ASSUME NEW chg \in Histories, McGood(chg), ListRunning \/ ListFails
  PROVE  McGood(chg)'
<1>0. /\ round \in Rounds /\ round.ids \in SUBSET Insts /\ McTables
      /\ Running(core) \ failed \in SUBSET Insts /\ round.running \in SUBSET Insts
  BY ZenonT(30) DEF McGood, McTables, Rounds, Running
<1>1. CASE ListRunning
  <2> DEFINE running == IF round.apply THEN Running(core) \ failed ELSE round.running
             new == [round EXCEPT !.at = "load", !.todo = round.ids, !.running = running]
  <2>1. /\ round.at = "list" /\ round' = new /\ UNCHANGED <<Env, rt, core, hb, failed, notified, cache>>
    BY <1>1 DEF ListRunning, At
  <2>2. running \in SUBSET Insts
    BY <1>0
  <2> HIDE DEF running
  <2>3. /\ new \in Rounds /\ new.at = "load" /\ new.todo = round.ids /\ new.ids = round.ids
        /\ new.snap = round.snap /\ new.target = round.target /\ new.apply = round.apply
        /\ new.full = round.full /\ new.fenced = round.fenced /\ new.act = round.act
    BY <1>0, <2>2, Zenon DEF Rounds
  <2> HIDE DEF new
  <2>4. Loaded' = {}
    BY <2>1, <2>3 DEF Loaded, At
  <2> QED BY <2>1, <2>3, <2>4, ReadingGoesOn
<1>2. CASE ListFails
  <2>1. /\ round' = Idle /\ UNCHANGED <<Env, rt, core, hb, failed, notified, cache>>
    BY <1>2 DEF ListFails
  <2>2. McTables'
    BY <1>0, <2>1, RoundTables, FixedRecords DEF McTables
  <2>3. Published(chg)' /\ BaseHolds(chg)'
    BY <2>1, Zenon DEF McGood, Published, Informed, BaseHolds, Agrees, Changed, Env
  <2>4. CacheHolds'
    BY <2>1, RoundOver, Zenon DEF McGood, CacheHolds, Env
  <2> QED BY <2>1, <2>2, <2>3, <2>4, RoundOver DEF McGood
<1> QED BY <1>1, <1>2

\* The rows of the round are read, one by one or all together.
LEMMA LoadKeeps ==
  ASSUME NEW chg \in Histories, McGood(chg), LoadRows
  PROVE  McGood(chg)'
<1> DEFINE read == IF round.full THEN round.todo ELSE {Min(round.todo)}
           want == [i \in Insts |-> IF i \in read THEN rows[i] ELSE round.want[i]]
           todo == round.todo \ read
           at == IF todo = {} THEN "sync" ELSE "load"
           del == IF round.full THEN {} ELSE {i \in round.ids : want[i] = Absent}
           new == [round EXCEPT !.want = want, !.todo = todo, !.at = at, !.del = del]
<1>1. /\ round.at = "load" /\ round' = new /\ UNCHANGED <<Env, rt, core, hb, failed, notified, cache>>
  BY DEF LoadRows, At
<1>2. /\ round \in Rounds /\ round.ids \in SUBSET Insts /\ round.todo \in SUBSET Insts
      /\ rows \in [Insts -> Nat] /\ round.want \in [Insts -> Nat] /\ RoundStands(chg)
  BY DEF McGood, McTables, Rounds
<1>3. /\ want \in [Insts -> Nat] /\ \A i \in Insts : want[i] = IF i \in read THEN rows[i] ELSE round.want[i]
  BY <1>2
<1>4. todo \in SUBSET Insts /\ todo \subseteq round.todo /\ (round.full => todo = {})
  BY <1>2
<1>5. at \in {"load", "sync"} /\ (at = "sync" <=> todo = {}) /\ at # "list"
  OBVIOUS
<1>6. del \in SUBSET Insts
  BY <1>2
<1>7. round.todo \subseteq round.ids
  BY <1>1, <1>2 DEF RoundStands, At, Reading
<1>8. \A i \in round.ids \ todo : i \in round.ids \ round.todo \/ i \in read
  OBVIOUS
<1> HIDE DEF want, todo, at, del, read
<1>9. /\ new.at = at /\ new.todo = todo /\ new.ids = round.ids /\ new.want = want
      /\ new.snap = round.snap /\ new.target = round.target /\ new.apply = round.apply
      /\ new.full = round.full /\ new.fenced = round.fenced /\ new.act = round.act
  BY <1>2 DEF Rounds
<1>10. new \in Rounds
  BY <1>2, <1>3, <1>4, <1>5, <1>6, Zenon DEF Rounds
<1> HIDE DEF new
<1>11. Loaded' = round.ids \ todo /\ Loaded = round.ids \ round.todo
  BY <1>1, <1>5, <1>9 DEF Loaded, At
<1>12. \A i \in Loaded' : (i \in Loaded /\ round'.want[i] = round.want[i]) \/ round'.want[i] = rows[i]
  BY <1>1, <1>2, <1>3, <1>8, <1>9, <1>11
<1>13. round'.at = "load" => round'.todo \subseteq round.ids /\ (round.full => round'.todo = round.ids)
  BY <1>1, <1>4, <1>5, <1>7, <1>9
<1>14. round' \in Rounds /\ round'.at \in {"load", "sync", "clean"}
  BY <1>1, <1>5, <1>9, <1>10
<1> QED BY <1>1, <1>9, <1>12, <1>13, <1>14, ReadingGoesOn, Zenon

\* The device names its running instances; a Full round reads its rows again, or goes on
\* without the list.
LEMMA SyncKeeps ==
  ASSUME NEW chg \in Histories, McGood(chg), SyncSources
  PROVE  McGood(chg)'
<1>1. /\ round.at = "sync" /\ UNCHANGED <<Env, rt, core, hb, failed, notified, cache>>
  BY DEF SyncSources, At
<1>2. /\ round \in Rounds /\ round.ids \in SUBSET Insts /\ round.running \in SUBSET Insts
      /\ rows \in [Insts -> Nat] /\ round.want \in [Insts -> Nat]
  BY DEF McGood, McTables, Rounds
<1> DEFINE metas == round.running \cap Running(core)
           want == IF round.full /\ metas # {} THEN rows ELSE round.want
           new == [round EXCEPT !.at = "clean", !.listed = TRUE, !.metas = metas, !.want = want]
           old == [round EXCEPT !.at = "clean"]
<1>3. round' \in {new, old}
  BY DEF SyncSources
<1>4. metas \in SUBSET Insts /\ want \in {rows, round.want} /\ want \in [Insts -> Nat]
  BY <1>2
<1> HIDE DEF metas, want
<1>5. /\ new \in Rounds /\ new.at = "clean" /\ new.ids = round.ids /\ new.want = want
      /\ new.snap = round.snap /\ new.target = round.target /\ new.apply = round.apply
      /\ new.full = round.full /\ new.fenced = round.fenced /\ new.act = round.act
  <2>1. TRUE \in BOOLEAN
    OBVIOUS
  <2> QED BY <1>2, <1>4, <2>1, Zenon DEF Rounds
<1>6. /\ old \in Rounds /\ old.at = "clean" /\ old.ids = round.ids /\ old.want = round.want
      /\ old.snap = round.snap /\ old.target = round.target /\ old.apply = round.apply
      /\ old.full = round.full /\ old.fenced = round.fenced /\ old.act = round.act
  BY <1>2 DEF Rounds
<1> HIDE DEF new, old
<1>7. /\ round' \in Rounds /\ round'.at = "clean" /\ round'.ids = round.ids
      /\ round'.want \in {rows, round.want}
      /\ round'.snap = round.snap /\ round'.target = round.target /\ round'.apply = round.apply
      /\ round'.full = round.full /\ round'.fenced = round.fenced /\ round'.act = round.act
  BY <1>3, <1>4, <1>5, <1>6
<1>8. Loaded' = Loaded
  BY <1>1, <1>7 DEF Loaded, At
<1>9. \A i \in Loaded' : (i \in Loaded /\ round'.want[i] = round.want[i]) \/ round'.want[i] = rows[i]
  BY <1>7, <1>8
<1> QED BY <1>1, <1>7, <1>9, ReadingGoesOn

-----------------------------------------------------------------------------

\* A round that changes the device: the RPC under way leaves each instance alone, stops it,
\* or gives it the row that was read.
LEMMA RoundGoesOn ==
  ASSUME NEW chg \in Histories, McGood(chg), UNCHANGED Env,
         round.at \in {"clean", "each", "rpc"}, round' \in Rounds, round'.at \in {"each", "rpc", "mark"},
         round'.snap = round.snap, round'.target = round.target, round'.apply = round.apply,
         round'.full = round.full, round'.ids = round.ids, round'.want = round.want,
         round'.act # "none" => round'.at = "rpc",
         round'.at = "rpc" => round'.fenced /\ (round'.act = "delete" \/ round'.todo # {}),
         round'.fenced /\ round.full => rt'.base = 0,
         round'.todo \subseteq Desired,
         round'.at = "mark" => round'.todo = {} /\ ~round'.bad,
         rt'.epoch = rt.epoch, rt'.base \in {rt.base, 0},
         \A j \in Insts : core'[j] \in {core[j], Absent} \/ (j \in Desired /\ core'[j] = round.want[j]),
         Current /\ direct.at = "none" /\ round.apply /\ ~round'.bad =>
           \A i \in Desired \ round'.todo : core'[i] \in {Absent, round.want[i]}
  PROVE  RoundStands(chg)' /\ RoundHolds(chg)'
<1>1. round.at \notin Reading /\ Loaded = round.ids /\ Loaded' = round.ids /\ Desired' = Desired
      /\ Current' = Current /\ Desired \subseteq round.ids /\ round.ids \subseteq Insts
  BY DEF Reading, Loaded, At, Desired, Current, McGood, McTables, Rounds
<1>2. RoundStands(chg)'
  <2>1. ~round.full /\ rt'.base # 0 => \A i \in round.ids : Changed(chg, i, rt.base)'
    BY <1>1 DEF McGood, RoundStands, Changed, Env
  <2> QED BY <1>1, <2>1, Zenon DEF McGood, RoundStands, At, Reading, Env
<1>3. RoundHolds(chg)'
  <2> SUFFICES ASSUME Current, direct.at = "none" PROVE RoundHolds(chg)'
    BY <1>1, ZenonT(30) DEF RoundHolds, Env
  <2>1. \A i \in round.ids : round.want[i] = rows[i] \/ Changed(chg, i, round.target)
    BY <1>1 DEF McGood, RoundHolds
  <2>2. ASSUME NEW i \in Insts, i \notin round.ids \/ ~round.apply
        PROVE  (Agrees(i) \/ Changed(chg, i, round.target))'
    <3>1. Agrees(i) \/ Changed(chg, i, round.target)
      BY <1>1, <2>2 DEF McGood, RoundHolds
    <3>2. CASE core'[i] \in {core[i], Absent}
      BY <3>1, <3>2 DEF Agrees, Changed, Env
    <3>3. CASE i \in Desired /\ core'[i] = round.want[i]
      BY <1>1, <2>1, <3>3 DEF Agrees, Changed, Env
    <3> QED BY <3>2, <3>3, Zenon
  <2>3. \A i \in Loaded' : (round.want[i] = rows[i] \/ Changed(chg, i, round.target))'
    BY <1>1, <2>1 DEF Changed, Env
  <2> QED BY <1>1, <2>2, <2>3, Zenon DEF RoundHolds
<1> QED BY <1>2, <1>3

\* What beginning to change the device leaves of the runtime state.
LEMMA BegunFacts ==
  ASSUME NEW chg \in Histories, McGood(chg), round.at \notin Reading
  PROVE  /\ Begun \in States /\ Begun.epoch = rt.epoch /\ Begun.cacheEpoch = rt.cacheEpoch
         /\ Begun.pending = rt.pending /\ Begun.base \in {rt.base, 0}
         /\ Begun.applied # 0 => Begun.base = Begun.applied
         /\ round.full => Begun.base = 0
<1>1. rt \in States /\ (rt.applied # 0 => rt.base = rt.applied)
  BY DEF McGood, McTables, Published, Informed
<1>2. CASE round.fenced
  <2>1. Begun = rt /\ (round.full => rt.base = 0)
    BY <1>2 DEF Begun, McGood, RoundStands
  <2> QED BY <1>1, <2>1
<1>3. CASE ~round.fenced
  <2> DEFINE b == IF round.full THEN 0 ELSE rt.base
             r == [rt EXCEPT !.applied = 0, !.base = b]
  <2>1. Begun = r
    BY <1>3 DEF Begun
  <2>2. b \in Nat /\ b \in {rt.base, 0} /\ (round.full => b = 0)
    BY <1>1 DEF States
  <2> HIDE DEF b
  <2>3. /\ r \in States /\ r.epoch = rt.epoch /\ r.cacheEpoch = rt.cacheEpoch
        /\ r.pending = rt.pending /\ r.base = b /\ r.applied = 0
    BY <1>1, <2>2, Zenon DEF States
  <2> QED BY <2>1, <2>2, <2>3
<1> QED BY <1>2, <1>3

\* The cache without one instance.
LEMMA ForgetFacts ==
  ASSUME NEW c \in Caches, NEW S
  PROVE  /\ Forget(c, S) \in Caches /\ Forget(c, S).cacheEpoch = c.cacheEpoch
         /\ \A i \in Insts : Forget(c, S).entries[i] = IF i \in S THEN Absent ELSE c.entries[i]
<1> DEFINE e == [i \in Insts |-> IF i \in S THEN Absent ELSE c.entries[i]]
<1>1. e \in [Insts -> Nat] /\ \A i \in Insts : e[i] = IF i \in S THEN Absent ELSE c.entries[i]
  BY DEF Caches, Absent
<1>2. Forget(c, S) = [c EXCEPT !.entries = e]
  BY DEF Forget, Caches
<1> HIDE DEF e
<1>3. [c EXCEPT !.entries = e] \in Caches /\ [c EXCEPT !.entries = e].cacheEpoch = c.cacheEpoch
      /\ [c EXCEPT !.entries = e].entries = e
  BY <1>1 DEF Caches
<1> QED BY <1>1, <1>2, <1>3

\* The cache after stale instances were removed.
LEMMA CleanedFacts ==
  ASSUME NEW c \in Caches, round \in Rounds
  PROVE  Cleaned(c) \in Caches /\ Cleaned(c).cacheEpoch = c.cacheEpoch /\ Cleaned(c).entries = c.entries
<1>1. Desired \in SUBSET Insts
  BY DEF Desired, Rounds
<1>2. TRUE \in BOOLEAN
  OBVIOUS
<1> QED BY <1>1, <1>2, Zenon DEF Cleaned, Caches

\* The cache with what one instance was seen to run.
LEMMA RememberFacts ==
  ASSUME NEW c \in Caches, NEW i \in Insts, NEW v \in Nat
  PROVE  /\ Remember(c, i, v) \in Caches /\ Remember(c, i, v).cacheEpoch = c.cacheEpoch
         /\ \A j \in Insts : Remember(c, i, v).entries[j] = IF j = i THEN v ELSE c.entries[j]
<1> DEFINE e == [c.entries EXCEPT ![i] = v]
<1>1. e \in [Insts -> Nat] /\ \A j \in Insts : e[j] = IF j = i THEN v ELSE c.entries[j]
  BY DEF Caches
<1>2. Remember(c, i, v) = [c EXCEPT !.entries = e]
  BY DEF Remember
<1> HIDE DEF e
<1>3. [c EXCEPT !.entries = e] \in Caches /\ [c EXCEPT !.entries = e].cacheEpoch = c.cacheEpoch
      /\ [c EXCEPT !.entries = e].entries = e
  BY <1>1 DEF Caches
<1> QED BY <1>1, <1>2, <1>3

\* The round after it is done with one instance, successfully, not, or with all of them.
Stopped1(r, i) == [Failed1(r, i) EXCEPT !.todo = {}]

\* Going on to the next instance keeps what the round has read, and remembers a failure.
LEMMA NextFacts ==
  ASSUME round \in Rounds, NEW i, NEW r, r \in {Next1(round, i), Failed1(round, i), Stopped1(round, i)}
  PROVE  /\ r \in Rounds /\ r.at = "each" /\ r.act = "none" /\ r.todo \subseteq round.todo \ {i}
         /\ r.fenced = round.fenced /\ r.snap = round.snap /\ r.target = round.target
         /\ r.apply = round.apply /\ r.full = round.full /\ r.ids = round.ids /\ r.want = round.want
         /\ r = Next1(round, i) => r.bad = round.bad /\ r.todo = round.todo \ {i}
         /\ r \in {Failed1(round, i), Stopped1(round, i)} => r.bad
<1> DEFINE todo == round.todo \ {i}
           n == [round EXCEPT !.at = "each", !.act = "none", !.del = {}, !.todo = todo]
<1>1. Next1(round, i) = n
  BY DEF Next1
<1>2. todo \in SUBSET Insts /\ {} \in SUBSET Insts
  BY DEF Rounds
<1> HIDE DEF todo
<1>3. /\ n \in Rounds /\ n.at = "each" /\ n.act = "none" /\ n.todo = todo /\ n.bad = round.bad
      /\ n.fenced = round.fenced /\ n.snap = round.snap /\ n.target = round.target
      /\ n.apply = round.apply /\ n.full = round.full /\ n.ids = round.ids /\ n.want = round.want
  BY <1>2, Zenon DEF Rounds
<1> HIDE DEF n
<1> DEFINE f == [n EXCEPT !.bad = TRUE]
           g == [f EXCEPT !.todo = {}]
<1>4. Failed1(round, i) = f
  BY <1>1 DEF Failed1
<1>5. TRUE \in BOOLEAN
  OBVIOUS
<1>6. /\ f \in Rounds /\ f.at = "each" /\ f.act = "none" /\ f.todo = todo /\ f.bad = TRUE
      /\ f.fenced = n.fenced /\ f.snap = n.snap /\ f.target = n.target
      /\ f.apply = n.apply /\ f.full = n.full /\ f.ids = n.ids /\ f.want = n.want
  BY <1>3, <1>5, Zenon DEF Rounds
<1> HIDE DEF f
<1>7. /\ g \in Rounds /\ g.at = "each" /\ g.act = "none" /\ g.todo = {} /\ g.bad = TRUE
      /\ g.fenced = f.fenced /\ g.snap = f.snap /\ g.target = f.target
      /\ g.apply = f.apply /\ g.full = f.full /\ g.ids = f.ids /\ g.want = f.want
  BY <1>2, <1>6 DEF Rounds
<1> HIDE DEF g
<1>8. r \in {n, f, g} /\ Stopped1(round, i) = g
  BY <1>1, <1>4 DEF g, Stopped1
<1> QED BY <1>1, <1>3, <1>4, <1>6, <1>7, <1>8 DEF todo

\* A visit that fails, or that stops the round, marks the round as bad.
LEMMA FailedIsBad ==
  ASSUME round \in Rounds, NEW i, NEW r, r \in {Failed1(round, i), Stopped1(round, i)}
  PROVE  r.bad
<1> DEFINE n == Next1(round, i)
           f == Failed1(round, i)
<1>1. n \in Rounds
  BY NextFacts, Zenon
<1>2. f \in Rounds
  BY NextFacts, Zenon
<1>3. f = [n EXCEPT !.bad = TRUE] /\ Stopped1(round, i) = [f EXCEPT !.todo = {}]
  BY DEF Failed1, Stopped1
<1> HIDE DEF n, f
<1>4. f.bad = TRUE
  BY <1>1, <1>3, Zenon DEF Rounds
<1>5. Stopped1(round, i).bad = TRUE
  BY <1>2, <1>3, <1>4, Zenon DEF Rounds
<1>6. r = f \/ r = Stopped1(round, i)
  BY DEF f
<1> QED BY <1>4, <1>5, <1>6, Zenon

\* Instances that should not run are found, and an RPC removes them behind the fence.
LEMMA CleanKeeps ==
  ASSUME NEW chg \in Histories, McGood(chg), Clean
  PROVE  McGood(chg)'
<1>0. /\ round \in Rounds /\ cache \in Caches /\ McTables /\ core \in [Insts -> Nat] /\ rt \in States
      /\ Desired \in SUBSET Insts /\ failed \subseteq Insts /\ notified \in BOOLEAN
      /\ round.at = "clean" /\ round.at \notin Reading /\ round.act = "none"
      /\ UNCHANGED <<Env, core, hb, notified>>
  BY DEF Clean, At, McGood, McTables, Desired, Rounds, Reading, RoundStands
<1>1. CASE ~Current
  <2>1. round' = Idle /\ UNCHANGED <<failed, rt, cache>>
    BY <1>1 DEF Clean
  <2>2. McTables'
    BY <1>0, <2>1, RoundTables, FixedRecords
  <2>3. Published(chg)' /\ BaseHolds(chg)'
    BY <1>0, <2>1 DEF McGood, Published, Informed, BaseHolds, Agrees, Changed, Env
  <2>4. CacheHolds'
    BY <1>0, <2>1, RoundOver DEF McGood, CacheHolds, Env
  <2> QED BY <2>1, <2>2, <2>3, <2>4, RoundOver DEF McGood
<1>2. CASE Current
  <2> DEFINE stop == [round EXCEPT !.at = "rpc", !.act = "delete", !.del = Stale, !.fenced = TRUE, !.todo = Desired]
             goOn == [round EXCEPT !.at = "each", !.todo = Desired]
             C1 == Forget(cache, Insts \ Desired)
             C2 == Forget(cache, round.del)
  <2>1. /\ failed' = (IF round.full THEN failed \cap Desired ELSE failed \ round.del)
        /\ \/ rt' = Begun /\ round' = stop /\ cache' \in {C1, cache}
           \/ rt' = rt /\ round' = goOn /\ cache' \in {Cleaned(C1), C2}
    <3>1. CASE Stale # {}
      BY <1>2, <3>1 DEF Clean
    <3>2. CASE Stale = {}
      BY <1>2, <3>2 DEF Clean
    <3> QED BY <3>1, <3>2
  <2>2. failed' \subseteq Insts
    BY <1>0, <2>1
  <2>3. Stale \in SUBSET Insts
    BY <1>0 DEF Stale, RunningWeb, Running, Rounds
  <2>4. TRUE \in BOOLEAN
    OBVIOUS
  <2>5. /\ stop \in Rounds /\ stop.at = "rpc" /\ stop.act = "delete" /\ stop.fenced = TRUE /\ stop.todo = Desired
        /\ stop.snap = round.snap /\ stop.target = round.target /\ stop.apply = round.apply
        /\ stop.full = round.full /\ stop.ids = round.ids /\ stop.want = round.want
    BY <1>0, <2>3, <2>4, Zenon DEF Rounds
  <2>6. /\ goOn \in Rounds /\ goOn.at = "each" /\ goOn.act = round.act /\ goOn.fenced = round.fenced
        /\ goOn.todo = Desired
        /\ goOn.snap = round.snap /\ goOn.target = round.target /\ goOn.apply = round.apply
        /\ goOn.full = round.full /\ goOn.ids = round.ids /\ goOn.want = round.want
    BY <1>0, Zenon DEF Rounds
  <2>7. /\ cache' \in Caches /\ cache'.cacheEpoch = cache.cacheEpoch
        /\ \A i \in Insts : cache'.entries[i] \in {cache.entries[i], Absent}
    <3>1. /\ C1 \in Caches /\ C1.cacheEpoch = cache.cacheEpoch
          /\ \A i \in Insts : C1.entries[i] \in {cache.entries[i], Absent}
      BY <1>0, ForgetFacts
    <3>2. /\ C2 \in Caches /\ C2.cacheEpoch = cache.cacheEpoch
          /\ \A i \in Insts : C2.entries[i] \in {cache.entries[i], Absent}
      BY <1>0, ForgetFacts
    <3> HIDE DEF C1, C2
    <3>3. /\ Cleaned(C1) \in Caches /\ Cleaned(C1).cacheEpoch = C1.cacheEpoch /\ Cleaned(C1).entries = C1.entries
      BY <1>0, <3>1, CleanedFacts
    <3> QED BY <1>0, <2>1, <3>1, <3>2, <3>3
  <2> HIDE DEF stop, goOn, C1, C2
  <2>8. /\ rt' \in States /\ rt'.epoch = rt.epoch /\ rt'.cacheEpoch = rt.cacheEpoch
        /\ rt'.pending = rt.pending /\ rt'.base \in {rt.base, 0}
        /\ (rt'.applied # 0 => rt'.base = rt'.applied)
        /\ (rt' = Begun /\ round.full => rt'.base = 0)
        /\ (round.fenced /\ round.full => rt'.base = 0)
    <3>1. (rt.applied # 0 => rt.base = rt.applied) /\ (round.fenced /\ round.full => rt.base = 0)
      BY <1>0, ZenonT(30) DEF McGood, Published, Informed, RoundStands
    <3> QED BY <1>0, <2>1, <3>1, BegunFacts, ZenonT(30)
  <2>9. /\ round' \in Rounds /\ round'.at \in {"each", "rpc"} /\ round'.todo = Desired
        /\ round'.snap = round.snap /\ round'.target = round.target /\ round'.apply = round.apply
        /\ round'.full = round.full /\ round'.ids = round.ids /\ round'.want = round.want
        /\ (round'.act # "none" => round'.at = "rpc")
        /\ (round'.at = "rpc" => round'.fenced /\ round'.act = "delete")
        /\ (round'.fenced => round.fenced \/ rt' = Begun)
    BY <1>0, <2>1, <2>5, <2>6
  <2>10. McTables'
    BY <1>0, <2>2, <2>7, <2>8, <2>9, RoundTables
  <2>11. Published(chg)'
    BY <1>0, <2>8, StillPublished DEF Env
  <2>12. BaseHolds(chg)'
    BY <1>0, <2>8 DEF McGood, BaseHolds, Agrees, Changed, Env
  <2>13. RoundStands(chg)' /\ RoundHolds(chg)'
    <3>1. round'.fenced /\ round.full => rt'.base = 0
      BY <2>8, <2>9
    <3>2. \A j \in Insts : core'[j] \in {core[j], Absent}
      BY <1>0
    <3>3. \A i \in Desired \ round'.todo : FALSE
      BY <2>9
    <3> QED BY <1>0, <2>8, <2>9, <3>1, <3>2, <3>3, RoundGoesOn
  <2>14. CacheHolds'
    <3>1. ~At("idle") /\ round'.snap.epoch = round.snap.epoch
      BY <1>0, <2>9 DEF At
    <3>2. \A i \in Insts : cache'.entries[i] = Absent
                          \/ (cache'.entries[i] = cache.entries[i] /\ core'[i] \in {core[i], Absent})
      BY <1>0, <2>7
    <3> QED BY <1>0, <2>7, <2>8, <3>1, <3>2, CacheStillHolds DEF Env
  <2> QED BY <2>10, <2>11, <2>12, <2>13, <2>14 DEF McGood
<1> QED BY <1>1, <1>2

\* The instance whose turn it is.
LEMMA TurnFacts ==
  ASSUME NEW chg \in Histories, McGood(chg), round.at \in {"each", "rpc"}, round.todo # {}
  PROVE  /\ Min(round.todo) \in round.todo /\ Min(round.todo) \in Desired /\ Min(round.todo) \in Insts
         /\ round.todo \subseteq Desired
<1> DEFINE todo == round.todo
<1>1. todo \subseteq Desired /\ todo \in SUBSET Insts
  BY DEF McGood, McTables, Rounds, RoundStands, Reading
<1> HIDE DEF todo
<1>2. todo # {} => Min(todo) \in todo
  BY <1>1, McAssumption
<1> QED BY <1>1, <1>2 DEF todo

\* One instance is visited: nothing to do, a read that fails, or an RPC behind the fence.
LEMMA EachKeeps ==
  ASSUME NEW chg \in Histories, McGood(chg), EachConfig \/ ReadFails
  PROVE  McGood(chg)'
<1> DEFINE i == Min(round.todo)
           observed == IF cache.entries[i] # Absent THEN cache.entries[i] ELSE core[i]
           sent(act) == [round EXCEPT !.at = "rpc", !.act = act, !.fenced = TRUE]
<1>0. /\ round.at = "each" /\ round.todo # {} /\ UNCHANGED <<Env, core, hb, failed, notified>>
  BY DEF EachConfig, ReadFails, At
<1>1. i \in round.todo /\ i \in Desired /\ i \in Insts /\ round.todo \subseteq Desired
  BY <1>0, TurnFacts
<1>2. /\ round \in Rounds /\ cache \in Caches /\ McTables /\ core \in [Insts -> Nat] /\ rt \in States
      /\ failed \subseteq Insts /\ notified \in BOOLEAN /\ round.at \notin Reading
      /\ cache.entries \in [Insts -> Nat]
  BY <1>0 DEF McGood, McTables, Caches, Reading
<1>3. \/ /\ round' = Next1(round, i) /\ rt' = rt /\ cache' = cache /\ ~round.apply
      \/ /\ round' = Next1(round, i) /\ rt' = rt /\ cache' = Remember(cache, i, observed)
         /\ observed = round.want[i]
      \/ /\ Current /\ rt' = Begun /\ cache' \in {cache, Forget(cache, {i})}
         /\ \E act \in {"set", "run"} : round' = sent(act)
      \/ /\ round' \in {Failed1(round, i), Stopped1(round, i)} /\ rt' = rt
         /\ cache' \in {cache, Forget(cache, {i})}
  BY DEF EachConfig, ReadFails, Stopped1
<1>4. observed \in Nat /\ observed \in {cache.entries[i], core[i]} /\ (observed # cache.entries[i] => observed = core[i])
  BY <1>1, <1>2
<1>5. /\ cache' \in Caches /\ cache'.cacheEpoch = cache.cacheEpoch
      /\ \A j \in Insts : \/ cache'.entries[j] \in {cache.entries[j], Absent}
                          \/ cache'.entries[j] = core[j]
  <2> HIDE DEF i, observed
  <2>1. /\ Forget(cache, {i}) \in Caches /\ Forget(cache, {i}).cacheEpoch = cache.cacheEpoch
        /\ \A j \in Insts : Forget(cache, {i}).entries[j] \in {cache.entries[j], Absent}
    BY <1>2, ForgetFacts
  <2>2. /\ Remember(cache, i, observed) \in Caches /\ Remember(cache, i, observed).cacheEpoch = cache.cacheEpoch
        /\ \A j \in Insts : \/ Remember(cache, i, observed).entries[j] \in {cache.entries[j], Absent}
                            \/ Remember(cache, i, observed).entries[j] = core[j]
    <3> DEFINE c == Remember(cache, i, observed)
    <3>1. /\ c \in Caches /\ c.cacheEpoch = cache.cacheEpoch
          /\ \A j \in Insts : c.entries[j] = IF j = i THEN observed ELSE cache.entries[j]
      BY <1>1, <1>2, <1>4, RememberFacts, Zenon
    <3> HIDE DEF c
    <3>2. \A j \in Insts : c.entries[j] \in {cache.entries[j], Absent} \/ c.entries[j] = core[j]
      BY <1>4, <3>1
    <3> QED BY <3>1, <3>2 DEF c
  <2> QED BY <1>2, <1>3, <2>1, <2>2, ZenonT(30)
<1>6. \A act \in {"set", "run"} :
        /\ sent(act) \in Rounds /\ sent(act).at = "rpc" /\ sent(act).act = act /\ sent(act).fenced = TRUE
        /\ sent(act).todo = round.todo /\ sent(act).bad = round.bad
        /\ sent(act).snap = round.snap /\ sent(act).target = round.target /\ sent(act).apply = round.apply
        /\ sent(act).full = round.full /\ sent(act).ids = round.ids /\ sent(act).want = round.want
  <2>1. TRUE \in BOOLEAN
    OBVIOUS
  <2> QED BY <1>2, <2>1, ZenonT(30) DEF Rounds
<1> HIDE DEF i, observed, sent
<1>7. /\ round' \in Rounds /\ round'.at \in {"each", "rpc"} /\ round'.todo \subseteq round.todo
      /\ round'.snap = round.snap /\ round'.target = round.target /\ round'.apply = round.apply
      /\ round'.full = round.full /\ round'.ids = round.ids /\ round'.want = round.want
      /\ (round'.act # "none" => round'.at = "rpc")
      /\ (round'.at = "rpc" => round'.fenced /\ round'.todo # {})
      /\ (round'.fenced => round.fenced \/ rt' = Begun)
  <2>1. CASE round' \in {Next1(round, i), Failed1(round, i), Stopped1(round, i)}
    BY <1>2, <2>1, NextFacts
  <2>2. CASE rt' = Begun /\ \E act \in {"set", "run"} : round' = sent(act)
    <3>1. PICK act \in {"set", "run"} : round' = sent(act)
      BY <2>2
    <3> QED BY <1>0, <1>6, <2>2, <3>1
  <2> QED BY <1>3, <2>1, <2>2, ZenonT(30)
<1>8. /\ rt' \in States /\ rt'.epoch = rt.epoch /\ rt'.cacheEpoch = rt.cacheEpoch
      /\ rt'.pending = rt.pending /\ rt'.base \in {rt.base, 0}
      /\ (rt'.applied # 0 => rt'.base = rt'.applied)
      /\ (round'.fenced /\ round.full => rt'.base = 0)
  <2>1. (rt.applied # 0 => rt.base = rt.applied) /\ (round.fenced /\ round.full => rt.base = 0)
    BY <1>2, ZenonT(30) DEF McGood, Published, Informed, RoundStands
  <2>2. rt' = rt \/ rt' = Begun
    BY <1>3
  <2> QED BY <1>2, <1>7, <2>1, <2>2, BegunFacts, ZenonT(30)
<1>9. McTables'
  BY <1>0, <1>2, <1>5, <1>7, <1>8, RoundTables
<1>10. Published(chg)'
  BY <1>0, <1>8, StillPublished, ZenonT(30) DEF Env
<1>11. BaseHolds(chg)'
  BY <1>0, <1>8 DEF McGood, BaseHolds, Agrees, Changed, Env
<1>12. ASSUME Current, direct.at = "none", round.apply, ~round'.bad, NEW j \in Desired \ round'.todo
       PROVE  core[j] \in {Absent, round.want[j]}
  <2>1. CacheHolds /\ cache.cacheEpoch = rt.cacheEpoch
    BY <1>0, <1>12, Zenon DEF McGood, CacheHolds, At
  <2>2. ~round.bad => \A k \in Desired \ round.todo : core[k] \in {Absent, round.want[k]}
    BY <1>0, <1>2, <1>12, Zenon DEF McGood, RoundHolds
  <2>3. CASE round' = Next1(round, i) /\ observed = round.want[i]
    <3>1. round'.bad = round.bad /\ round'.todo = round.todo \ {i}
      BY <1>2, <2>3, NextFacts
    <3>2. CASE j = i
      <4>1. cache.entries[i] # Absent => core[i] \in {Absent, cache.entries[i]}
        BY <1>1, <1>12, <2>1 DEF CacheHolds
      <4>2. observed = core[i] \/ (cache.entries[i] # Absent /\ observed = cache.entries[i])
        BY DEF observed
      <4> QED BY <2>3, <3>2, <4>1, <4>2
    <3>3. CASE j # i
      BY <1>12, <2>2, <3>1, <3>3
    <3> QED BY <3>2, <3>3
  <2>4. CASE \E act \in {"set", "run"} : round' = sent(act)
    BY <1>6, <1>12, <2>2, <2>4
  <2>5. round' \notin {Failed1(round, i), Stopped1(round, i)}
    <3>1. ASSUME round' \in {Failed1(round, i), Stopped1(round, i)} PROVE round'.bad
      BY <1>2, <3>1, FailedIsBad, ZenonT(30)
    <3> QED BY <1>12, <3>1
  <2> QED BY <1>3, <1>12, <2>3, <2>4, <2>5
<1>13. RoundStands(chg)' /\ RoundHolds(chg)'
  <2>1. \A j \in Insts : core'[j] \in {core[j], Absent}
    BY <1>0, ZenonT(30)
  <2>2. Current /\ direct.at = "none" /\ round.apply /\ ~round'.bad =>
           \A j \in Desired \ round'.todo : core'[j] \in {Absent, round.want[j]}
    BY <1>0, <1>12
  <2>3. round'.todo \subseteq Desired
    BY <1>1, <1>7
  <2> QED BY <1>0, <1>7, <1>8, <2>1, <2>2, <2>3, RoundGoesOn, ZenonT(30)
<1>14. CacheHolds'
  <2>1. ~At("idle") /\ round'.snap.epoch = round.snap.epoch
    BY <1>0, <1>7 DEF At
  <2>2. \A j \in Insts : cache'.entries[j] = Absent \/ core'[j] \in {Absent, cache'.entries[j]}
                         \/ (cache'.entries[j] = cache.entries[j] /\ core'[j] \in {core[j], Absent})
    BY <1>0, <1>5
  <2> QED BY <1>0, <1>5, <1>8, <2>1, <2>2, CacheStillHolds DEF Env
<1> QED BY <1>9, <1>10, <1>11, <1>13, <1>14 DEF McGood

\* The answers of an RPC.
LEMMA RpcKeeps ==
  ASSUME NEW chg \in Histories, McGood(chg), RpcDone \/ RpcFails
  PROVE  McGood(chg)'
<1> DEFINE i == Min(round.todo)
           c == Forget(cache, round.ids \ Desired)
           after == [round EXCEPT !.at = "each", !.act = "none", !.del = {}]
           afterBad == [round EXCEPT !.at = "each", !.act = "none", !.del = {}, !.bad = TRUE]
<1>0. /\ round.at = "rpc" /\ At("rpc") /\ UNCHANGED <<Env, rt, hb, notified>> /\ core' \in {core, AfterRpc}
  BY Zenon DEF RpcDone, RpcFails, At
<1>1. /\ round \in Rounds /\ cache \in Caches /\ McTables /\ core \in [Insts -> Nat] /\ rt \in States
      /\ failed \subseteq Insts /\ notified \in BOOLEAN /\ round.at \notin Reading
      /\ cache.entries \in [Insts -> Nat] /\ round.todo \subseteq Desired /\ round.fenced
      /\ (rt.applied # 0 => rt.base = rt.applied) /\ (round.full => rt.base = 0)
  BY <1>0, Zenon DEF McGood, McTables, Caches, Reading, RoundStands, Published, Informed
<1>r. round \in Rounds /\ cache \in Caches
  BY <1>1
<1>2. /\ core' \in [Insts -> Nat]
      /\ \A j \in Insts : \/ core'[j] \in {core[j], Absent}
                          \/ /\ round.act # "delete" /\ j = i
                             /\ j \in Desired /\ core'[j] = round.want[j]
  BY <1>0, <1>1, RpcReach
<1>3. round.act # "delete" => i \in round.todo /\ i \in Insts
  BY <1>0, <1>1, RpcReach DEF Rounds
<1>4. \/ /\ round.act = "delete" /\ round' \in {after, afterBad} /\ failed' = failed
         /\ cache' \in {cache, c, Cleaned(c)}
      \/ /\ round.act # "delete" /\ failed' \in {failed, failed \cup {i}, failed \ {i}}
         /\ \/ /\ core'[i] = round.want[i] /\ round' = Next1(round, i)
               /\ cache' = Remember(cache, i, core'[i])
            \/ /\ round' = Failed1(round, i) /\ cache' = Forget(cache, {i})
  <2>1. CASE RpcDone
    <3>1. CASE round.act = "delete"
      BY <2>1, <3>1 DEF RpcDone
    <3>2. CASE round.act # "delete"
      <4>1. failed' \in {failed, failed \cup {i}, failed \ {i}}
        BY <2>1, <3>2 DEF RpcDone, RunResult
      <4> QED BY <2>1, <3>2, <4>1, Zenon DEF RpcDone
    <3> QED BY <3>1, <3>2
  <2>2. CASE RpcFails
    <3>1. CASE round.act = "delete"
      BY <2>2, <3>1 DEF RpcFails
    <3>2. CASE round.act # "delete"
      <4>1. failed' \in {failed, failed \cup {i}, failed \ {i}}
        BY <2>2, <3>2 DEF RpcFails, RunResult
      <4> QED BY <2>2, <3>2, <4>1 DEF RpcFails
    <3> QED BY <3>1, <3>2
  <2> QED BY <2>1, <2>2
<1>5. failed' \subseteq Insts
  BY <1>1, <1>3, <1>4
<1>6. /\ \A r \in {after, afterBad} :
           /\ r \in Rounds /\ r.at = "each" /\ r.act = "none" /\ r.todo = round.todo
           /\ r.fenced = round.fenced /\ r.snap = round.snap /\ r.target = round.target
           /\ r.apply = round.apply /\ r.full = round.full /\ r.ids = round.ids /\ r.want = round.want
           /\ ~r.bad => ~round.bad
  <2>1. TRUE \in BOOLEAN /\ {} \in SUBSET Insts
    OBVIOUS
  <2>2. /\ after \in Rounds /\ after.at = "each" /\ after.act = "none" /\ after.todo = round.todo
        /\ after.fenced = round.fenced /\ after.snap = round.snap /\ after.target = round.target
        /\ after.apply = round.apply /\ after.full = round.full /\ after.ids = round.ids
        /\ after.want = round.want /\ after.bad = round.bad
    BY <1>1, <2>1, Zenon DEF Rounds
  <2>3. /\ afterBad \in Rounds /\ afterBad.at = "each" /\ afterBad.act = "none" /\ afterBad.todo = round.todo
        /\ afterBad.fenced = round.fenced /\ afterBad.snap = round.snap /\ afterBad.target = round.target
        /\ afterBad.apply = round.apply /\ afterBad.full = round.full /\ afterBad.ids = round.ids
        /\ afterBad.want = round.want /\ afterBad.bad = TRUE
    BY <1>1, <2>1, Zenon DEF Rounds
  <2> HIDE DEF after, afterBad
  <2> QED BY <2>2, <2>3
<1>7. /\ cache' \in Caches /\ cache'.cacheEpoch = cache.cacheEpoch
      /\ \A j \in Insts : \/ cache'.entries[j] = Absent \/ cache'.entries[j] = core'[j]
                          \/ cache'.entries[j] = cache.entries[j] /\ core'[j] \in {core[j], Absent}
  <2> HIDE DEF i
  <2>1. CASE round.act = "delete"
    <3>1. c \in Caches /\ c.cacheEpoch = cache.cacheEpoch
          /\ \A j \in Insts : c.entries[j] \in {cache.entries[j], Absent}
      BY <1>1, ForgetFacts
    <3> HIDE DEF c
    <3>2. Cleaned(c) \in Caches /\ Cleaned(c).cacheEpoch = c.cacheEpoch /\ Cleaned(c).entries = c.entries
      BY <1>1, <3>1, CleanedFacts
    <3>3. cache' \in Caches /\ cache'.cacheEpoch = cache.cacheEpoch
          /\ \A j \in Insts : cache'.entries[j] \in {cache.entries[j], Absent}
      BY <1>1, <1>4, <2>1, <3>1, <3>2
    <3> QED BY <1>2, <2>1, <3>3
  <2>2. CASE round.act # "delete" /\ cache' = Forget(cache, {i})
    <3>1. cache' \in Caches /\ cache'.cacheEpoch = cache.cacheEpoch
          /\ \A j \in Insts : cache'.entries[j] = IF j \in {i} THEN Absent ELSE cache.entries[j]
      BY <1>1, <2>2, ForgetFacts
    <3> QED BY <1>2, <3>1
  <2>3. CASE round.act # "delete" /\ cache' = Remember(cache, i, core'[i])
    <3>1. core'[i] \in Nat
      BY <1>2, <1>3, <2>3
    <3> DEFINE v == core'[i]
    <3>2. v \in Nat /\ i \in Insts /\ cache' = Remember(cache, i, v)
      BY <1>3, <2>3, <3>1
    <3> HIDE DEF v
    <3>3. cache' \in Caches /\ cache'.cacheEpoch = cache.cacheEpoch
          /\ \A j \in Insts : cache'.entries[j] = IF j = i THEN v ELSE cache.entries[j]
      BY <1>r, <3>2, RememberFacts
    <3> QED BY <1>2, <3>3 DEF v
  <2> QED BY <1>4, <2>1, <2>2, <2>3
<1>8. /\ round' \in Rounds /\ round'.at = "each" /\ round'.act = "none" /\ round'.todo \subseteq round.todo
      /\ round'.fenced = round.fenced /\ round'.snap = round.snap /\ round'.target = round.target
      /\ round'.apply = round.apply /\ round'.full = round.full /\ round'.ids = round.ids
      /\ round'.want = round.want
  <2> HIDE DEF i
  <2>1. CASE round' \in {after, afterBad}
    <3> HIDE DEF after, afterBad
    <3> QED BY <1>6, <2>1
  <2>2. CASE round' \in {Next1(round, i), Failed1(round, i)}
    <3> DEFINE r == round'
    <3>1. r \in {Next1(round, i), Failed1(round, i), Stopped1(round, i)}
      BY <2>2
    <3> HIDE DEF r
    <3>2. /\ r \in Rounds /\ r.at = "each" /\ r.act = "none" /\ r.todo \subseteq round.todo \ {i}
          /\ r.fenced = round.fenced /\ r.snap = round.snap /\ r.target = round.target
          /\ r.apply = round.apply /\ r.full = round.full /\ r.ids = round.ids /\ r.want = round.want
      BY <1>r, <3>1, NextFacts
    <3> QED BY <3>2 DEF r
  <2> QED BY <1>4, <2>1, <2>2
<1>9. ASSUME Current, direct.at = "none", round.apply, ~round'.bad, NEW j \in Desired \ round'.todo
      PROVE  core'[j] \in {Absent, round.want[j]}
  <2> HIDE DEF i
  <2>1. ~round.bad => \A k \in Desired \ round.todo : core[k] \in {Absent, round.want[k]}
    BY <1>0, <1>1, <1>9 DEF McGood, RoundHolds
  <2>2. j \in Insts
    BY <1>1 DEF Desired, Rounds
  <2>3. CASE round.act = "delete"
    <3>1. ~round.bad /\ round'.todo = round.todo
      <4> HIDE DEF after, afterBad
      <4> QED BY <1>4, <1>6, <1>9, <2>3
    <3>2. core[j] \in {Absent, round.want[j]}
      BY <2>1, <3>1, <1>9
    <3> QED BY <1>2, <2>2, <2>3, <3>2
  <2>4. CASE round.act # "delete"
    <3>1. round' # Failed1(round, i)
      <4>1. ASSUME round' = Failed1(round, i) PROVE round'.bad
        <5> DEFINE r == round'
        <5>1. r \in {Next1(round, i), Failed1(round, i), Stopped1(round, i)} /\ r = Failed1(round, i)
          BY <4>1
        <5> HIDE DEF r
        <5>2. r.bad
          BY <1>r, <5>1, NextFacts
        <5> QED BY <5>2 DEF r
      <4> QED BY <1>9, <4>1
    <3>2. core'[i] = round.want[i] /\ round' = Next1(round, i)
      BY <1>4, <2>4, <3>1
    <3>3. round'.bad = round.bad /\ round'.todo = round.todo \ {i}
      BY <1>1, <3>2, NextFacts, Zenon
    <3>4. CASE j = i
      BY <3>2, <3>4
    <3>5. CASE j # i
      <4>1. core[j] \in {Absent, round.want[j]}
        BY <1>9, <2>1, <3>3, <3>5
      <4> QED BY <1>2, <2>2, <3>5, <4>1
    <3> QED BY <3>4, <3>5
  <2> QED BY <2>3, <2>4
<1>10. McTables'
  BY <1>0, <1>1, <1>2, <1>5, <1>7, <1>8, RoundTables
<1>11. Published(chg)'
  BY <1>0, <1>1, StillPublished DEF Env
<1>12. BaseHolds(chg)'
  BY <1>0, RpcKeepsBase DEF Env
<1>13. RoundStands(chg)' /\ RoundHolds(chg)'
  <2>1. round'.todo \subseteq Desired
    BY <1>1, <1>8
  <2>2. \A j \in Insts : core'[j] \in {core[j], Absent} \/ (j \in Desired /\ core'[j] = round.want[j])
    BY <1>2
  <2>3. Current /\ direct.at = "none" /\ round.apply /\ ~round'.bad =>
          \A j \in Desired \ round'.todo : core'[j] \in {Absent, round.want[j]}
    BY <1>9
  <2>4. rt'.epoch = rt.epoch /\ rt'.base \in {rt.base, 0} /\ (round'.fenced /\ round.full => rt'.base = 0)
    BY <1>0, <1>1
  <2> QED BY <1>0, <1>8, <2>1, <2>2, <2>3, <2>4, RoundGoesOn
<1>14. CacheHolds'
  <2>1. ~At("idle") /\ round'.snap.epoch = round.snap.epoch
    BY <1>0, <1>8 DEF At
  <2>2. \A j \in Insts : cache'.entries[j] = Absent \/ core'[j] \in {Absent, cache'.entries[j]}
                         \/ (cache'.entries[j] = cache.entries[j] /\ core'[j] \in {core[j], Absent})
    BY <1>7
  <2> QED BY <1>0, <1>7, <2>1, <2>2, CacheStillHolds DEF Env
<1> QED BY <1>10, <1>11, <1>12, <1>13, <1>14 DEF McGood

\* The visits are over, and the revision is read again before it is recorded.
LEMMA CheckKeeps ==
  ASSUME NEW chg \in Histories, McGood(chg), CheckRevision
  PROVE  McGood(chg)'
<1> DEFINE last == IF round.full THEN Desired ELSE (cache.last \ round.ids) \cup Desired
           noted == [cache EXCEPT !.last = last]
           mark == [round EXCEPT !.at = "mark"]
<1>0. /\ round.at = "each" /\ round.todo = {} /\ UNCHANGED <<Env, rt, core, hb, failed, notified>>
      /\ cache' \in {cache, noted} /\ (round' = Idle \/ (round' = mark /\ ~round.bad))
  BY DEF CheckRevision, At
<1>1. /\ round \in Rounds /\ cache \in Caches /\ McTables /\ core \in [Insts -> Nat] /\ rt \in States
      /\ failed \subseteq Insts /\ notified \in BOOLEAN /\ round.at \notin Reading /\ Desired \in SUBSET Insts
      /\ (round.fenced /\ round.full => rt.base = 0) /\ round.act = "none"
  BY <1>0 DEF McGood, McTables, Desired, Rounds, Reading, RoundStands, At
<1>2. cache' \in Caches /\ cache'.cacheEpoch = cache.cacheEpoch /\ cache'.entries = cache.entries
  <2>1. last \in SUBSET Insts
    BY <1>1 DEF Caches
  <2> HIDE DEF last
  <2>2. noted \in Caches /\ noted.cacheEpoch = cache.cacheEpoch /\ noted.entries = cache.entries
    BY <1>1, <2>1 DEF Caches
  <2> QED BY <1>0, <1>1, <2>2, Zenon
<1>3. /\ mark \in Rounds /\ mark.at = "mark" /\ mark.act = round.act /\ mark.todo = round.todo
      /\ mark.bad = round.bad
      /\ mark.fenced = round.fenced /\ mark.snap = round.snap /\ mark.target = round.target
      /\ mark.apply = round.apply /\ mark.full = round.full /\ mark.ids = round.ids /\ mark.want = round.want
  BY <1>1 DEF Rounds
<1> HIDE DEF last, noted, mark
<1>4. round' \in Rounds /\ (At("idle")' \/ (~At("idle") /\ round'.snap.epoch = round.snap.epoch))
  BY <1>0, <1>3, FixedRecords DEF At
<1>5. McTables'
  BY <1>0, <1>1, <1>2, <1>4, RoundTables
<1>6. Published(chg)' /\ BaseHolds(chg)'
  BY <1>0, ZenonT(30) DEF McGood, Published, Informed, BaseHolds, Agrees, Changed, Env
<1>7. CacheHolds'
  BY <1>0, <1>2, <1>4, CacheStillHolds DEF Env
<1>8. RoundStands(chg)' /\ RoundHolds(chg)'
  <2>1. CASE round' = Idle
    BY <2>1, RoundOver, ZenonT(30)
  <2>2. CASE round' = mark /\ ~round.bad
    <3>1. Current /\ direct.at = "none" /\ round.apply /\ ~round'.bad =>
            \A j \in Desired \ round'.todo : core'[j] \in {Absent, round.want[j]}
      BY <1>0, <1>1, <1>3, <2>2, Zenon DEF McGood, RoundHolds
    <3>2. \A j \in Insts : core'[j] \in {core[j], Absent}
      BY <1>0, Zenon
    <3> QED BY <1>0, <1>1, <1>3, <2>2, <3>1, <3>2, RoundGoesOn
  <2> QED BY <1>0, <2>1, <2>2
<1> QED BY <1>5, <1>6, <1>7, <1>8 DEF McGood

\* The revision is recorded as applied, unless the state moved on meanwhile.
LEMMA MarkKeeps ==
  ASSUME NEW chg \in Histories, McGood(chg), MarkApplied
  PROVE  McGood(chg)'
<1> DEFINE new == Applied(rt, round.target)
<1>0. /\ round.at = "mark" /\ round' = Idle /\ UNCHANGED <<Env, core, hb, failed, notified, cache>>
      /\ rt' = IF Current THEN new ELSE rt
  BY DEF MarkApplied, At
<1>1. /\ round \in Rounds /\ cache \in Caches /\ McTables /\ core \in [Insts -> Nat] /\ rt \in States
      /\ failed \subseteq Insts /\ notified \in BOOLEAN /\ round.at \notin Reading
      /\ 1 <= round.target /\ round.target <= rev /\ round.todo = {} /\ ~round.bad
      /\ round.target \in Nat /\ round.ids \subseteq Insts
  BY <1>0 DEF McGood, McTables, Rounds, Reading, RoundStands, At
<1>2. /\ new \in States /\ new.applied = round.target /\ new.base = round.target
      /\ new.pending = NoHint /\ new.epoch = rt.epoch /\ new.cacheEpoch = rt.cacheEpoch
  <2>1. NoHint \in HintRecords
    BY FixedRecords, SMTT(30)
  <2> QED BY <1>1, <2>1, Zenon DEF Applied, States
<1> HIDE DEF new
<1>3. rt' \in States /\ rt'.epoch = rt.epoch /\ rt'.cacheEpoch = rt.cacheEpoch
  BY <1>0, <1>1, <1>2, Zenon
<1>4. McTables'
  BY <1>0, <1>1, <1>3, RoundTables, FixedRecords, Zenon
<1>5. Published(chg)'
  <2>1. Informed(chg, rt)'
    BY <1>0, <1>1, <1>2, FixedRecords, Zenon DEF McGood, Published, Informed, Env
  <2> QED BY <1>0, <2>1, Zenon DEF McGood, Published, Env
<1>6. BaseHolds(chg)'
  <2>1. CASE ~Current
    BY <1>0, <2>1, ZenonT(30) DEF McGood, BaseHolds, Agrees, Changed, Env
  <2>2. CASE Current
    <3> SUFFICES ASSUME direct.at = "none", NEW i \in Insts
                 PROVE  (Agrees(i) \/ Changed(chg, i, rt.base))'
      BY <1>0 DEF BaseHolds, Env
    <3>1. /\ i \notin round.ids \/ ~round.apply => Agrees(i) \/ Changed(chg, i, round.target)
          /\ i \in round.ids => round.want[i] = rows[i] \/ Changed(chg, i, round.target)
          /\ round.apply => \A j \in Desired : core[j] \in {Absent, round.want[j]}
      BY <1>0, <1>1, <2>2 DEF McGood, RoundHolds, Loaded, At
    <3>2. Agrees(i) \/ Changed(chg, i, round.target)
      BY <3>1 DEF Agrees, Desired
    <3> QED BY <1>0, <1>2, <2>2, <3>2, Zenon DEF Agrees, Changed, Env
  <2> QED BY <2>1, <2>2
<1>7. CacheHolds'
  <2>1. At("idle")'
    BY <1>0, FixedRecords DEF At
  <2> QED BY <1>0, <1>3, <2>1, CacheStillHolds DEF Env
<1> QED BY <1>0, <1>4, <1>5, <1>6, <1>7, RoundOver, Zenon DEF McGood

\* Every step keeps the invariant.
LEMMA McStep == McIInv /\ [McNext]_mcVars => McIInv'
<1> SUFFICES ASSUME McIInv, [McNext]_mcVars PROVE McIInv'
  OBVIOUS
<1>1. PICK chg \in Histories : McGood(chg)
  BY DEF McIInv
<1>2. CASE \E kind \in {"full", "patch"}, content \in Contents : Publish(kind, content)
  BY <1>2, PublishKeeps
<1>3. ASSUME McGood(chg)' PROVE McIInv'
  BY <1>3 DEF McIInv
<1>4. CASE \E hint \in hints : RecordHint(hint)
  BY <1>1, <1>3, <1>4, RecordHintKeeps
<1>5. CASE DirectBegin \/ DirectEnd
  BY <1>1, <1>3, <1>5, InvalidationKeeps
<1>6. CASE DirectRpc \/ DirectSave
  BY <1>1, <1>3, <1>6, DirectKeeps
<1>7. CASE Heartbeat \/ \E i \in Insts : InstanceStops(i)
  BY <1>1, <1>3, <1>7, StopKeeps
<1>8. CASE Reconnect
  BY <1>1, <1>3, <1>8, ReconnectKeeps
<1>9. CASE StartRound
  BY <1>1, <1>3, <1>9, StartKeeps
<1>10. CASE ReadRevision
  BY <1>1, <1>3, <1>10, ReadRevisionKeeps
<1>11. CASE ListRunning \/ ListFails
  BY <1>1, <1>3, <1>11, ListKeeps
<1>12. CASE LoadRows
  BY <1>1, <1>3, <1>12, LoadKeeps
<1>13. CASE SyncSources
  BY <1>1, <1>3, <1>13, SyncKeeps
<1>14. CASE Clean
  BY <1>1, <1>3, <1>14, CleanKeeps
<1>15. CASE EachConfig \/ ReadFails
  BY <1>1, <1>3, <1>15, EachKeeps
<1>16. CASE RpcDone \/ RpcFails
  BY <1>1, <1>3, <1>16, RpcKeeps
<1>17. CASE CheckRevision
  BY <1>1, <1>3, <1>17, CheckKeeps
<1>18. CASE MarkApplied
  BY <1>1, <1>3, <1>18, MarkKeeps
<1>19. CASE UNCHANGED mcVars
  <2> USE <1>1, <1>19 DEF mcVars
  <2>1. McTables'
    BY DEF McGood, McTables
  <2>2. Published(chg)'
    BY ZenonT(30) DEF McGood, Published, Informed
  <2>3. RoundStands(chg)'
    BY DEF McGood, RoundStands, Informed, At, Current, Changed, Desired
  <2>4. CacheHolds'
    BY DEF McGood, CacheHolds, At, Current
  <2>5. BaseHolds(chg)'
    BY DEF McGood, BaseHolds, Agrees, Changed
  <2>6. RoundHolds(chg)'
    BY DEF McGood, RoundHolds, At, Current, Loaded, Desired, Agrees, Changed
  <2> QED BY <1>3, <2>1, <2>2, <2>3, <2>4, <2>5, <2>6 DEF McGood
<1> QED
  BY <1>2, <1>4, <1>5, <1>6, <1>7, <1>8, <1>9, <1>10, <1>11, <1>12, <1>13, <1>14, <1>15, <1>16,
     <1>17, <1>18, <1>19 DEF McNext, Round

\* The invariant holds in every behaviour.
LEMMA McInvariant == McSpec => []McIInv
<1>1. McInit => McIInv
  <2> SUFFICES ASSUME McInit PROVE McIInv
    OBVIOUS
  <2> USE McAssumption DEF McInit
  <2>1. PICK chg \in Histories : TRUE
    <3>1. [r \in Nat |-> {}] \in Histories
      BY DEF Histories
    <3> QED BY <3>1
  <2>2. McTables
    <3>2. notified \in BOOLEAN
      BY Zenon
    <3>3. hb \subseteq Insts
      BY DEF Running
    <3> QED BY <3>2, <3>3, FixedRecords DEF McTables
  <2>3. Published(chg)
    BY FixedRecords DEF Published, Informed
  <2>4. RoundStands(chg) /\ RoundHolds(chg) /\ BaseHolds(chg)
    BY FixedRecords, Zenon DEF RoundStands, RoundHolds, BaseHolds, At, Reading
  <2>5. CacheHolds
    BY FixedRecords DEF CacheHolds, At
  <2> QED BY <2>2, <2>3, <2>4, <2>5 DEF McIInv, McGood
<1> QED BY <1>1, McStep, PTL DEF McSpec

\* For any instances, rows and number of events: while the current revision counts as applied
\* and no direct mutation is under way, the device runs no other configuration than its row's.
THEOREM ManagedAppliedHolds == McSpec => []AppliedHolds
<1>1. McIInv => AppliedHolds
  <2> SUFFICES ASSUME NEW chg \in Histories, McGood(chg), rt.applied = rev, direct.at = "none",
                      NEW i \in Insts
               PROVE  Agrees(i)
    BY DEF McIInv, AppliedHolds
  <2>1. rev \in Nat \ {0} /\ rt.base = rev
    BY DEF McGood, McTables, Published, Informed
  <2>2. ~Changed(chg, i, rev)
    BY <2>1 DEF Changed
  <2> QED BY <2>1, <2>2 DEF McGood, BaseHolds
<1> QED BY <1>1, McInvariant, PTL

\* For any instances, rows and number of events: whenever a round may do the accumulated
\* patch alone, the device agrees with every row the patch does not name.
THEOREM ManagedPatchSuffices == McSpec => []PatchSuffices
<1>1. McIInv => PatchSuffices
  <2> SUFFICES ASSUME NEW chg \in Histories, McGood(chg), PatchOnly(rt, rev), direct.at = "none",
                      NEW i \in Insts \ rt.pending.ids
               PROVE  Agrees(i)
    BY DEF McIInv, PatchSuffices
  <2>1. ~Changed(chg, i, rt.base) /\ rt.base # 0
    BY DEF PatchOnly, Changed, McGood, Published, Informed
  <2> QED BY <2>1 DEF McGood, BaseHolds
<1> QED BY <1>1, McInvariant, PTL
=============================================================================
