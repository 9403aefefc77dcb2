----------------------------- MODULE Credentials -----------------------------
(* The credential table of an instance (easytier-core, peers/credential_manager.rs) *)
(* and the transaction that replaces the managed credentials                        *)
(* (management/full/config_patch.rs). The base credentials are kept in a file and   *)
(* changed one by one, the managed ones come with the instance's configuration and  *)
(* are replaced as a whole, and attached peers have ephemeral ones. Writes fail,    *)
(* credentials expire, the patch is cancelled while its write is in flight, and the *)
(* instance restarts at any time.                                                   *)
EXTENDS Naturals

CONSTANTS CredIds, CredKeys,   \* credential ids; key pairs
          Attached,            \* uuids of ephemeral credentials
          MaxCrEvents          \* bound: failed writes, cancelled patches and restarts

VARIABLES
  base,       \* the base table: the key of an id, and whether it has expired
  managed, pendingSet,   \* the managed table; its reserved replacement, or NoSet
  ephemeral,  \* the key of an attached peer
  stored,     \* the credential file
  confFile,   \* the managed credentials in the configuration file
  patch,      \* the patch: its replacement and where it is
  lateWrite,  \* what a cancelled patch's write, still under way, will put in that file, or NoSet
  up,         \* the instance came up at its last start
  crEvents

crVars == <<base, managed, pendingSet, ephemeral, stored, confFile, patch, lateWrite,
            up, crEvents>>

NoKey == "none"

ASSUME CrAssumption == NoKey \notin CredKeys /\ MaxCrEvents \in Nat

NoEntry == [key |-> NoKey, expired |-> FALSE]
Fresh(k) == [key |-> k, expired |-> FALSE]
EmptySet == [i \in CredIds |-> NoKey]
NoSet == [i \in {} |-> NoKey]
NoPatch == [at |-> "none", set |-> NoSet]

KeysOf(table) == {table[i] : i \in DOMAIN table} \ {NoKey}
IdsOf(table) == {i \in DOMAIN table : table[i] # NoKey}
BaseKeys(b) == {b[i].key : i \in CredIds} \ {NoKey}
BaseIds(b) == {i \in CredIds : b[i] # NoEntry}

\* build_managed_entries admits no key twice.
ManagedSets ==
  {m \in [CredIds -> CredKeys \cup {NoKey}] :
     \A i, j \in CredIds : i # j /\ m[i] # NoKey => m[i] # m[j]}

CrInit ==
  /\ base = [i \in CredIds |-> NoEntry] /\ managed = EmptySet /\ pendingSet = NoSet
  /\ ephemeral = [e \in Attached |-> NoKey]
  /\ stored = base /\ confFile = EmptySet /\ patch = NoPatch
  /\ lateWrite = NoSet /\ up = TRUE /\ crEvents = 0

\* managed_contains_id, managed_values: the reserved replacement counts.
ManagedIds == IdsOf(managed) \cup IdsOf(pendingSet)
ManagedKeys == KeysOf(managed) \cup KeysOf(pendingSet)

CommitWithoutStore(b) ==
  /\ base' = b
  /\ \/ stored' = b /\ UNCHANGED crEvents
     \/ crEvents < MaxCrEvents /\ crEvents' = crEvents + 1 /\ UNCHANGED stored

\* store_base, and only then the table: a failed write leaves both.
CommitBase(b) ==
  \/ stored' = b /\ base' = b /\ UNCHANGED crEvents
  \/ crEvents < MaxCrEvents /\ crEvents' = crEvents + 1 /\ UNCHANGED <<stored, base>>

Active(b) == [i \in CredIds |-> IF b[i].expired THEN NoEntry ELSE b[i]]

\* generate_credential_with_options, with an id or a fresh one: a new key pair.
Generate(i, k) ==
  /\ up /\ i \notin ManagedIds /\ Active(base)[i] = NoEntry
  /\ k \notin BaseKeys(Active(base)) \cup ManagedKeys \cup KeysOf(ephemeral)
  /\ CommitBase([Active(base) EXCEPT ![i] = Fresh(k)])
  /\ UNCHANGED <<managed, pendingSet, ephemeral, confFile, patch, lateWrite, up>>

UpsertCredential(i, k) ==
  /\ up /\ i \notin ManagedIds /\ base[i] # Fresh(k)
  /\ k \notin {base[j].key : j \in CredIds \ {i}} \cup ManagedKeys \cup KeysOf(ephemeral)
  /\ CommitBase([base EXCEPT ![i] = Fresh(k)])
  /\ UNCHANGED <<managed, pendingSet, ephemeral, confFile, patch, lateWrite, up>>

RevokeCredential(i) ==
  /\ up /\ base[i] # NoEntry /\ CommitBase([base EXCEPT ![i] = NoEntry])
  /\ UNCHANGED <<managed, pendingSet, ephemeral, confFile, patch, lateWrite, up>>

RemoveExpired ==
  /\ up /\ Active(base) # base /\ CommitBase(Active(base))
  /\ UNCHANGED <<managed, pendingSet, ephemeral, confFile, patch, lateWrite, up>>

\* expiry_unix passes; the file holds the same time.
Expires(i) ==
  /\ base[i] # NoEntry /\ ~base[i].expired
  /\ base' = [base EXCEPT ![i].expired = TRUE]
  /\ stored' = [stored EXCEPT ![i].expired = IF stored[i] = base[i] THEN TRUE ELSE @]
  /\ UNCHANGED <<managed, pendingSet, ephemeral, confFile, patch, lateWrite, up, crEvents>>

RegisterOverPending(e, k) ==
  /\ up /\ ephemeral[e] = NoKey /\ k \notin BaseKeys(base) \cup KeysOf(managed) \cup KeysOf(ephemeral)
  /\ ephemeral' = [ephemeral EXCEPT ![e] = k]
  /\ UNCHANGED <<base, managed, pendingSet, stored, confFile, patch, lateWrite, up, crEvents>>

RegisterEphemeral(e, k) ==
  /\ up /\ ephemeral[e] = NoKey /\ k \notin BaseKeys(base) \cup ManagedKeys \cup KeysOf(ephemeral)
  /\ ephemeral' = [ephemeral EXCEPT ![e] = k]
  /\ UNCHANGED <<base, managed, pendingSet, stored, confFile, patch, lateWrite, up, crEvents>>

RevokeEphemeral(e) ==
  /\ up /\ ephemeral[e] # NoKey /\ ephemeral' = [ephemeral EXCEPT ![e] = NoKey]
  /\ UNCHANGED <<base, managed, pendingSet, stored, confFile, patch, lateWrite, up, crEvents>>

-----------------------------------------------------------------------------
\* The managed credentials.

\* validate_managed_conflicts
ConflictsWith(m, b, e) ==
  IdsOf(m) \cap BaseIds(b) # {} \/ KeysOf(m) \cap (BaseKeys(b) \cup KeysOf(e)) # {}

\* validate_managed_credentials reserves a replacement that changes something.
ValidatePatch(m) ==
  /\ up /\ patch.at = "none" /\ ~ConflictsWith(m, base, ephemeral)
  /\ patch' = [at |-> "persist", set |-> m]
  /\ pendingSet' = IF m # managed THEN m ELSE pendingSet
  /\ UNCHANGED <<base, managed, ephemeral, stored, confFile, lateWrite, up, crEvents>>

\* The write of the configuration is done.
PersistOk ==
  /\ patch.at = "persist" /\ patch' = [patch EXCEPT !.at = "install"]
  /\ confFile' = patch.set
  /\ UNCHANGED <<base, managed, pendingSet, ephemeral, stored, lateWrite, up, crEvents>>

\* The write fails, or the patch is cancelled before or after it is done: the replacement is
\* dropped, and its reservation with it. What is in the file stays there, and a write that
\* has begun goes on without its patch (one at a time here).
PatchEnds ==
  /\ patch.at # "none" /\ patch' = NoPatch /\ pendingSet' = NoSet
  /\ lateWrite' \in {lateWrite} \cup
       {s \in {patch.set} : patch.at = "persist" /\ lateWrite = NoSet}
  /\ crEvents < MaxCrEvents /\ crEvents' = crEvents + 1
  /\ UNCHANGED <<base, managed, ephemeral, stored, confFile, up>>

LateWriteLands ==
  /\ lateWrite # NoSet /\ lateWrite' = NoSet /\ confFile' = lateWrite
  /\ UNCHANGED <<base, managed, pendingSet, ephemeral, stored, patch, up, crEvents>>

\* install_managed_credentials
InstallPatch ==
  /\ patch.at = "install" /\ patch' = NoPatch
  /\ managed' = patch.set /\ pendingSet' = NoSet
  /\ UNCHANGED <<base, ephemeral, stored, confFile, lateWrite, up, crEvents>>

\* The process ends and starts again: from_storage and install_initial_managed_credentials,
\* which refuses a configuration that conflicts with the file.
RestartInstance ==
  /\ crEvents < MaxCrEvents /\ crEvents' = crEvents + 1
  /\ base' = stored /\ ephemeral' = [e \in Attached |-> NoKey]
  /\ pendingSet' = NoSet /\ patch' = NoPatch /\ lateWrite' = NoSet
  /\ up' = ~ConflictsWith(confFile, stored, ephemeral')
  /\ managed' = IF up' THEN confFile ELSE EmptySet
  /\ UNCHANGED <<stored, confFile>>

CrNext ==
  \/ \E i \in CredIds, k \in CredKeys : Generate(i, k) \/ UpsertCredential(i, k)
  \/ \E i \in CredIds : RevokeCredential(i) \/ Expires(i)
  \/ RemoveExpired
  \/ \E e \in Attached : RevokeEphemeral(e) \/ \E k \in CredKeys : RegisterEphemeral(e, k)
  \/ \E m \in ManagedSets : ValidatePatch(m)
  \/ PersistOk \/ PatchEnds \/ LateWriteLands \/ InstallPatch \/ RestartInstance

CrSpec == CrInit /\ [][CrNext]_crVars

-----------------------------------------------------------------------------

\* The tables have their types, and a replacement is reserved only while its patch is under
\* way: no way out of the patch leaves the reservation (ManagedCredentialReplacement::drop).
CrTypeOK ==
  /\ base \in [CredIds -> [key : CredKeys \cup {NoKey}, expired : BOOLEAN]]
  /\ managed \in ManagedSets /\ confFile \in ManagedSets
  /\ {pendingSet, lateWrite} \subseteq ManagedSets \cup {NoSet}
  /\ pendingSet # NoSet => patch.at # "none" /\ patch.set = pendingSet

\* No id and no key is in two tables, nor a key twice in one, whatever changes while a
\* patch waits for its write (generate, upsert, register, validate_managed_conflicts).
KeysUnique ==
  /\ \A i, j \in CredIds : i # j /\ base[i] # NoEntry => base[i].key # base[j].key
  /\ BaseIds(base) \cap ManagedIds = {}
  /\ BaseKeys(base) \cap (ManagedKeys \cup KeysOf(ephemeral)) = {}
  /\ ManagedKeys \cap KeysOf(ephemeral) = {}

\* A restart gives back the base credentials at any moment, and comes up with the managed
\* ones of the configuration file when the file holds the installed ones or those a patch is
\* about to install; it need not when the write of a cancelled patch put others there
\* (store_base, validate_managed_credentials, persist, install).
Expected == {managed} \cup {s \in {patch.set} : patch.at = "install"}
RestartComesUp ==
  up => base = stored /\ (confFile \in Expected => ~ConflictsWith(confFile, stored, NoSet))

\* "A retry, controller reconcile, or restart is required to converge": a restart comes up
\* with the managed credentials that the configuration file holds
\* (install_initial_managed_credentials).
RestartConverges == [][RestartInstance => up' /\ managed' = confFile]_crVars
=============================================================================
