-------------------------- MODULE SyncRouteSession --------------------------
(***************************************************************************)
(* One SyncRouteSession of peers/route/peer_ospf_route.rs: the compound    *)
(* state a node keeps about its route exchange with one peer, and the      *)
(* methods that change it while the session lock is held.  Every method is *)
(* an operator from the old session to the new one, so that the modules    *)
(* that own sessions can apply it inside one atomic step.                  *)
(*                                                                         *)
(* Two abstractions keep the state finite and lose nothing:               *)
(*   - session ids are random 64-bit numbers, only compared for equality;  *)
(*     a new one is any id that nobody remembers, and 0 is the code's      *)
(*     "dst session id not learned yet";                                   *)
(*   - state_revision is only compared with the snapshot that the one RPC  *)
(*     outstanding in the session's task took of it, so it is kept as      *)
(*     revised, true when the revision moved since that snapshot.          *)
(* The maps of versions the peer has saved belong to module RouteRows;     *)
(* last_contact_instant is abstracted to silent, true once                 *)
(* INITIATOR_SESSION_LIVENESS_TIMEOUT has elapsed since the last contact.  *)
(* running is task.is_running(): a new session's task is started at once,  *)
(* in get_or_start_session.                                                *)
(***************************************************************************)
EXTENDS Naturals

Session ==
  [ my_session_id : Nat \ {0}, dst_session_id : Nat,
    we_are_initiator : BOOLEAN, dst_is_initiator : BOOLEAN,
    revised : BOOLEAN, need_sync_initiator_info : BOOLEAN,
    silent : BOOLEAN, running : BOOLEAN ]

\* Mutant: the generation is left at the value that means "not learned yet".
NewSessionUnset(id) ==
  [ my_session_id |-> 0, dst_session_id |-> 0,
    we_are_initiator |-> FALSE, dst_is_initiator |-> FALSE,
    revised |-> FALSE, need_sync_initiator_info |-> FALSE,
    silent |-> FALSE, running |-> TRUE ]

NewSession(id) ==
  [ my_session_id |-> id, dst_session_id |-> 0,
    we_are_initiator |-> FALSE, dst_is_initiator |-> FALSE,
    revised |-> FALSE, need_sync_initiator_info |-> FALSE,
    silent |-> FALSE, running |-> TRUE ]

UpdateInitiatorFlag(s, is_initiator) ==
  [s EXCEPT !.we_are_initiator = is_initiator,
            !.revised = @ \/ s.we_are_initiator # is_initiator,
            !.need_sync_initiator_info = TRUE]

UpdateRemoteState(s, session_id, is_initiator) ==
  [s EXCEPT !.dst_session_id = session_id,
            !.dst_is_initiator = is_initiator,
            !.revised = \/ @
                        \/ s.dst_session_id # session_id
                        \/ s.dst_is_initiator # is_initiator]

\* The three accepting branches of admit_inbound_locked: the known generation,
\* the first reverse sync of a responder, and the takeover by an initiator.
AdmitsInbound(s, session_id, is_initiator) ==
  \/ session_id = s.dst_session_id
  \/ s.dst_session_id = 0 /\ ~is_initiator /\ s.we_are_initiator
  \/ is_initiator /\ ~s.dst_is_initiator

\* Some contact with the peer: last_contact_instant := now.
Touch(s) == [s EXCEPT !.silent = FALSE]

ClearDstInitiatorIfSessionUnchanged(s, expected) ==
  IF s.dst_session_id = expected THEN UpdateRemoteState(s, expected, FALSE) ELSE s

\* Mutant: a silent initiator keeps its role.
KeepStaleDstInitiator(s) == s

ClearStaleDstInitiator(s) ==
  IF s.dst_is_initiator /\ ~s.we_are_initiator /\ s.silent
  THEN UpdateRemoteState(s, s.dst_session_id, FALSE)
  ELSE s
=============================================================================
