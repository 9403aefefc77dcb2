--------------------------- MODULE DatagramWindow ---------------------------
(* One direction of a secure datagram session (easytier-core,                       *)
(* tunnel/secure_datagram.rs): the sender numbers its datagrams and moves to new     *)
(* epochs, the network duplicates, reorders and loses them, and several receiving    *)
(* tasks decrypt them side by side. A task checks the window of the datagram's       *)
(* epoch, decrypts without any lock, and then commits, checking again. Two epochs    *)
(* are kept, each with a window of Window numbers below its highest, and an epoch    *)
(* idle for EVICT_IDLE_AFTER_MS is forgotten with its window. The model has no clock: *)
(* any slot may have been idle for that long whenever the slots are locked, and a     *)
(* copy may be on its way for any time.                                               *)
EXTENDS Integers

CONSTANTS Readers,      \* receiving tasks
          Window,       \* 256 in the code
          MaxAhead,     \* MAX_ACCEPTED_RX_EPOCH_AHEAD
          MaxEpoch, MaxSeq   \* bounds: epochs and numbers the sender uses

ASSUME DatagramAssumption ==
  Window \in Nat \ {0} /\ MaxAhead \in Nat /\ MaxEpoch \in Nat /\ MaxSeq \in Nat

VARIABLES
  sendEpoch, sendSeq,   \* the sender's send_epoch and send_seq
  ownEpoch,             \* the receiver's send_epoch, for what it sends itself
  sent,                 \* datagrams sent: a copy may arrive at any time, often or never
  rxSlots,              \* rx_slots: the current epoch's slot and the previous one's
  reader,               \* per task: the datagram it decrypts, or None
  delivered,            \* datagrams decrypt_payload has returned Ok for (ghost)
  kept,                 \* those of the current slot's epoch or an earlier one, delivered
                        \* since that slot was last taken up after an eviction (ghost)
  again                 \* those of kept it has returned Ok for again (ghost)

dgVars == <<sendEpoch, sendSeq, ownEpoch, sent, rxSlots, reader, delivered, kept, again>>

Datagrams == [epoch : 0 .. MaxEpoch, seq : 0 .. MaxSeq]
Empty == [epoch |-> -1, max |-> 0, seen |-> {}]
None == [epoch |-> -1, seq |-> 0]

DgInit ==
  /\ sendEpoch = 0 /\ sendSeq = 0 /\ ownEpoch = 0
  /\ sent = {} /\ delivered = {} /\ kept = {} /\ again = {}
  /\ rxSlots = <<Empty, Empty>> /\ reader = [r \in Readers |-> None]

Used(slot) == slot # Empty

CanAcceptNarrow(slot, seq) ==
  seq > slot.max \/ (slot.max - seq < Window - 1 /\ slot.max - seq \notin slot.seen)

\* can_accept: a number above the highest, or one in the window that is not marked.
CanAccept(slot, seq) ==
  seq > slot.max \/ (slot.max - seq < Window /\ slot.max - seq \notin slot.seen)

\* accept, when it accepts: the window moves up to a higher number, shifting its marks.
AcceptedIn(slot, seq) ==
  IF seq > slot.max
  THEN [slot EXCEPT !.max = seq, !.seen = {0} \cup {i \in 1 .. Window - 1 : i - (seq - slot.max) \in @}]
  ELSE [slot EXCEPT !.seen = @ \cup {slot.max - seq}]

FirstOf(d) == [epoch |-> d.epoch, max |-> d.seq, seen |-> {0}]

\* An epoch that is in neither slot is taken up when it is newer, but not by far than all
\* the receiver knows of, its own sending epoch among them.
NewEpoch(slots, d) ==
  /\ d.epoch > slots[1].epoch
  /\ \E e \in {ownEpoch, slots[1].epoch, slots[2].epoch} : d.epoch <= e + MaxAhead

\* What precheck_replay answers.
Acceptable(slots, d) ==
  \/ ~Used(slots[1])
  \/ d.epoch = slots[1].epoch /\ CanAccept(slots[1], d.seq)
  \/ d.epoch # slots[1].epoch /\ d.epoch = slots[2].epoch /\ CanAccept(slots[2], d.seq)
  \/ d.epoch \notin {slots[1].epoch, slots[2].epoch} /\ NewEpoch(slots, d)

\* The slots commit_replay leaves when it accepts.
Committed(slots, d) ==
  CASE ~Used(slots[1]) -> <<FirstOf(d), slots[2]>>
    [] d.epoch = slots[1].epoch -> <<AcceptedIn(slots[1], d.seq), slots[2]>>
    [] Used(slots[1]) /\ d.epoch # slots[1].epoch /\ d.epoch = slots[2].epoch ->
         <<slots[1], AcceptedIn(slots[2], d.seq)>>
    [] OTHER -> <<FirstOf(d), slots[1]>>

\* evict_old_rx_slots: what the slots may be once those idle for too long are cleared.
Evicted == {<<a, b>> : a \in {rxSlots[1], Empty}, b \in {rxSlots[2], Empty}}

\* What is left of kept once the slots are slots.
KeptIn(slots, D) == {d \in D : Used(slots[1]) /\ d.epoch <= slots[1].epoch}

\* next_nonce, with or without moving to the next epoch (maybe_rotate_epoch).
SendDatagram ==
  /\ sendSeq <= MaxSeq /\ sendSeq' = sendSeq + 1
  /\ sendEpoch' \in {sendEpoch, sendEpoch + 1} /\ sendEpoch' <= MaxEpoch
  /\ sent' = sent \cup {[epoch |-> sendEpoch', seq |-> sendSeq]}
  /\ UNCHANGED <<ownEpoch, rxSlots, reader, delivered, kept, again>>

\* The receiver moves to a new epoch with what it sends.
OwnRotates ==
  /\ ownEpoch < MaxEpoch /\ ownEpoch' = ownEpoch + 1
  /\ UNCHANGED <<sendEpoch, sendSeq, sent, rxSlots, reader, delivered, kept, again>>

\* A copy arrives: precheck_replay, under the lock of the slots.
Precheck(r, d) ==
  /\ reader[r] = None /\ d \in sent
  /\ rxSlots' \in Evicted /\ kept' = KeptIn(rxSlots', kept)
  /\ reader' = [reader EXCEPT ![r] = IF Acceptable(rxSlots', d) THEN d ELSE None]
  /\ UNCHANGED <<sendEpoch, sendSeq, ownEpoch, sent, delivered, again>>

\* decrypt_payload returns Ok for d, the slots being s after the eviction and rxSlots' now.
Delivers(s, d) ==
  /\ delivered' = delivered \cup {d}
  /\ again' = again \cup ({d} \cap KeptIn(s, kept))
  /\ kept' = KeptIn(rxSlots', KeptIn(s, kept) \cup {d})

CommitPrechecked(r) ==
  /\ reader[r] # None /\ reader' = [reader EXCEPT ![r] = None]
  /\ \E s \in Evicted :
       /\ rxSlots' = IF Acceptable(s, reader[r]) THEN Committed(s, reader[r]) ELSE s
       /\ Delivers(s, reader[r])
  /\ UNCHANGED <<sendEpoch, sendSeq, ownEpoch, sent>>

\* It was decrypted: commit_replay, under the lock again.
Commit(r) ==
  /\ reader[r] # None /\ reader' = [reader EXCEPT ![r] = None]
  /\ \E s \in Evicted :
       IF Acceptable(s, reader[r])
       THEN rxSlots' = Committed(s, reader[r]) /\ Delivers(s, reader[r])
       ELSE rxSlots' = s /\ kept' = KeptIn(s, kept) /\ UNCHANGED <<delivered, again>>
  /\ UNCHANGED <<sendEpoch, sendSeq, ownEpoch, sent>>

DgNext ==
  \/ SendDatagram \/ OwnRotates
  \/ \E r \in Readers : Commit(r) \/ \E d \in sent : Precheck(r, d)

DgSpec == DgInit /\ [][DgNext]_dgVars

-----------------------------------------------------------------------------

\* The slots are of the datagrams' types, and a slot in use has marked its highest number
\* and nothing outside its window (EpochRxSlot, ReplayWindow256).
DgTypeOK ==
  /\ {sendEpoch, ownEpoch} \subseteq 0 .. MaxEpoch /\ sendSeq \in 0 .. MaxSeq + 1
  /\ sent \subseteq Datagrams /\ delivered \subseteq Datagrams /\ kept \subseteq delivered
  /\ \A r \in Readers : reader[r] \in Datagrams \cup {None}
  /\ \A i \in 1 .. 2 : Used(rxSlots[i]) => 0 \in rxSlots[i].seen /\ rxSlots[i].seen \subseteq 0 .. Window - 1

\* From the moment the current slot is taken up until it is cleared as idle, no datagram of
\* its epoch or an earlier one is delivered twice, whichever tasks receive its copies, however
\* late they come, whatever epochs follow and whenever the previous epoch's slot is cleared
\* (commit_replay checks again what precheck_replay checked before the decryption). Once
\* the current slot is cleared, what it had accepted may be accepted again.
AtMostOnce == again = {}

\* Nothing is refused without a reason: a task that drops a datagram before or after
\* decrypting it drops one that was delivered already, or that lies a whole window below a
\* delivered one of its epoch, or whose epoch is no longer kept or too far ahead
\* (can_accept, accept, precheck_replay).
RefusedWithReason ==
  \A d \in sent :
    \/ Acceptable(rxSlots, d) \/ d \in delivered
    \/ \E e \in delivered : e.epoch = d.epoch /\ e.seq >= d.seq + Window
    \/ d.epoch \notin {rxSlots[1].epoch, rxSlots[2].epoch}
=============================================================================
