---------------------------- MODULE TrafficProofs ----------------------------
(***************************************************************************)
(* What the two parts that every packet may pass guarantee: the replay     *)
(* window of a secure datagram session, for every window, every number of  *)
(* receiving tasks and any number of epochs; and the rate limiter, for     *)
(* every capacity, rate and resolution of the clock, whatever is asked of  *)
(* it and however often.                                                   *)
(***************************************************************************)
EXTENDS DatagramWindow, TokenBucket, TLAPS

USE DatagramAssumption

SlotType == [epoch : Int, max : Int, seen : SUBSET Int]

\* A slot in use holds an epoch, and the marks of its window stand for datagrams of that
\* epoch that were delivered, its highest among them.
SlotOK(slot) ==
  /\ slot \in SlotType
  /\ Used(slot) => /\ slot.epoch \in Nat /\ 0 \in slot.seen /\ slot.seen \subseteq 0 .. Window - 1
                   /\ \A i \in slot.seen : [epoch |-> slot.epoch, seq |-> slot.max - i] \in delivered

\* A datagram the slots refuse, and go on refusing whatever else is accepted.
Blocked(slots, d) ==
  /\ Used(slots[1]) /\ d.epoch <= slots[1].epoch
  /\ d.epoch = slots[1].epoch => ~CanAccept(slots[1], d.seq)
  /\ d.epoch # slots[1].epoch /\ d.epoch = slots[2].epoch => ~CanAccept(slots[2], d.seq)

\* What holds of the slots and of the datagrams they keep from being delivered again,
\* before and after the idle slots are cleared.
SlotsInv(slots, K) ==
  /\ SlotOK(slots[1]) /\ SlotOK(slots[2])
  /\ \A d \in K : Blocked(slots, d)

DgInv ==
  /\ sendEpoch \in 0 .. MaxEpoch /\ ownEpoch \in 0 .. MaxEpoch /\ sendSeq \in 0 .. MaxSeq + 1
  /\ sent \subseteq Datagrams /\ delivered \subseteq Datagrams /\ kept \subseteq delivered
  /\ reader \in [Readers -> Datagrams \cup {None}]
  /\ SlotsInv(rxSlots, kept) /\ again = {}

\* A number a window refuses it refuses after accepting any other (accept's shift keeps every
\* mark that is still inside the window).
LEMMA RefusalLasts ==
  ASSUME NEW slot \in SlotType, NEW seq \in Int, NEW q \in Int, ~CanAccept(slot, q)
  PROVE  ~CanAccept(AcceptedIn(slot, seq), q)
<1>1. slot.max \in Int /\ slot.seen \subseteq Int
  BY DEF SlotType
<1>2. q <= slot.max /\ (slot.max - q >= Window \/ slot.max - q \in slot.seen)
  BY <1>1 DEF CanAccept
<1>3. CASE seq > slot.max
  <2> DEFINE new == AcceptedIn(slot, seq)
  <2>1. /\ new.max = seq
        /\ new.seen = {0} \cup {i \in 1 .. Window - 1 : i - (seq - slot.max) \in slot.seen}
    BY <1>3 DEF AcceptedIn, SlotType
  <2>2. seq - q >= Window \/ (seq - q \in 1 .. Window - 1 /\ (seq - q) - (seq - slot.max) = slot.max - q)
    BY <1>1, <1>2, <1>3
  <2>3. seq - q >= Window \/ seq - q \in new.seen
    BY <1>1, <1>2, <1>3, <2>1, <2>2
  <2> QED BY <1>1, <1>2, <1>3, <2>1, <2>3 DEF CanAccept
<1>4. CASE ~(seq > slot.max)
  <2>1. AcceptedIn(slot, seq).max = slot.max /\ AcceptedIn(slot, seq).seen = slot.seen \cup {slot.max - seq}
    BY <1>4 DEF AcceptedIn, SlotType
  <2> QED BY <1>1, <1>2, <2>1 DEF CanAccept
<1> QED BY <1>3, <1>4

\* A number a window has accepted it refuses (accept marks what it accepts).
LEMMA AcceptedIsRefused ==
  ASSUME NEW slot \in SlotType, NEW seq \in Int
  PROVE  ~CanAccept(AcceptedIn(slot, seq), seq)
<1>1. slot.max \in Int
  BY DEF SlotType
<1>2. CASE seq > slot.max
  <2>1. AcceptedIn(slot, seq).max = seq /\ 0 \in AcceptedIn(slot, seq).seen
    BY <1>2 DEF AcceptedIn, SlotType
  <2> QED BY <2>1 DEF CanAccept
<1>3. CASE ~(seq > slot.max)
  <2>1. AcceptedIn(slot, seq).max = slot.max /\ slot.max - seq \in AcceptedIn(slot, seq).seen
    BY <1>3 DEF AcceptedIn, SlotType
  <2> QED BY <1>1, <1>3, <2>1 DEF CanAccept
<1> QED BY <1>2, <1>3

\* Whatever is blocked is refused by precheck_replay and by commit_replay.
LEMMA BlockedIsRefused ==
  ASSUME NEW slots, slots[1] \in SlotType, slots[2] \in SlotType, NEW d \in Datagrams, Blocked(slots, d)
  PROVE  ~Acceptable(slots, d)
BY DEF Blocked, Acceptable, NewEpoch, SlotType, Datagrams

\* Clearing idle slots loses no refusal of what is kept: with the current slot in place, an
\* epoch the other slot held is no longer newer (evict_old_rx_slots).
LEMMA EvictKeeps ==
  ASSUME NEW K \in SUBSET Datagrams, SlotsInv(rxSlots, K), NEW s \in Evicted
  PROVE  SlotsInv(s, KeptIn(s, K))
<1>1. s[1] \in {rxSlots[1], Empty} /\ s[2] \in {rxSlots[2], Empty}
  BY DEF Evicted
<1>2. Empty \in SlotType /\ ~Used(Empty) /\ Empty.epoch = -1
  BY DEF Empty, SlotType, Used
<1>3. SlotOK(s[1]) /\ SlotOK(s[2])
  BY <1>1, <1>2 DEF SlotsInv, SlotOK
<1>4. ASSUME NEW d \in KeptIn(s, K) PROVE Blocked(s, d)
  <2>1. Blocked(rxSlots, d) /\ d.epoch \in Nat /\ Used(s[1])
    BY <1>4 DEF SlotsInv, KeptIn, Datagrams
  <2>2. s[1] = rxSlots[1] /\ (s[2] = rxSlots[2] \/ s[2].epoch = -1)
    BY <1>1, <1>2, <2>1
  <2> QED BY <2>1, <2>2 DEF Blocked
<1> QED BY <1>3, <1>4 DEF SlotsInv

\* Moving a slot's window keeps its epoch.
LEMMA SlotUpdate ==
  ASSUME NEW slot \in SlotType, NEW q \in Int, NEW m \in SUBSET Int
  PROVE  /\ [slot EXCEPT !.max = q, !.seen = m] = [epoch |-> slot.epoch, max |-> q, seen |-> m]
         /\ [slot EXCEPT !.max = q, !.seen = m] \in SlotType
<1> DEFINE x == [slot EXCEPT !.max = q, !.seen = m]
<1>1. x \in SlotType
  BY Zenon DEF SlotType
<1>2. x.epoch = slot.epoch /\ x.max = q /\ x.seen = m
  BY DEF SlotType
<1> HIDE DEF x
<1>3. x = [epoch |-> slot.epoch, max |-> q, seen |-> m]
  BY <1>1, <1>2 DEF SlotType
<1> QED BY <1>1, <1>3 DEF x

\* A slot that accepts a datagram stays well formed, with the datagram among the delivered
\* (accept).
LEMMA AcceptedSlotOK ==
  ASSUME NEW slot, SlotOK(slot), Used(slot), NEW d \in Datagrams, d.epoch = slot.epoch,
         CanAccept(slot, d.seq), delivered' = delivered \cup {d}
  PROVE  SlotOK(AcceptedIn(slot, d.seq))' /\ AcceptedIn(slot, d.seq).epoch = slot.epoch
<1> DEFINE new == AcceptedIn(slot, d.seq)
<1>1. /\ slot \in SlotType /\ slot.epoch \in Nat /\ 0 \in slot.seen /\ slot.seen \subseteq 0 .. Window - 1
      /\ slot.max \in Int
      /\ \A i \in slot.seen : [epoch |-> slot.epoch, seq |-> slot.max - i] \in delivered
  BY DEF SlotOK, SlotType
<1>2. d.seq \in Nat /\ d = [epoch |-> slot.epoch, seq |-> d.seq]
  BY DEF Datagrams
<1>3. CASE d.seq > slot.max
  <2>1. /\ new \in SlotType /\ new.epoch = slot.epoch /\ new.max = d.seq
        /\ new.seen = {0} \cup {i \in 1 .. Window - 1 : i - (d.seq - slot.max) \in slot.seen}
    <3> DEFINE marks == {0} \cup {i \in 1 .. Window - 1 : i - (d.seq - slot.max) \in slot.seen}
    <3>1. marks \subseteq Int
      OBVIOUS
    <3>2. new = [slot EXCEPT !.max = d.seq, !.seen = marks]
      BY <1>3 DEF AcceptedIn
    <3> HIDE DEF marks, new
    <3>3. d.seq \in Int /\ marks \in SUBSET Int /\ slot \in SlotType
      BY <1>1, <1>2, <3>1
    <3>4. new = [epoch |-> slot.epoch, max |-> d.seq, seen |-> marks] /\ new \in SlotType
      BY <3>2, <3>3, SlotUpdate, Zenon
    <3>5. new.epoch = slot.epoch /\ new.max = d.seq /\ new.seen = marks
      BY <3>4
    <3> QED BY <3>4, <3>5 DEF marks
  <2>2. ASSUME NEW i \in new.seen
        PROVE  [epoch |-> new.epoch, seq |-> new.max - i] \in delivered'
    <3>1. CASE i = 0
      <4>1. d.seq - i = d.seq
        BY <1>2, <3>1
      <4> QED BY <1>2, <2>1, <4>1
    <3>2. CASE i # 0
      <4>1. i \in 1 .. Window - 1 /\ i - (d.seq - slot.max) \in slot.seen
        BY <2>1, <2>2, <3>2
      <4>2. slot.max - (i - (d.seq - slot.max)) = d.seq - i
        BY <1>1, <1>2, <4>1
      <4>3. [epoch |-> slot.epoch, seq |-> slot.max - (i - (d.seq - slot.max))] \in delivered
        BY <1>1, <4>1
      <4> QED BY <2>1, <4>2, <4>3
    <3> QED BY <3>1, <3>2
  <2>3. 0 \in new.seen /\ new.seen \subseteq 0 .. Window - 1
    BY <2>1
  <2> HIDE DEF new
  <2> QED BY <1>1, <2>1, <2>2, <2>3 DEF SlotOK, new
<1>4. CASE ~(d.seq > slot.max)
  <2>1. slot.max - d.seq \in 0 .. Window - 1
    BY <1>1, <1>2, <1>4 DEF CanAccept
  <2>2. /\ new \in SlotType /\ new.epoch = slot.epoch /\ new.max = slot.max
        /\ new.seen = slot.seen \cup {slot.max - d.seq}
    BY <1>1, <1>4, <2>1 DEF AcceptedIn, SlotType
  <2>3. ASSUME NEW i \in new.seen
        PROVE  [epoch |-> new.epoch, seq |-> new.max - i] \in delivered'
    <3>1. CASE i = slot.max - d.seq
      <4>1. slot.max - i = d.seq
        BY <1>1, <1>2, <3>1
      <4> QED BY <1>2, <2>2, <4>1
    <3>2. CASE i # slot.max - d.seq
      BY <1>1, <2>2, <2>3, <3>2
    <3> QED BY <3>1, <3>2
  <2>4. 0 \in new.seen /\ new.seen \subseteq 0 .. Window - 1
    BY <1>1, <2>1, <2>2
  <2> HIDE DEF new
  <2> QED BY <1>1, <2>2, <2>3, <2>4 DEF SlotOK, new
<1> QED BY <1>3, <1>4

\* The slots after commit_replay has accepted a datagram: what is kept of it and of the
\* others is refused from now on.
LEMMA CommitSlots ==
  ASSUME NEW s, NEW K \in SUBSET Datagrams, SlotsInv(s, K), NEW e \in Datagrams, Acceptable(s, e),
         rxSlots' = Committed(s, e), delivered' = delivered \cup {e},
         kept' = KeptIn(rxSlots', K \cup {e})
  PROVE  SlotsInv(rxSlots, kept)'
<1>1. /\ e.epoch \in Nat /\ e.seq \in Nat
      /\ \A d \in K : d.epoch \in Nat /\ d.seq \in Nat
  BY DEF Datagrams
<1>2. /\ SlotOK(s[1]) /\ SlotOK(s[2]) /\ s[1] \in SlotType /\ s[2] \in SlotType
      /\ s[1].epoch \in Int /\ s[2].epoch \in Int
  BY DEF SlotsInv, SlotOK, SlotType
<1>3. SlotOK(s[1])' /\ SlotOK(s[2])'
  BY <1>2 DEF SlotOK
<1>4. ~Used(s[2]) => s[2].epoch = -1
  BY DEF Used, Empty
<1>5. \A d \in K : Blocked(s, d)
  BY DEF SlotsInv
<1>6. /\ FirstOf(e).epoch = e.epoch /\ Used(FirstOf(e)) /\ ~CanAccept(FirstOf(e), e.seq)
      /\ SlotOK(FirstOf(e))'
  <2>1. /\ FirstOf(e) \in SlotType /\ FirstOf(e).epoch = e.epoch /\ FirstOf(e).max = e.seq
        /\ FirstOf(e).seen = {0}
    BY <1>1 DEF FirstOf, SlotType
  <2>2. [epoch |-> e.epoch, seq |-> e.seq - 0] = e
    BY <1>1 DEF Datagrams
  <2>3. Used(FirstOf(e))
    BY <1>1, <2>1 DEF Used, Empty
  <2>4. ~CanAccept(FirstOf(e), e.seq)
    BY <1>1, <2>1 DEF CanAccept
  <2> QED BY <1>1, <2>1, <2>2, <2>3, <2>4 DEF SlotOK
<1>7. ASSUME SlotOK(rxSlots[1])', SlotOK(rxSlots[2])',
             e.epoch <= rxSlots'[1].epoch => Blocked(rxSlots', e),
             \A d \in K : Blocked(rxSlots', d)
      PROVE  SlotsInv(rxSlots, kept)'
  <2>1. \A d \in kept' : (d \in K \/ d = e) /\ d.epoch <= rxSlots'[1].epoch
    BY DEF KeptIn
  <2>2. \A d \in kept' : Blocked(rxSlots', d)
    BY <1>7, <2>1, Zenon
  <2> QED BY <1>7, <2>2 DEF SlotsInv, Blocked
<1>8. CASE ~Used(s[1])
  <2>1. K = {}
    BY <1>5, <1>8 DEF Blocked
  <2>2. rxSlots' = <<FirstOf(e), s[2]>>
    <3>1. s[1].epoch = -1
      BY <1>8 DEF Used, Empty
    <3> QED BY <1>1, <1>8, <3>1 DEF Committed
  <2>3. Blocked(rxSlots', e)
    BY <1>1, <1>6, <2>2 DEF Blocked
  <2> QED BY <1>3, <1>6, <1>7, <2>1, <2>2, <2>3
<1>9. CASE Used(s[1]) /\ e.epoch = s[1].epoch
  <2> DEFINE n == AcceptedIn(s[1], e.seq)
  <2>1. rxSlots' = <<n, s[2]>>
    BY <1>9 DEF Committed
  <2>2. CanAccept(s[1], e.seq)
    BY <1>1, <1>9 DEF Acceptable, NewEpoch
  <2>3. SlotOK(n)' /\ n.epoch = s[1].epoch
    BY <1>1, <1>2, <1>9, <2>2, AcceptedSlotOK
  <2>4. ~CanAccept(n, e.seq) /\ \A q \in Int : ~CanAccept(s[1], q) => ~CanAccept(n, q)
    BY <1>1, <1>2, AcceptedIsRefused, RefusalLasts
  <2>5. Used(n)
    BY <1>1, <1>9, <2>3 DEF Used, Empty
  <2> HIDE DEF n
  <2>6. Blocked(rxSlots', e)
    BY <1>1, <1>9, <2>1, <2>3, <2>4, <2>5 DEF Blocked
  <2>7. ASSUME NEW d \in K PROVE Blocked(rxSlots', d)
    <3>1. Blocked(s, d) /\ d.seq \in Int
      BY <1>1, <1>5
    <3> QED BY <2>1, <2>3, <2>4, <2>5, <3>1 DEF Blocked
  <2> QED BY <1>3, <1>7, <2>1, <2>3, <2>6, <2>7
<1>10. CASE Used(s[1]) /\ e.epoch # s[1].epoch /\ e.epoch = s[2].epoch
  <2> DEFINE n == AcceptedIn(s[2], e.seq)
  <2>1. rxSlots' = <<s[1], n>>
    BY <1>10 DEF Committed
  <2>2. CanAccept(s[2], e.seq) /\ Used(s[2])
    BY <1>1, <1>4, <1>10 DEF Acceptable, NewEpoch
  <2>3. SlotOK(n)' /\ n.epoch = s[2].epoch
    BY <1>1, <1>2, <1>10, <2>2, AcceptedSlotOK
  <2>4. ~CanAccept(n, e.seq) /\ \A q \in Int : ~CanAccept(s[2], q) => ~CanAccept(n, q)
    BY <1>1, <1>2, AcceptedIsRefused, RefusalLasts
  <2> HIDE DEF n
  <2>5. e.epoch <= s[1].epoch => Blocked(rxSlots', e)
    BY <1>1, <1>2, <1>10, <2>1, <2>3, <2>4 DEF Blocked
  <2>6. ASSUME NEW d \in K PROVE Blocked(rxSlots', d)
    <3>1. Blocked(s, d) /\ d.seq \in Int
      BY <1>1, <1>5
    <3> QED BY <2>1, <2>3, <2>4, <3>1 DEF Blocked
  <2> QED BY <1>3, <1>7, <2>1, <2>3, <2>5, <2>6
<1>11. CASE Used(s[1]) /\ e.epoch # s[1].epoch /\ e.epoch # s[2].epoch
  <2>1. rxSlots' = <<FirstOf(e), s[1]>>
    BY <1>11 DEF Committed
  <2>2. e.epoch > s[1].epoch
    BY <1>11 DEF Acceptable, NewEpoch
  <2>3. Blocked(rxSlots', e)
    BY <1>1, <1>6, <2>1 DEF Blocked
  <2>4. ASSUME NEW d \in K PROVE Blocked(rxSlots', d)
    <3>1. Blocked(s, d) /\ d.epoch \in Int
      BY <1>1, <1>5
    <3>2. d.epoch < e.epoch /\ d.epoch # e.epoch
      BY <1>1, <1>2, <2>2, <3>1 DEF Blocked
    <3> QED BY <1>1, <1>6, <2>1, <3>1, <3>2 DEF Blocked
  <2> QED BY <1>3, <1>6, <1>7, <2>1, <2>3, <2>4
<1> QED BY <1>8, <1>9, <1>10, <1>11

\* Every step keeps the invariant (next_nonce, precheck_replay, commit_replay, the network).
LEMMA DgStep ==
  ASSUME DgInv, [DgNext]_dgVars
  PROVE  DgInv'
<1>0. /\ SlotsInv(rxSlots, kept) /\ again = {} /\ reader \in [Readers -> Datagrams \cup {None}]
      /\ kept \in SUBSET Datagrams /\ delivered \subseteq Datagrams /\ sent \subseteq Datagrams
  BY DEF DgInv
<1>a. ASSUME UNCHANGED <<rxSlots, delivered, kept>> PROVE SlotsInv(rxSlots, kept)'
  BY <1>0, <1>a DEF SlotsInv, SlotOK, Blocked
<1>1. CASE SendDatagram
  <2>1. /\ sendEpoch' \in 0 .. MaxEpoch /\ sendSeq' \in 0 .. MaxSeq + 1
        /\ [epoch |-> sendEpoch', seq |-> sendSeq] \in Datagrams
    BY <1>1 DEF SendDatagram, DgInv, Datagrams
  <2> QED BY <1>a, <1>1, <2>1 DEF SendDatagram, DgInv
<1>3. ASSUME NEW r \in Readers, NEW d \in sent, Precheck(r, d)
      PROVE  DgInv'
  <2>1. /\ UNCHANGED <<sendEpoch, sendSeq, ownEpoch, sent, delivered, again>>
        /\ reader' = [reader EXCEPT ![r] = IF Acceptable(rxSlots', d) THEN d ELSE None]
    BY <1>3 DEF Precheck
  <2>2. PICK s \in Evicted : rxSlots' = s /\ kept' = KeptIn(s, kept)
    BY <1>3 DEF Precheck
  <2>3. SlotsInv(s, KeptIn(s, kept))
    BY <1>0, EvictKeeps
  <2>4. SlotsInv(rxSlots, kept)'
    BY <2>1, <2>2, <2>3 DEF SlotsInv, SlotOK, Blocked
  <2>5. reader' \in [Readers -> Datagrams \cup {None}] /\ kept' \subseteq delivered'
    BY <1>0, <2>1, <2>2 DEF DgInv, KeptIn
  <2> QED BY <2>1, <2>4, <2>5 DEF DgInv
<1>4. ASSUME NEW r \in Readers, Commit(r)
      PROVE  DgInv'
  <2> DEFINE e == reader[r]
  <2>1. /\ e # None /\ reader' = [reader EXCEPT ![r] = None] /\ UNCHANGED <<sendEpoch, sendSeq, ownEpoch, sent>>
    BY <1>4 DEF Commit
  <2>2. PICK s \in Evicted :
          IF Acceptable(s, e) THEN rxSlots' = Committed(s, e) /\ Delivers(s, e)
          ELSE rxSlots' = s /\ kept' = KeptIn(s, kept) /\ UNCHANGED <<delivered, again>>
    BY <1>4 DEF Commit
  <2> DEFINE K == KeptIn(s, kept)
  <2>3. e \in Datagrams /\ reader' \in [Readers -> Datagrams \cup {None}]
    BY <1>0, <2>1
  <2>4. K \in SUBSET Datagrams /\ K \subseteq delivered
    BY <1>0 DEF KeptIn, DgInv
  <2>5. SlotsInv(s, K) /\ s[1] \in SlotType /\ s[2] \in SlotType
    <3>1. SlotsInv(s, K)
      BY <1>0, EvictKeeps
    <3> QED BY <3>1 DEF SlotsInv, SlotOK
  <2>6. CASE ~Acceptable(s, e)
    <3>1. rxSlots' = s /\ kept' = K /\ UNCHANGED <<delivered, again>>
      BY <2>2, <2>6
    <3> HIDE DEF K, e
    <3>2. SlotsInv(rxSlots, kept)'
      BY <2>5, <3>1 DEF SlotsInv, SlotOK, Blocked
    <3> QED BY <2>1, <2>3, <2>4, <3>1, <3>2 DEF DgInv
  <2>7. CASE Acceptable(s, e)
    <3>1. /\ rxSlots' = Committed(s, e) /\ delivered' = delivered \cup {e}
          /\ again' = again \cup ({e} \cap K) /\ kept' = KeptIn(rxSlots', K \cup {e})
      BY <2>2, <2>7 DEF Delivers
    <3> HIDE DEF K, e
    <3>2. e \notin K
      <4> SUFFICES ASSUME e \in K PROVE FALSE
        OBVIOUS
      <4>1. Blocked(s, e)
        BY <2>5 DEF SlotsInv
      <4> QED BY <2>3, <2>5, <2>7, <4>1, BlockedIsRefused
    <3>3. again' = {}
      BY <1>0, <3>1, <3>2
    <3>4. SlotsInv(rxSlots, kept)'
      BY <2>3, <2>4, <2>5, <2>7, <3>1, CommitSlots
    <3>5. kept' \subseteq delivered' /\ delivered' \subseteq Datagrams
      BY <1>0, <2>3, <2>4, <3>1 DEF KeptIn
    <3> QED BY <2>1, <2>3, <3>3, <3>4, <3>5 DEF DgInv
  <2> QED BY <2>6, <2>7
<1>5. CASE OwnRotates
  BY <1>a, <1>5 DEF OwnRotates, DgInv
<1>6. CASE UNCHANGED dgVars
  BY <1>a, <1>6 DEF dgVars, DgInv
<1> QED BY <1>1, <1>3, <1>4, <1>5, <1>6 DEF DgNext
-----------------------------------------------------------------------------

\* The invariant holds of a new session, and every step keeps it.
LEMMA DgInduction == DgSpec => []DgInv
<1>1. DgInit => DgInv
  <2> SUFFICES ASSUME DgInit PROVE DgInv
    OBVIOUS
  <2>1. Empty \in SlotType /\ ~Used(Empty)
    BY DEF Empty, SlotType, Used
  <2>2. rxSlots[1] = Empty /\ rxSlots[2] = Empty /\ kept = {}
    BY DEF DgInit
  <2>3. SlotsInv(rxSlots, kept)
    BY <2>1, <2>2 DEF SlotsInv, SlotOK
  <2> QED BY <2>3 DEF DgInit, DgInv
<1>2. DgInv /\ [DgNext]_dgVars => DgInv'
  BY DgStep
<1> QED BY <1>1, <1>2, PTL DEF DgSpec

\* The slots keep their shape, for every window and any number of receiving tasks
\* (EpochRxSlot, commit_replay, evict_old_rx_slots).
THEOREM DatagramTypeCorrect == DgSpec => []DgTypeOK
<1>1. DgInv => DgTypeOK
  BY DEF DgInv, SlotsInv, SlotOK, DgTypeOK
<1> QED BY <1>1, DgInduction, PTL

\* From the moment the current slot is taken up until it is cleared as idle, no datagram of
\* its epoch or an earlier one is delivered twice, for every window, any number of receiving
\* tasks, and whatever the network does with the copies (precheck_replay, commit_replay,
\* evict_old_rx_slots).
THEOREM DeliveredAtMostOnce == DgSpec => []AtMostOnce
<1>1. DgInv => AtMostOnce
  BY DEF DgInv, AtMostOnce
<1> QED BY <1>1, DgInduction, PTL

\* Nothing is refused without a reason: a datagram the session refuses while it keeps the
\* datagram's epoch was delivered, or is a whole window below one that was (can_accept,
\* accept).
THEOREM RefusalHasReason == DgSpec => []RefusedWithReason
<1>1. DgInv => RefusedWithReason
  <2> SUFFICES ASSUME DgInv, NEW d \in sent, ~Acceptable(rxSlots, d),
                      d.epoch \in {rxSlots[1].epoch, rxSlots[2].epoch}
               PROVE  d \in delivered \/ \E e \in delivered : e.epoch = d.epoch /\ e.seq >= d.seq + Window
    BY DEF RefusedWithReason
  <2>1. d \in Datagrams /\ d.seq \in Nat /\ d.epoch \in Nat
    BY DEF DgInv, Datagrams
  <2>2. PICK i \in 1 .. 2 : d.epoch = rxSlots[i].epoch /\ ~CanAccept(rxSlots[i], d.seq)
    BY DEF Acceptable
  <2> DEFINE slot == rxSlots[i]
  <2>3. SlotOK(slot) /\ Used(slot)
    <3>1. SlotOK(slot)
      BY DEF DgInv, SlotsInv
    <3>2. slot # Empty
      BY <2>1, <2>2 DEF Empty
    <3> QED BY <3>1, <3>2 DEF Used
  <2>4. d.epoch = slot.epoch /\ ~CanAccept(slot, d.seq)
    BY <2>2
  <2> HIDE DEF slot
  <2>5. /\ slot.max \in Int /\ 0 \in slot.seen
        /\ \A k \in slot.seen : [epoch |-> slot.epoch, seq |-> slot.max - k] \in delivered
    BY <2>3 DEF SlotOK, SlotType
  <2>6. CASE slot.max - d.seq \in slot.seen
    <3>1. [epoch |-> slot.epoch, seq |-> slot.max - (slot.max - d.seq)] \in delivered
      BY <2>5, <2>6
    <3>2. slot.max - (slot.max - d.seq) = d.seq
      BY <2>1, <2>5
    <3>3. d = [epoch |-> slot.epoch, seq |-> d.seq]
      BY <2>1, <2>4 DEF Datagrams
    <3> QED BY <3>1, <3>2, <3>3
  <2>7. CASE slot.max - d.seq \notin slot.seen
    <3>1. slot.max - d.seq >= Window
      BY <2>1, <2>4, <2>5, <2>7 DEF CanAccept
    <3> DEFINE e == [epoch |-> slot.epoch, seq |-> slot.max - 0]
    <3>2. e \in delivered /\ e.epoch = d.epoch
      BY <2>4, <2>5
    <3>3. e.seq >= d.seq + Window
      BY <2>1, <2>5, <3>1
    <3> HIDE DEF e
    <3> QED BY <3>2, <3>3
  <2> QED BY <2>6, <2>7
<1> QED BY <1>1, DgInduction, PTL

-----------------------------------------------------------------------------
(* The rate limiter. *)
HIDE DatagramAssumption
USE BucketAssumption

Places == {"idle", "chunk", "check", "take", "sleep"}
Tasks == [at : Places, left : Nat, listening : BOOLEAN,
          notified : BOOLEAN, until : Int, contended : BOOLEAN]

\* A task listens before it reads the flag, so the notification reaches every task that read
\* it too early to see the stop.
Reached(c) ==
  /\ consumer[c].at \in {"check", "take", "sleep"} => consumer[c].listening
  /\ bucketStopped = "yes" /\ consumer[c].at \in {"take", "sleep"} => consumer[c].notified

\* The tokens a sleeper waits for are there, or will have been generated when its sleep ends.
Awaited(c) ==
  consumer[c].at = "sleep" /\ ~consumer[c].contended =>
    \/ available >= Least(consumer[c].left, Capacity)
    \/ available * Second + remainder + FillRate * (consumer[c].until - lastRefill)
         >= Least(consumer[c].left, Capacity) * Second

BucketInv == TbTypeOK /\ RateBound
TasksOK == consumer \in [Consumers -> Tasks] /\ bucketStopped \in {"no", "stored", "yes"}
TaskInv == TasksOK /\ \A c \in Consumers : Reached(c) /\ Awaited(c)

\* The division behind a refill: the whole tokens and the fraction carried over are what was
\* generated, no more (refill's generated / NANOS_PER_SECOND and generated % NANOS_PER_SECOND).
LEMMA DivisionExact ==
  ASSUME NEW g \in Nat
  PROVE  /\ g \div Second \in Nat /\ g % Second \in 0 .. Second - 1
         /\ g = Second * (g \div Second) + (g % Second)
OBVIOUS

\* Products distribute over sums, stated where the provers need it for the conversions
\* between tokens and ticks.
LEMMA Distribute ==
  ASSUME NEW a \in Int, NEW b \in Int, NEW c \in Int
  PROVE  /\ a * (b + c) = a * b + a * c /\ (b + c) * a = b * a + c * a
         /\ a * (b - c) = a * b - a * c
OBVIOUS

\* The product of naturals is one, and is monotone.
LEMMA ProductGrows ==
  ASSUME NEW a \in Nat, NEW b \in Nat, NEW c \in Nat, b <= c
  PROVE  a * b \in Nat /\ a * b <= a * c
OBVIOUS

\* Refilling, whenever it happens, keeps the bucket within its capacity and within the rate
\* (refill's two ways out: the bucket is full, or the remainder is kept).
LEMMA RefillFacts ==
  ASSUME BucketInv
  PROVE  /\ RefilledTokens \in available .. Capacity /\ RefilledRemainder \in 0 .. Second - 1
         /\ (metered + RefilledTokens) * Second + RefilledRemainder
              <= Capacity * Second + FillRate * clock
         /\ \/ RefilledTokens = Capacity
            \/ RefilledTokens * Second + RefilledRemainder
                 = available * Second + remainder + FillRate * (clock - lastRefill)
<1> DEFINE q == Generated \div Second
           t == FillRate * (clock - lastRefill)
<1>1. /\ clock \in Nat /\ metered \in Nat /\ available \in 0 .. Capacity
      /\ remainder \in 0 .. Second - 1 /\ lastRefill \in 0 .. clock
  BY DEF BucketInv, TbTypeOK
<1>2. t \in Nat /\ t = FillRate * clock - FillRate * lastRefill
  <2>1. clock - lastRefill \in Nat
    BY <1>1
  <2>2. t \in Nat
    BY <2>1, ProductGrows
  <2> QED BY <1>1, <2>2, Distribute
<1>3. Generated = t + remainder /\ Generated \in Nat
  BY <1>1, <1>2 DEF Generated
<1>4. q \in Nat /\ Generated % Second \in 0 .. Second - 1 /\ Generated = Second * q + (Generated % Second)
  BY <1>3, DivisionExact
<1>5. (metered + available) * Second + remainder <= Capacity * Second + FillRate * lastRefill
  BY DEF BucketInv, RateBound
<1>6. (metered + available) * Second = metered * Second + available * Second
  BY <1>1, Distribute
<1>7. /\ FillRate * clock \in Int /\ FillRate * lastRefill \in Int /\ Capacity * Second \in Int
      /\ metered * Second \in Int /\ available * Second \in Int
  BY <1>1
<1>8. CASE clock = lastRefill
  <2>1. RefilledTokens = available /\ RefilledRemainder = remainder
    BY <1>8 DEF RefilledTokens, RefilledRemainder
  <2>2. t = 0
    BY <1>2, <1>7, <1>8
  <2> QED BY <1>1, <1>5, <1>7, <1>8, <2>1, <2>2
<1>9. CASE clock # lastRefill /\ (available = Capacity \/ Full)
  <2>1. RefilledTokens = Capacity /\ RefilledRemainder = 0
    BY <1>9 DEF RefilledTokens, RefilledRemainder
  <2>2. (metered + Capacity) * Second = metered * Second + Capacity * Second
    BY <1>1, Distribute
  <2>3. Capacity * Second <= available * Second + Generated
    <3>1. CASE available = Capacity
      BY <3>1, <1>3, <1>7
    <3>2. CASE Full
      <4>1. Capacity - available <= q /\ Capacity - available \in Nat
        BY <3>2, <1>1 DEF Full
      <4>2. Second * (Capacity - available) <= Second * q
        BY <4>1, <1>4, ProductGrows
      <4>3. Second * (Capacity - available) = Second * Capacity - Second * available
        BY <1>1, Distribute
      <4>4. Second * Capacity = Capacity * Second /\ Second * available = available * Second /\ Second * q \in Int
        BY <1>1, <1>4
      <4> QED BY <4>2, <4>3, <4>4, <1>3, <1>4, <1>7
    <3> QED BY <3>1, <3>2, <1>9
  <2>4. (metered + Capacity) * Second + 0 <= Capacity * Second + FillRate * clock
    BY <2>2, <2>3, <1>1, <1>2, <1>3, <1>5, <1>6, <1>7
  <2> QED BY <1>1, <2>1, <2>4
<1>10. CASE clock # lastRefill /\ available # Capacity /\ ~Full
  <2>1. RefilledTokens = available + q /\ RefilledRemainder = Generated % Second
    BY <1>10 DEF RefilledTokens, RefilledRemainder
  <2>2. q < Capacity - available
    BY <1>10, <1>1, <1>4 DEF Full
  <2>3. /\ (available + q) * Second = available * Second + Second * q
        /\ (metered + (available + q)) * Second = metered * Second + (available + q) * Second
        /\ Second * q \in Int /\ (available + q) * Second \in Int
    <3>1. available \in Int /\ q \in Int /\ metered \in Int /\ Second \in Int /\ available + q \in Int
      BY <1>1, <1>4
    <3> HIDE DEF q
    <3>2. q * Second = Second * q
      BY <3>1
    <3> QED BY <3>1, <3>2, Distribute
  <2>4. (available + q) * Second + (Generated % Second) = available * Second + remainder + t
    <3> DEFINE r == Generated % Second
    <3>1. r \in Int /\ q \in Int /\ Generated = Second * q + r /\ Generated = t + remainder
      BY <1>3, <1>4
    <3>2. t \in Int /\ remainder \in Int
      BY <1>1, <1>2
    <3> HIDE DEF r, q, t
    <3>3. (available + q) * Second + r = available * Second + remainder + t
      BY <2>3, <3>1, <3>2, <1>7
    <3> QED BY <3>3 DEF r
  <2>5. (metered + (available + q)) * Second + (Generated % Second) <= Capacity * Second + FillRate * clock
    BY <2>3, <2>4, <1>1, <1>2, <1>3, <1>4, <1>5, <1>6, <1>7
  <2> QED BY <1>1, <1>4, <2>1, <2>2, <2>4, <2>5
<1> QED BY <1>8, <1>9, <1>10
\* What a sleeper waits for it still has coming after a refill (try_consume_locked refills for
\* whoever asks, and takes nothing when there is too little).
LEMMA RefillAwaited ==
  ASSUME BucketInv, NEW n \in 0 .. Capacity, NEW u \in Int,
         \/ available >= n
         \/ available * Second + remainder + FillRate * (u - lastRefill) >= n * Second
  PROVE  \/ RefilledTokens >= n
         \/ RefilledTokens * Second + RefilledRemainder + FillRate * (u - clock) >= n * Second
<1>1. clock \in Int /\ lastRefill \in Int /\ available \in 0 .. Capacity /\ remainder \in Int
  BY DEF BucketInv, TbTypeOK
<1>2. RefilledTokens \in available .. Capacity /\ RefilledRemainder \in Int
  BY RefillFacts
<1>3. CASE available >= n \/ RefilledTokens = Capacity
  BY <1>1, <1>2, <1>3
<1>4. CASE available < n /\ RefilledTokens # Capacity
  <2>1. RefilledTokens * Second + RefilledRemainder
          = available * Second + remainder + FillRate * (clock - lastRefill)
    BY <1>4, RefillFacts
  <2>2. FillRate * (clock - lastRefill) + FillRate * (u - clock) = FillRate * (u - lastRefill)
    <3>1. FillRate * ((clock - lastRefill) + (u - clock))
            = FillRate * (clock - lastRefill) + FillRate * (u - clock)
      BY <1>1, Distribute
    <3>2. (clock - lastRefill) + (u - clock) = u - lastRefill
      BY <1>1
    <3> QED BY <3>1, <3>2
  <2>3. available * Second + remainder + FillRate * (u - lastRefill) >= n * Second
    BY <1>4, <1>1
  <2>4. /\ FillRate * (clock - lastRefill) \in Int /\ FillRate * (u - clock) \in Int
        /\ FillRate * (u - lastRefill) \in Int /\ available * Second \in Int /\ n * Second \in Int
        /\ RefilledTokens * Second \in Int
    BY <1>1, <1>2
  <2> QED BY <2>1, <2>2, <2>3, <2>4, <1>1, <1>2
<1> QED BY <1>1, <1>3, <1>4

\* The sleep computed for the missing tokens is long enough to generate them
\* (consume_chunk's div_ceil).
LEMMA SleepLongEnough ==
  ASSUME BucketInv, NEW n \in 0 .. Capacity, RefilledTokens < n
  PROVE  /\ SleepFor(n - RefilledTokens) \in Nat
         /\ RefilledTokens * Second + RefilledRemainder + FillRate * SleepFor(n - RefilledTokens)
              >= n * Second
<1> DEFINE m == n - RefilledTokens
           need == m * Second - RefilledRemainder
           ticks == (need + FillRate - 1) \div FillRate
<1>1. RefilledTokens \in Nat /\ RefilledTokens <= Capacity /\ RefilledRemainder \in 0 .. Second - 1
  BY RefillFacts DEF BucketInv, TbTypeOK
<1>2. m \in Nat /\ m >= 1
  BY <1>1
<1>3. m * Second = n * Second - RefilledTokens * Second
      /\ n * Second \in Int /\ RefilledTokens * Second \in Int
  <2>1. m = n - RefilledTokens /\ n \in Int /\ RefilledTokens \in Int
    BY <1>1
  <2>2. Second * (n - RefilledTokens) = Second * n - Second * RefilledTokens
    BY <2>1, Distribute
  <2>3. /\ Second * n = n * Second /\ Second * RefilledTokens = RefilledTokens * Second
        /\ Second * m = m * Second
    BY <2>1, <1>2
  <2> QED BY <2>1, <2>2, <2>3
<1>4. need \in Nat
  <2>1. Second * 1 <= Second * m
    BY <1>2, ProductGrows
  <2>2. Second * m = m * Second /\ m * Second \in Int
    BY <1>2
  <2> QED BY <2>1, <2>2, <1>1
<1>5. ticks \in Nat /\ FillRate * ticks >= need
  <2> DEFINE g == need + FillRate - 1
  <2>1. g \in Nat
    BY <1>4
  <2>2. ticks = g \div FillRate
    OBVIOUS
  <2> HIDE DEF g, ticks
  <2>3. /\ g \div FillRate \in Nat /\ g % FillRate \in 0 .. FillRate - 1
        /\ g = FillRate * (g \div FillRate) + (g % FillRate)
    BY <2>1
  <2>4. FillRate * ticks \in Int
    BY <2>2, <2>3
  <2> QED BY <2>2, <2>3, <2>4, <1>4 DEF g
<1>6. SleepFor(m) = IF ticks < MinSleep THEN MinSleep ELSE ticks
  BY DEF SleepFor
<1> HIDE DEF ticks, need
<1>7. SleepFor(m) \in Nat /\ ticks <= SleepFor(m)
  BY <1>5, <1>6
<1>8. FillRate * ticks <= FillRate * SleepFor(m)
  BY <1>5, <1>7, ProductGrows
<1>9. FillRate * ticks \in Int /\ FillRate * SleepFor(m) \in Int
  BY <1>5, <1>7
<1>10. RefilledTokens * Second + RefilledRemainder + FillRate * SleepFor(m) >= n * Second
  BY <1>1, <1>3, <1>4, <1>5, <1>8, <1>9 DEF need
<1> QED BY <1>7, <1>10
\* Taking tokens, or failing to, keeps the bucket's promise (try_consume_locked).
LEMMA DrawKeeps ==
  ASSUME BucketInv, NEW n \in Nat, Draw(n)
  PROVE  BucketInv'
<1>1. /\ clock' = clock /\ lastRefill' = clock /\ remainder' = RefilledRemainder
      /\ available' = IF RefilledTokens >= n THEN RefilledTokens - n ELSE RefilledTokens
      /\ metered' = IF RefilledTokens >= n THEN metered + n ELSE metered
  BY DEF Draw
<1>2. clock \in Nat /\ metered \in Nat /\ available \in 0 .. Capacity
  BY DEF BucketInv, TbTypeOK
<1>3. /\ RefilledTokens \in available .. Capacity /\ RefilledRemainder \in 0 .. Second - 1
      /\ (metered + RefilledTokens) * Second + RefilledRemainder <= Capacity * Second + FillRate * clock
  BY RefillFacts
<1>4. metered' + available' = metered + RefilledTokens
  BY <1>1, <1>2, <1>3
<1>5. TbTypeOK'
  BY <1>1, <1>2, <1>3 DEF TbTypeOK
<1>6. RateBound'
  BY <1>1, <1>3, <1>4 DEF RateBound
<1> QED BY <1>5, <1>6 DEF BucketInv

\* A chunk fits the bucket (consume splits what it wants, try_consume charges a full bucket).
LEMMA ChunkFits ==
  ASSUME NEW n \in Nat
  PROVE  Least(n, Capacity) \in 0 .. Capacity /\ n - Least(n, Capacity) \in Nat
BY DEF Least

\* The bucket's promise is inductive, given that what is asked for is a number.
LEMMA BucketStep ==
  ASSUME BucketInv, TasksOK, [TbNext]_tbVars
  PROVE  BucketInv'
<1>1. CASE Tick
  BY <1>1 DEF Tick, BucketInv, TbTypeOK, RateBound
<1>2. ASSUME NEW n \in 0 .. MaxWant, TryConsume(n)
      PROVE  BucketInv'
  <2>1. Least(n, Capacity) \in Nat
    BY ChunkFits
  <2> QED BY <1>2, <2>1, DrawKeeps DEF TryConsume
<1>3. ASSUME NEW c \in Consumers, TakeChunk(c)
      PROVE  BucketInv'
  <2>1. consumer[c].left \in Nat
    BY DEF TasksOK, Tasks
  <2>2. Least(consumer[c].left, Capacity) \in Nat
    BY <2>1 DEF Least
  <2> QED BY <1>3, <2>2, DrawKeeps DEF TakeChunk
<1>4. CASE UNCHANGED <<clock, available, lastRefill, remainder, metered>>
  BY <1>4 DEF BucketInv, TbTypeOK, RateBound
<1> QED
  BY <1>1, <1>2, <1>3, <1>4, Zenon
     DEF TbNext, tbVars, StopStore, StopNotify, Consume, Listen, CheckStopped, Wake, Cancel

\* A task consume begins, or takes up again for its next chunk, is a task.
LEMMA TaskBegun ==
  ASSUME NEW a \in Places, NEW l \in Nat
  PROVE  /\ [NoTask EXCEPT !.at = a, !.left = l] \in Tasks
         /\ [NoTask EXCEPT !.at = a, !.left = l, !.listening = TRUE] \in Tasks
<1>1. NoTask \in Tasks
  BY DEF NoTask, Tasks, Places
<1>2. ASSUME NEW t \in Tasks
      PROVE  /\ [t EXCEPT !.at = a, !.left = l] \in Tasks
             /\ [t EXCEPT !.at = a, !.left = l, !.listening = TRUE] \in Tasks
  BY Zenon DEF Tasks
<1> QED BY <1>1, <1>2, Zenon

\* A task that moves on, or goes to sleep, is still a task (consume_chunk).
LEMMA TaskMoves ==
  ASSUME NEW t \in Tasks, NEW a \in Places
  PROVE  /\ [t EXCEPT !.at = a] \in Tasks
         /\ \A u \in Int : [t EXCEPT !.at = a, !.listening = TRUE, !.until = u] \in Tasks
BY Zenon DEF Tasks, Places

\* The tasks keep their shape whatever the bucket does.
LEMMA TasksStep ==
  ASSUME BucketInv, TasksOK, [TbNext]_tbVars
  PROVE  TasksOK'
<1> USE DEF TasksOK
<1>0. NoTask \in Tasks
  BY DEF NoTask, Tasks, Places
<1>1. ASSUME NEW t \in [Consumers -> Tasks], NEW b \in BOOLEAN
      PROVE  Contend(t, b) \in [Consumers -> Tasks]
  BY DEF Contend, Tasks
<1>2. ASSUME NEW n \in 0 .. MaxWant, TryConsume(n)
      PROVE  TasksOK'
  <2>1. (RefilledTokens >= Least(n, Capacity)) \in BOOLEAN
    OBVIOUS
  <2>2. consumer' = Contend(consumer, RefilledTokens >= Least(n, Capacity)) /\ bucketStopped' = bucketStopped
    BY <1>2 DEF TryConsume, Draw
  <2> QED BY <1>1, <2>1, <2>2, Zenon
<1>3. ASSUME NEW c \in Consumers, TakeChunk(c)
      PROVE  TasksOK'
  <2> DEFINE chunk == Least(consumer[c].left, Capacity)
             rest == consumer[c].left - chunk
             after == IF rest = 0 THEN NoTask ELSE [NoTask EXCEPT !.at = "chunk", !.left = rest]
             asleep == [consumer[c] EXCEPT !.at = "sleep", !.listening = TRUE,
                                           !.until = clock + SleepFor(chunk - RefilledTokens)]
  <2>1. consumer[c] \in Tasks /\ chunk \in 0 .. Capacity /\ rest \in Nat
    BY ChunkFits, Zenon DEF Tasks
  <2>2. after \in Tasks
    BY <2>1, <1>0, TaskBegun, Zenon DEF Places
  <2>3. CASE RefilledTokens >= chunk
    <3>1. consumer' = Contend([consumer EXCEPT ![c] = after], TRUE)
      BY <1>3, <2>3 DEF TakeChunk
    <3> HIDE DEF after
    <3>2. [consumer EXCEPT ![c] = after] \in [Consumers -> Tasks]
      BY <2>2
    <3> QED BY <1>1, <1>3, <3>1, <3>2, Zenon DEF TakeChunk, Draw
  <2>4. CASE ~(RefilledTokens >= chunk)
    <3>1. consumer' = [consumer EXCEPT ![c] = asleep]
      BY <1>3, <2>4 DEF TakeChunk
    <3>2. RefilledTokens \in Int /\ clock \in Nat
      BY RefillFacts DEF BucketInv, TbTypeOK
    <3>3. SleepFor(chunk - RefilledTokens) \in Nat
      <4> HIDE DEF chunk
      <4> QED BY <2>1, <2>4, <3>2, SleepLongEnough
    <3>4. asleep \in Tasks
      <4>1. clock + SleepFor(chunk - RefilledTokens) \in Int
        BY <3>2, <3>3
      <4> QED BY <2>1, <4>1, TaskMoves, Zenon DEF Places
    <3> HIDE DEF asleep
    <3> QED BY <1>3, <3>1, <3>4, Zenon DEF TakeChunk, Draw
  <2> QED BY <2>3, <2>4
<1>4. ASSUME NEW c \in Consumers,
             (\E n \in 0 .. MaxWant : Consume(c, n)) \/ Listen(c) \/ CheckStopped(c) \/ Wake(c) \/ Cancel(c)
      PROVE  TasksOK'
  <2>1. consumer[c] \in Tasks
    OBVIOUS
  <2>2. PICK t \in Tasks : consumer' = [consumer EXCEPT ![c] = t]
    <3>1. CASE Listen(c)
      <4>1. consumer[c].left \in Nat
        BY <2>1 DEF Tasks
      <4>2. [NoTask EXCEPT !.at = "check", !.left = consumer[c].left, !.listening = TRUE] \in Tasks
        BY <4>1, TaskBegun, Zenon DEF Places
      <4> QED BY <3>1, <4>2, Zenon DEF Listen
    <3>2. CASE CheckStopped(c)
      <4>1. [consumer[c] EXCEPT !.at = "take"] \in Tasks
        BY <2>1, TaskMoves, Zenon DEF Places
      <4> QED BY <3>2, <4>1, <1>0, Zenon DEF CheckStopped
    <3>3. CASE Wake(c)
      <4>1. [consumer[c] EXCEPT !.at = "chunk"] \in Tasks
        BY <2>1, TaskMoves, Zenon DEF Places
      <4> QED BY <3>3, <4>1, Zenon DEF Wake
    <3>4. CASE Cancel(c)
      BY <3>4, <1>0, Zenon DEF Cancel
    <3>5. ASSUME NEW n \in 0 .. MaxWant, Consume(c, n)
          PROVE  \E t \in Tasks : consumer' = [consumer EXCEPT ![c] = t]
      <4>1. [NoTask EXCEPT !.at = "chunk", !.left = n] \in Tasks
        <5>1. n \in Nat /\ "chunk" \in Places
          BY DEF Places
        <5> QED BY <5>1, TaskBegun, Zenon
      <4> QED BY <3>5, <4>1, Zenon DEF Consume
    <3> QED BY <3>1, <3>2, <3>3, <3>4, <3>5, <1>4
  <2> QED BY <1>4, <2>2, Zenon DEF Consume, Listen, CheckStopped, Wake, Cancel
<1>5. CASE StopStore
  BY <1>5 DEF StopStore
<1>6. CASE StopNotify
  BY <1>6 DEF StopNotify, Tasks
<1>7. CASE Tick \/ UNCHANGED tbVars
  BY <1>7 DEF Tick, tbVars
<1> QED BY <1>2, <1>3, <1>4, <1>5, <1>6, <1>7 DEF TbNext
\* A task that listened before it read the flag is notified whichever way the two interleave
\* (consume_chunk's enable before the load, stop's store before notify_waiters).
LEMMA ReachedStep ==
  ASSUME TasksOK, \A c \in Consumers : Reached(c), [TbNext]_tbVars, NEW c \in Consumers
  PROVE  Reached(c)'
<1> USE DEF TasksOK
<1>0. Reached(c) /\ consumer[c] \in Tasks
  OBVIOUS
<1>1. ASSUME NEW t, NEW b, consumer' = Contend(t, b), UNCHANGED bucketStopped,
             \/ t = consumer
             \/ t \in [Consumers -> Tasks] /\ t[c] = consumer[c]
             \/ t \in [Consumers -> Tasks] /\ t[c].at \in {"idle", "chunk"}
      PROVE  Reached(c)'
  <2>1. /\ consumer'[c].at = t[c].at /\ consumer'[c].listening = t[c].listening
        /\ consumer'[c].notified = t[c].notified
    BY <1>1 DEF Contend, Tasks
  <2> QED BY <1>0, <1>1, <2>1 DEF Reached
<1>2. ASSUME NEW n \in 0 .. MaxWant, TryConsume(n)
      PROVE  Reached(c)'
  BY <1>1, <1>2 DEF TryConsume, Draw
<1>3. ASSUME NEW d \in Consumers, TakeChunk(d)
      PROVE  Reached(c)'
  <2> DEFINE chunk == Least(consumer[d].left, Capacity)
             rest == consumer[d].left - chunk
             after == IF rest = 0 THEN NoTask ELSE [NoTask EXCEPT !.at = "chunk", !.left = rest]
  <2>1. bucketStopped' = bucketStopped /\ consumer[d].at = "take" /\ consumer[d] \in Tasks
    BY <1>3 DEF TakeChunk, Draw
  <2>2. CASE RefilledTokens >= chunk
    <3>1. consumer' = Contend([consumer EXCEPT ![d] = after], TRUE)
      BY <1>3, <2>2 DEF TakeChunk
    <3>2. after \in Tasks /\ after.at \in {"idle", "chunk"}
      <4>1. rest \in Nat
        <5>1. consumer[d].left \in Nat
          BY <2>1 DEF Tasks
        <5> QED BY <5>1, ChunkFits, Zenon
      <4> HIDE DEF rest
      <4>2. [NoTask EXCEPT !.at = "chunk", !.left = rest] \in Tasks
        BY <4>1, TaskBegun, Zenon DEF Places
      <4> QED BY <4>2 DEF NoTask, Tasks, Places
    <3> HIDE DEF after
    <3>3. [consumer EXCEPT ![d] = after] \in [Consumers -> Tasks]
      BY <3>2
    <3>4. \/ [consumer EXCEPT ![d] = after][c] = consumer[c]
          \/ [consumer EXCEPT ![d] = after][c].at \in {"idle", "chunk"}
      BY <3>2
    <3> QED BY <1>1, <2>1, <3>1, <3>3, <3>4, Zenon
  <2>3. CASE ~(RefilledTokens >= chunk)
    <3>1. consumer' = [consumer EXCEPT ![d] = [@ EXCEPT !.at = "sleep", !.listening = TRUE,
                                            !.until = clock + SleepFor(chunk - RefilledTokens)]]
      BY <1>3, <2>3 DEF TakeChunk
    <3>2. CASE c = d
      <4>1. consumer'[c].listening /\ consumer'[c].notified = consumer[c].notified
        BY <2>1, <3>1, <3>2 DEF Tasks
      <4> QED BY <1>0, <2>1, <3>2, <4>1 DEF Reached
    <3>3. CASE c # d
      BY <1>0, <2>1, <3>1, <3>3 DEF Reached
    <3> QED BY <3>2, <3>3
  <2> QED BY <2>2, <2>3
<1>4. ASSUME NEW d \in Consumers,
             (\E n \in 0 .. MaxWant : Consume(d, n)) \/ Listen(d) \/ CheckStopped(d) \/ Wake(d) \/ Cancel(d)
      PROVE  Reached(c)'
  <2>0. bucketStopped' = bucketStopped
    BY <1>4, Zenon DEF Consume, Listen, CheckStopped, Wake, Cancel
  <2>1. CASE c # d
    <3>1. consumer'[c] = consumer[c]
      BY <1>4, <2>1, Zenon DEF Consume, Listen, CheckStopped, Wake, Cancel
    <3> QED BY <1>0, <2>0, <3>1 DEF Reached
  <2>2. CASE c = d
    <3>1. CASE Listen(d)
      <4>1. consumer'[c].at = "check" /\ consumer'[c].listening
        BY <2>2, <3>1 DEF Listen, NoTask
      <4> QED BY <4>1 DEF Reached
    <3>2. CASE CheckStopped(d)
      <4>1. CASE bucketStopped = "no"
        <5>1. consumer[c].at = "check" /\ consumer'[c].listening = consumer[c].listening
          BY <1>0, <2>2, <3>2, <4>1 DEF CheckStopped, Tasks
        <5> QED BY <1>0, <2>0, <4>1, <5>1 DEF Reached
      <4>2. CASE bucketStopped # "no"
        <5>1. consumer'[c].at = "idle"
          BY <2>2, <3>2, <4>2 DEF CheckStopped, NoTask
        <5> QED BY <5>1 DEF Reached
      <4> QED BY <4>1, <4>2
    <3>3. CASE Wake(d)
      <4>1. consumer'[c].at = "chunk"
        BY <1>0, <2>2, <3>3 DEF Wake, Tasks
      <4> QED BY <4>1 DEF Reached
    <3>4. CASE Cancel(d)
      <4>1. consumer'[c].at = "idle"
        BY <2>2, <3>4 DEF Cancel, NoTask
      <4> QED BY <4>1 DEF Reached
    <3>5. ASSUME NEW n \in 0 .. MaxWant, Consume(d, n)
          PROVE  Reached(c)'
      <4>1. consumer'[c].at = "chunk"
        BY <2>2, <3>5 DEF Consume, NoTask
      <4> QED BY <4>1 DEF Reached
    <3> QED BY <1>4, <3>1, <3>2, <3>3, <3>4, <3>5
  <2> QED BY <2>1, <2>2
<1>5. CASE StopStore
  BY <1>0, <1>5 DEF StopStore, Reached
<1>6. CASE StopNotify
  <2>1. /\ consumer'[c].at = consumer[c].at /\ consumer'[c].listening = consumer[c].listening
        /\ consumer'[c].notified = consumer[c].listening
    BY <1>0, <1>6 DEF StopNotify, Tasks
  <2> QED BY <1>0, <2>1 DEF Reached
<1>7. CASE Tick \/ UNCHANGED tbVars
  BY <1>0, <1>7 DEF Tick, tbVars, Reached
<1> QED BY <1>2, <1>3, <1>4, <1>5, <1>6, <1>7 DEF TbNext
\* A sleeper's tokens are coming as long as nobody else takes any: the refills others cause
\* lose nothing of what it computed its sleep from (consume_chunk, try_consume_locked).
LEMMA AwaitedStep ==
  ASSUME BucketInv, TasksOK, \A c \in Consumers : Awaited(c), [TbNext]_tbVars, NEW c \in Consumers
  PROVE  Awaited(c)'
<1> USE DEF TasksOK
<1>0. Awaited(c) /\ consumer[c] \in Tasks /\ consumer[c].left \in Nat /\ consumer[c].until \in Int
  BY DEF Tasks
<1>1. ASSUME consumer'[c] = consumer[c], NEW n, Draw(n), ~(RefilledTokens >= n)
      PROVE  Awaited(c)'
  <2>1. SUFFICES ASSUME consumer[c].at = "sleep", ~consumer[c].contended
                 PROVE  Awaited(c)'
    BY <1>1 DEF Awaited
  <2> DEFINE l == Least(consumer[c].left, Capacity)
             u == consumer[c].until
  <2>2. l \in 0 .. Capacity /\ u \in Int
    BY <1>0, ChunkFits, Zenon
  <2>3. \/ available >= l
        \/ available * Second + remainder + FillRate * (u - lastRefill) >= l * Second
    BY <1>0, <2>1 DEF Awaited
  <2> HIDE DEF l, u
  <2>4. \/ RefilledTokens >= l
        \/ RefilledTokens * Second + RefilledRemainder + FillRate * (u - clock) >= l * Second
    BY <2>2, <2>3, RefillAwaited
  <2>5. available' = RefilledTokens /\ remainder' = RefilledRemainder /\ lastRefill' = clock
    BY <1>1 DEF Draw
  <2> QED BY <1>1, <2>4, <2>5 DEF Awaited, l, u
<1>2. ASSUME consumer'[c] = consumer[c], UNCHANGED <<available, lastRefill, remainder>>
      PROVE  Awaited(c)'
  BY <1>0, <1>2 DEF Awaited
<1>3. ASSUME consumer'[c].at # "sleep"
      PROVE  Awaited(c)'
  BY <1>3 DEF Awaited
<1>4. ASSUME consumer'[c].contended = TRUE
      PROVE  Awaited(c)'
  BY <1>4 DEF Awaited
<1>5. ASSUME NEW n \in 0 .. MaxWant, TryConsume(n)
      PROVE  Awaited(c)'
  <2>1. Draw(Least(n, Capacity)) /\ consumer' = Contend(consumer, RefilledTokens >= Least(n, Capacity))
    BY <1>5 DEF TryConsume
  <2>2. CASE RefilledTokens >= Least(n, Capacity)
    <3>1. consumer'[c].at = consumer[c].at /\ (consumer[c].at = "sleep" => consumer'[c].contended = TRUE)
      BY <1>0, <2>1, <2>2, Zenon DEF Contend, Tasks
    <3> QED BY <1>3, <1>4, <3>1, Zenon
  <2>3. CASE ~(RefilledTokens >= Least(n, Capacity))
    <3>1. consumer'[c] = [consumer[c] EXCEPT !.contended = consumer[c].contended]
      BY <1>0, <2>1, <2>3 DEF Contend, Tasks
    <3>2. consumer'[c] = consumer[c]
      BY <1>0, <3>1 DEF Tasks
    <3> QED BY <1>1, <2>1, <2>3, <3>2
  <2> QED BY <2>2, <2>3
<1>6. ASSUME NEW d \in Consumers, TakeChunk(d)
      PROVE  Awaited(c)'
  <2> DEFINE chunk == Least(consumer[d].left, Capacity)
             rest == consumer[d].left - chunk
             after == IF rest = 0 THEN NoTask ELSE [NoTask EXCEPT !.at = "chunk", !.left = rest]
             asleep == [consumer[d] EXCEPT !.at = "sleep", !.listening = TRUE,
                                           !.until = clock + SleepFor(chunk - RefilledTokens)]
  <2>1. Draw(chunk) /\ consumer[d] \in Tasks /\ consumer[d].left \in Nat
    BY <1>6 DEF TakeChunk, Tasks
  <2>2. CASE RefilledTokens >= chunk
    <3>1. consumer' = Contend([consumer EXCEPT ![d] = after], TRUE)
      BY <1>6, <2>2 DEF TakeChunk
    <3>2. after.at # "sleep"
      BY DEF NoTask
    <3>3. rest \in Nat
      BY <2>1, ChunkFits, Zenon
    <3>4. after \in Tasks
      <4> HIDE DEF rest
      <4>1. [NoTask EXCEPT !.at = "chunk", !.left = rest] \in Tasks
        BY <3>3, TaskBegun, Zenon DEF Places
      <4> QED BY <4>1 DEF NoTask, Tasks, Places
    <3> HIDE DEF after
    <3> DEFINE w == [consumer EXCEPT ![d] = after]
    <3>5. w \in [Consumers -> Tasks] /\ (c = d => w[c].at # "sleep")
      BY <3>2, <3>4
    <3> HIDE DEF w
    <3>6. consumer'[c].at = w[c].at /\ (w[c].at = "sleep" => consumer'[c].contended = TRUE)
      BY <3>1, <3>5, Zenon DEF Contend, Tasks, w
    <3> QED BY <1>3, <1>4, <3>6, Zenon
  <2>3. CASE ~(RefilledTokens >= chunk)
    <3>1. consumer' = [consumer EXCEPT ![d] = asleep]
      BY <1>6, <2>3 DEF TakeChunk
    <3>2. CASE c # d
      <4>1. consumer'[c] = consumer[c]
        BY <3>1, <3>2
      <4> QED BY <1>1, <2>1, <2>3, <4>1
    <3>3. CASE c = d
      <4> DEFINE sl == SleepFor(chunk - RefilledTokens)
      <4>1. consumer'[c].left = consumer[c].left /\ consumer'[c].until = clock + sl
        BY <2>1, <3>1, <3>3 DEF Tasks
      <4>2. chunk \in 0 .. Capacity /\ RefilledTokens \in Int /\ clock \in Int
        <5>1. chunk \in 0 .. Capacity
          BY <2>1, ChunkFits, Zenon
        <5>2. RefilledTokens \in available .. Capacity /\ available \in Int /\ clock \in Int
          BY RefillFacts DEF BucketInv, TbTypeOK
        <5> QED BY <5>1, <5>2
      <4>3. Least(consumer'[c].left, Capacity) = chunk
        BY <4>1, <3>3
      <4> HIDE DEF chunk
      <4>4. sl \in Nat /\ RefilledTokens * Second + RefilledRemainder + FillRate * sl >= chunk * Second
        BY <2>3, <4>2, SleepLongEnough
      <4>5. available' = RefilledTokens /\ remainder' = RefilledRemainder /\ lastRefill' = clock
        BY <2>1, <2>3 DEF Draw
      <4> HIDE DEF sl
      <4>6. consumer'[c].until - lastRefill' = sl
        BY <4>1, <4>2, <4>4, <4>5
      <4> QED BY <4>3, <4>4, <4>5, <4>6 DEF Awaited
    <3> QED BY <3>2, <3>3
  <2> QED BY <2>2, <2>3
<1>7. ASSUME NEW d \in Consumers,
             (\E n \in 0 .. MaxWant : Consume(d, n)) \/ Listen(d) \/ CheckStopped(d) \/ Wake(d) \/ Cancel(d)
      PROVE  Awaited(c)'
  <2>1. CASE c # d
    BY <1>2, <1>7, <2>1, Zenon DEF Consume, Listen, CheckStopped, Wake, Cancel
  <2>2. CASE c = d
    <3>1. consumer'[c].at # "sleep"
      <4>1. CASE Listen(d)
        BY <2>2, <4>1 DEF Listen, NoTask
      <4>2. CASE Cancel(d)
        BY <2>2, <4>2 DEF Cancel, NoTask
      <4>3. ASSUME NEW n \in 0 .. MaxWant, Consume(d, n) PROVE consumer'[c].at = "chunk"
        BY <2>2, <4>3 DEF Consume, NoTask
      <4>4. CASE CheckStopped(d)
        BY <1>0, <2>2, <4>4 DEF CheckStopped, NoTask, Tasks
      <4>5. CASE Wake(d)
        BY <1>0, <2>2, <4>5 DEF Wake, Tasks
      <4> QED BY <1>7, <4>1, <4>2, <4>3, <4>4, <4>5
    <3> QED BY <1>3, <3>1
  <2> QED BY <2>1, <2>2
<1>8. CASE StopNotify
  <2>1. /\ consumer'[c].at = consumer[c].at /\ consumer'[c].contended = consumer[c].contended
        /\ consumer'[c].left = consumer[c].left /\ consumer'[c].until = consumer[c].until
    BY <1>0, <1>8 DEF StopNotify, Tasks
  <2> QED BY <1>0, <1>8, <2>1 DEF StopNotify, Awaited
<1>9. CASE Tick \/ StopStore \/ UNCHANGED tbVars
  BY <1>2, <1>9 DEF Tick, StopStore, tbVars
<1> QED BY <1>5, <1>6, <1>7, <1>8, <1>9 DEF TbNext
-----------------------------------------------------------------------------

BucketIInv == BucketInv /\ TaskInv

\* The strengthened invariant holds of a new bucket, and every step keeps it.
LEMMA BucketInduction == TbSpec => []BucketIInv
<1>1. TbInit => BucketIInv
  <2> SUFFICES ASSUME TbInit PROVE BucketIInv
    OBVIOUS
  <2>1. BucketInv
    <3>1. TbTypeOK
      BY DEF TbInit, TbTypeOK
    <3>2. (metered + available) * Second + remainder = Capacity * Second /\ FillRate * lastRefill = 0
      BY DEF TbInit
    <3>3. RateBound
      BY <3>2 DEF RateBound
    <3> QED BY <3>1, <3>3 DEF BucketInv
  <2>2. NoTask \in Tasks
    BY DEF NoTask, Tasks, Places
  <2>3. TasksOK /\ \A c \in Consumers : consumer[c].at = "idle"
    BY <2>2 DEF TbInit, TasksOK, NoTask
  <2> QED BY <2>1, <2>3 DEF BucketIInv, TaskInv, Reached, Awaited
<1>2. BucketIInv /\ [TbNext]_tbVars => BucketIInv'
  <2> SUFFICES ASSUME BucketIInv, [TbNext]_tbVars PROVE BucketIInv'
    OBVIOUS
  <2>1. BucketInv /\ TasksOK /\ \A c \in Consumers : Reached(c) /\ Awaited(c)
    BY DEF BucketIInv, TaskInv
  <2>2. BucketInv' /\ TasksOK'
    BY <2>1, BucketStep, TasksStep
  <2>3. ASSUME NEW c \in Consumers PROVE Reached(c)' /\ Awaited(c)'
    BY <2>1, ReachedStep, AwaitedStep
  <2> QED BY <2>2, <2>3 DEF BucketIInv, TaskInv
<1> QED BY <1>1, <1>2, PTL DEF TbSpec

\* What is in the bucket never exceeds its capacity and the fraction carried over stays below
\* a token, for every capacity, rate and resolution (refill).
THEOREM BucketTypeCorrect == TbSpec => []TbTypeOK
<1>1. BucketIInv => TbTypeOK
  BY DEF BucketIInv, BucketInv
<1> QED BY <1>1, BucketInduction, PTL

\* The bucket never lets through more than one full bucket and what its rate generates in the
\* time that has passed, for every capacity, rate and resolution of the clock (refill,
\* try_consume, consume_chunk).
THEOREM BucketRateBound == TbSpec => []RateBound
<1>1. BucketIInv => RateBound
  BY DEF BucketIInv, BucketInv
<1> QED BY <1>1, BucketInduction, PTL

\* The sleep consume_chunk computes is never too short: with nobody taking tokens meanwhile,
\* whoever sleeps it out finds the chunk it needs, whatever the rate and the rounding.
THEOREM SleepIsEnough == TbSpec => []SleepSuffices
<1>1. BucketIInv => SleepSuffices
  <2> SUFFICES ASSUME BucketIInv, NEW c \in Consumers, consumer[c].at = "sleep",
                      ~consumer[c].contended, clock >= consumer[c].until
               PROVE  RefilledTokens >= Least(consumer[c].left, Capacity)
    BY DEF SleepSuffices
  <2> DEFINE l == Least(consumer[c].left, Capacity)
             u == consumer[c].until
  <2>1. BucketInv /\ Awaited(c) /\ consumer[c].left \in Nat /\ u \in Int
    BY DEF BucketIInv, TaskInv, TasksOK, Tasks
  <2>2. l \in 0 .. Capacity
    BY <2>1, ChunkFits, Zenon
  <2>3. \/ available >= l
        \/ available * Second + remainder + FillRate * (u - lastRefill) >= l * Second
    BY <2>1 DEF Awaited
  <2>4. clock \in Nat /\ available \in Nat /\ u <= clock
    BY <2>1 DEF BucketInv, TbTypeOK
  <2> HIDE DEF l, u
  <2>5. /\ RefilledTokens \in available .. Capacity /\ RefilledRemainder \in 0 .. Second - 1
    BY <2>1, RefillFacts
  <2>6. \/ RefilledTokens >= l
        \/ RefilledTokens * Second + RefilledRemainder + FillRate * (u - clock) >= l * Second
    BY <2>1, <2>2, <2>3, RefillAwaited
  <2>7. FillRate * (u - clock) <= 0 /\ FillRate * (u - clock) \in Int
    BY <2>1, <2>4
  <2>8. ASSUME RefilledTokens < l PROVE FALSE
    <3>1. Second * (RefilledTokens + 1) <= Second * l
      BY <2>2, <2>4, <2>5, <2>8, ProductGrows
    <3>2. /\ Second * (RefilledTokens + 1) = RefilledTokens * Second + Second
          /\ Second * l = l * Second /\ RefilledTokens * Second \in Int /\ l * Second \in Int
      BY <2>2, <2>4, <2>5
    <3> QED BY <2>2, <2>4, <2>5, <2>6, <2>7, <2>8, <3>1, <3>2
  <2>9. RefilledTokens >= l
    BY <2>2, <2>4, <2>5, <2>8
  <2> QED BY <2>9 DEF l
<1> QED BY <1>1, BucketInduction, PTL

\* No consumer sleeps through a stop: one asleep when the stop is through has been notified,
\* however the two interleave and however many consumers there are (consume_chunk, stop).
THEOREM StopReachesAll == TbSpec => []StopReaches
<1>1. BucketIInv => StopReaches
  BY DEF BucketIInv, TaskInv, Reached, StopReaches
<1> QED BY <1>1, BucketInduction, PTL
=============================================================================
