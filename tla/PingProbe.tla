------------------------------ MODULE PingProbe ------------------------------
(* The keepalive of one peer connection as one side sees it (easytier-core,        *)
(* peers/conn): the pinger that closes the connection after MaxLoss pings without   *)
(* an answer, and the liveness probe that lets any packet of the peer stand in for  *)
(* a late pong. The pinger's task and the receiving task share the probe's atomics  *)
(* and a Notify, and every access is a step. Packets are lost, delayed and          *)
(* overtaken. Of a sequence number only "the current ping's or an older one's" is   *)
(* kept; a token is a byte in the code, and one of few here.                        *)
EXTENDS Naturals, FiniteSets

CONSTANTS MaxLoss,     \* losses in a row that close the connection: 5 in the code
          Tokens,      \* how many tokens there are before they wrap: 256 in the code
          MaxFlight    \* bound: packets on their way in one direction

ASSUME ProbeAssumption == MaxLoss \in Nat \ {0} /\ Tokens \in Nat \ {0, 1} /\ MaxFlight \in Nat

VARIABLES
  pinger,            \* the pinging task: where it is and the token it waits for, 0 for none
  losses,            \* loss_counter
  lastToken,         \* next_token
  active,            \* active_probe
  acked,             \* acknowledged_probe
  echoPermit,        \* echo_received holds a permit
  receiver,          \* the receiving task: the echo it is acknowledging, the pong it carries
  outbound, inbound, \* packets under way to the peer and from it
  echo,              \* the peer's pending_echo
  linkUp,
  answered           \* tokens whose probe the peer has received since they were given out (ghost)

probeVars == <<pinger, losses, lastToken, active, acked, echoPermit, receiver, outbound, inbound,
               echo, linkUp, answered>>

Receiving == [at |-> "next", token |-> 0, pong |-> "no"]
Packets == [ping : {"no", "old", "current"}, token : 0 .. Tokens]

ProbeInit ==
  /\ pinger = [at |-> "idle", token |-> 0] /\ losses = 0 /\ lastToken = 0
  /\ active = 0 /\ acked = 0 /\ echoPermit = FALSE /\ receiver = Receiving
  /\ outbound = {} /\ inbound = {} /\ echo = 0 /\ linkUp = TRUE /\ answered = {}

\* A packet put on its way: it is lost when the link is down, or by a full queue.
Sent(packets, p) == IF linkUp THEN {packets \cup {p}, packets} ELSE {packets}
Room(packets, p) == Cardinality(packets \cup {p}) <= MaxFlight

Aged(packets) == {[p EXCEPT !.ping = IF @ = "current" THEN "old" ELSE @] : p \in packets}

SameToken == IF lastToken = 0 THEN 1 ELSE lastToken

\* fetch_add(1) and wrapping_add(1); encode_probe keeps 0 for "none".
NextToken == (lastToken % Tokens) + 1

\* No packet lives until its token comes round again.
Recycled == \A p \in outbound \cup inbound : p.token # (lastToken % Tokens) + 1

\* The pinger begins a ping: after a loss it also starts a probe, the one still active or a
\* new one (start_probe). What is sent carries the probe unless it carries an echo of ours
\* (before_send).
StartPing ==
  LET probing == losses > 0
      new == probing /\ active = 0
      token == IF ~probing THEN 0 ELSE IF new THEN NextToken ELSE active IN
  /\ pinger.at = "idle" /\ (new => Recycled /\ echo # NextToken)
  /\ lastToken' = IF new THEN token ELSE lastToken
  /\ acked' = IF new THEN 0 ELSE acked
  /\ active' = IF new THEN token ELSE active
  /\ answered' = IF new THEN answered \ {token} ELSE answered
  /\ pinger' = [at |-> IF token = 0 THEN "await" ELSE "check", token |-> token]
  /\ \E mark \in {0, active'} :
       LET p == [ping |-> "current", token |-> mark] IN
       outbound' \in IF Room(outbound, p) THEN Sent(Aged(outbound), p) ELSE {Aged(outbound)}
  /\ inbound' = Aged(inbound)
  /\ receiver' = [receiver EXCEPT !.pong = IF @ = "current" THEN "old" ELSE @]
  /\ UNCHANGED <<losses, echoPermit, echo, linkUp>>

\* Any other packet to the peer carries an active probe too.
SendData ==
  LET p == [ping |-> "no", token |-> active] IN
  /\ active # 0 /\ linkUp /\ Room(outbound, p) /\ outbound' = outbound \cup {p}
  /\ UNCHANGED <<pinger, losses, lastToken, active, acked, echoPermit, receiver, inbound, echo, linkUp, answered>>

\* The peer receives a packet: a probe is queued as an echo, over one still there; a ping
\* goes back as a pong, which takes the echo unless another packet is to carry it.
PeerReceives(p) ==
  LET pending == IF p.token # 0 THEN p.token ELSE echo
      pong(mark) == [ping |-> p.ping, token |-> mark] IN
  /\ linkUp /\ p \in outbound /\ outbound' = outbound \ {p}
  /\ answered' = IF p.token # 0 THEN answered \cup {p.token} ELSE answered
  /\ \/ p.ping = "no" /\ echo' = pending /\ UNCHANGED inbound
     \/ \E mark \in {0, pending} :
          /\ p.ping # "no" /\ Room(inbound, pong(mark))
          /\ inbound' \in Sent(inbound, pong(mark)) /\ echo' = IF mark = 0 THEN pending ELSE 0
  /\ UNCHANGED <<pinger, losses, lastToken, active, acked, echoPermit, receiver, linkUp>>

\* Any other packet of the peer takes the echo along.
PeerSends ==
  LET p == [ping |-> "no", token |-> echo] IN
  /\ echo # 0 /\ echo' = 0 /\ Room(inbound, p) /\ inbound' \in Sent(inbound, p)
  /\ UNCHANGED <<pinger, losses, lastToken, active, acked, echoPermit, receiver, outbound, linkUp, answered>>

\* The pong reaches the pinger if it still waits for this one.
Ponged(at, pong) == IF pong = "current" /\ at \in {"check", "await"} THEN "answered" ELSE at

\* A packet of the peer arrives: the first step of acknowledge, compare_exchange on the
\* active probe, and at once the pong if there is nothing to acknowledge.
Arrives(p) ==
  /\ p \in inbound /\ inbound' = inbound \ {p} /\ receiver.at = "next"
  /\ IF p.token # 0 /\ p.token = active
     THEN /\ active' = 0 /\ receiver' = [at |-> "store", token |-> p.token, pong |-> p.ping]
          /\ UNCHANGED pinger
     ELSE /\ pinger' = [pinger EXCEPT !.at = Ponged(@, p.ping)]
          /\ UNCHANGED <<active, receiver>>
  /\ UNCHANGED <<losses, lastToken, acked, echoPermit, outbound, echo, linkUp, answered>>

\* acknowledged_probe is stored ...
AckStore ==
  /\ receiver.at = "store" /\ acked' = receiver.token
  /\ receiver' = [receiver EXCEPT !.at = "notify"] /\ UNCHANGED pinger
  /\ UNCHANGED <<losses, lastToken, active, echoPermit, outbound, inbound, echo, linkUp, answered>>

\* ... and then notify_one is called; the packet goes on to the receiving loop.
AckNotify ==
  /\ receiver.at = "notify" /\ echoPermit' = TRUE
  /\ receiver' = Receiving /\ pinger' = [pinger EXCEPT !.at = Ponged(@, receiver.pong)]
  /\ UNCHANGED <<losses, lastToken, active, acked, outbound, inbound, echo, linkUp, answered>>

\* The two halves of wait_for_echo's loop.
CheckEcho ==
  /\ pinger.at = "check"
  /\ pinger' = [pinger EXCEPT !.at = IF acked = pinger.token THEN "echoed" ELSE "await"]
  /\ UNCHANGED <<losses, lastToken, active, acked, echoPermit, receiver, outbound, inbound, echo, linkUp, answered>>

EchoNotified ==
  /\ pinger.at = "await" /\ pinger.token # 0 /\ echoPermit /\ echoPermit' = FALSE
  /\ pinger' = [pinger EXCEPT !.at = "check"]
  /\ UNCHANGED <<losses, lastToken, active, acked, receiver, outbound, inbound, echo, linkUp, answered>>

\* An answer: finish_probe, and the losses are forgotten.
PingOk ==
  /\ pinger.at \in {"answered", "echoed"} /\ pinger' = [at |-> "idle", token |-> 0]
  /\ losses' = 0
  /\ active' = IF active = pinger.token THEN 0 ELSE active
  /\ acked' = IF acked = pinger.token THEN 0 ELSE acked
  /\ UNCHANGED <<lastToken, echoPermit, receiver, outbound, inbound, echo, linkUp, answered>>

PingLostUnlessProbing ==
  /\ pinger.at \in {"check", "await"} /\ losses' = IF pinger.token = 0 THEN losses + 1 ELSE losses
  /\ pinger' = [at |-> IF losses' = MaxLoss THEN "closed" ELSE "idle", token |-> 0]
  /\ UNCHANGED <<lastToken, active, acked, echoPermit, receiver, outbound, inbound, echo, linkUp, answered>>

\* The timeout: the probe stays active, and the last loss closes the connection.
PingLost ==
  /\ pinger.at \in {"check", "await"} /\ losses' = losses + 1
  /\ pinger' = [at |-> IF losses' = MaxLoss THEN "closed" ELSE "idle", token |-> 0]
  /\ UNCHANGED <<lastToken, active, acked, echoPermit, receiver, outbound, inbound, echo, linkUp, answered>>

LinkDown ==
  /\ linkUp /\ linkUp' = FALSE
  /\ UNCHANGED <<pinger, losses, lastToken, active, acked, echoPermit, receiver, outbound, inbound, echo, answered>>

PacketLost ==
  /\ \/ \E p \in outbound : outbound' = outbound \ {p} /\ UNCHANGED inbound
     \/ \E p \in inbound : inbound' = inbound \ {p} /\ UNCHANGED outbound
  /\ UNCHANGED <<pinger, losses, lastToken, active, acked, echoPermit, receiver, echo, linkUp, answered>>

ReceiverStep == AckStore \/ AckNotify
PingerStep == StartPing \/ CheckEcho \/ EchoNotified \/ PingOk

ProbeNext ==
  \/ PingerStep \/ ReceiverStep \/ PingLost \/ SendData \/ PeerSends \/ LinkDown \/ PacketLost
  \/ \E p \in outbound : PeerReceives(p)
  \/ \E p \in inbound : Arrives(p)

ProbeSpec == ProbeInit /\ [][ProbeNext]_probeVars

\* Tasks run, the ping interval and the timeout pass, and what is under way ends.
ProbeFairness ==
  /\ WF_probeVars(PingerStep) /\ WF_probeVars(PingLost)
  /\ WF_probeVars(ReceiverStep) /\ WF_probeVars(PacketLost)
  /\ WF_probeVars(PeerSends) /\ WF_probeVars(\E p \in inbound : Arrives(p))
ProbeFairSpec == ProbeSpec /\ ProbeFairness

-----------------------------------------------------------------------------

\* The atomics and the packets have their types, the losses stay below the number that
\* closes, and the active probe is the last one given out (PeerConnLivenessInner, pingpong).
ProbeTypeOK ==
  /\ pinger.at \in {"idle", "check", "await", "answered", "echoed", "closed"}
  /\ losses \in 0 .. MaxLoss /\ pinger.token \in 0 .. Tokens /\ echoPermit \in BOOLEAN
  /\ {lastToken, active, acked, echo, receiver.token} \subseteq 0 .. Tokens
  /\ outbound \subseteq Packets /\ inbound \subseteq Packets
  /\ active \in {0, lastToken}

\* A ping succeeds by an echo only when the peer has received this very probe since it was
\* started: echoes left over from an earlier probe, however late, prove nothing
\* (start_probe, acknowledge, wait_for_echo).
EchoProvesLife == pinger.at = "echoed" => pinger.token \in answered

\* A connection whose link is down is closed in the end: no leftover echo, permit or probe
\* keeps resetting the losses (pingpong).
DeadIsClosed == []<>(linkUp \/ pinger.at = "closed")
=============================================================================
