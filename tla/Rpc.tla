--------------------------------- MODULE Rpc ---------------------------------
(***************************************************************************)
(* rpc/client.rs, rpc/server.rs and rpc/packet.rs: calls of one client to  *)
(* one server, cut into pieces that the network may lose, duplicate and    *)
(* reorder.  A call is named by its transaction id, which CUR_TID gives    *)
(* out once; a caller that retries makes another call.                     *)
(*                                                                         *)
(* The pieces of one message are sent by a loop over an unbounded queue;   *)
(* since the network may lose any of them and deliver them in any order,   *)
(* sending them at once has the same behaviours.  Both tables of mergers   *)
(* are keyed by peer and transaction id, so the branch of feed that starts *)
(* over for another message is never taken.                                *)
(***************************************************************************)
EXTENDS Naturals, FiniteSets

CONSTANTS
  Calls,         \* transaction ids
  ReqLengths,    \* the numbers of pieces a request may be cut into
  RespLengths,   \* ... and a response
  MaxPieces,     \* the most pieces a merger accepts (32 * 1024)
  MaxDups,       \* bound on duplicated pieces
  MaxRuns        \* bound on the executions of one call

ASSUME RpcAssumption ==
  /\ ReqLengths \subseteq Nat \ {0} /\ RespLengths \subseteq Nat \ {0}
  /\ MaxPieces \in Nat \ {0} /\ MaxDups \in Nat /\ MaxRuns \in Nat \ {0}

VARIABLES
  outcome,       \* outcome[c]: how the caller's future stands
  size,          \* size[c]: the pieces of its request, 0 before the call
  inflight,      \* inflight_requests: the merger of every registered call
  handover,      \* handover[c]: the first message the receive task handed to the caller
  pieces,        \* the pieces under way
  mergers,       \* packet_mergers of the server
  running,       \* handler_tasks: <<c, k>> is the k-th execution of c
  ran,           \* ran[c]: executions started
  serverStopped, \* Server::stop was called
  clientStopped, \* Client::stop was called
  dups, lost     \* duplicated pieces; calls that lost a piece, a merger or a task

rpcVars == <<outcome, size, inflight, handover, pieces, mergers, running, ran, serverStopped, clientStopped, dups, lost>>

-----------------------------------------------------------------------------
(* Pieces and mergers.  A merger holds, per index, the message the piece   *)
(* belongs to (a call and an execution, 0 for the request) or Hole.        *)

Hole == <<>>
Message(p) == <<p.call, p.run>>
NewMerger == <<>>

\* build_rpc_packet: the pieces of a message; run 0 is the request itself.
Pieces(c, run, total) ==
  {[call |-> c, run |-> run, idx |-> i, total |-> total] : i \in 1 .. total}

\* feed: resize to this piece's total, which forgets pieces beyond it and adds holes.
\* Mutant: the piece with the first index starts the message over.
Resized(m, n) == [i \in 1 .. n |-> IF i \in DOMAIN m THEN m[i] ELSE Hole]
FeedStartsOver(m, p) == [Resized(IF p.idx = 1 THEN NewMerger ELSE m, p.total) EXCEPT ![p.idx] = Message(p)]
Feed(m, p) == [Resized(m, p.total) EXCEPT ![p.idx] = Message(p)]
Refused(p) == p.total > MaxPieces

\* try_merge_pieces: no hole is left.
Whole(m) == m # NewMerger /\ \A i \in DOMAIN m : m[i] # Hole
NoMessage == {}
Parts(m) == {m[i] : i \in DOMAIN m}

\* The keys of a DashMap come and go.
Put(f, k, v) == [x \in DOMAIN f \union {k} |-> IF x = k THEN v ELSE f[x]]
Drop(f, S) == [x \in DOMAIN f \ S |-> f[x]]

-----------------------------------------------------------------------------
(* The client *)

RpcInit ==
  /\ outcome = [c \in Calls |-> "none"]
  /\ size = [c \in Calls |-> 0]
  /\ inflight = <<>>
  /\ handover = [c \in Calls |-> NoMessage]
  /\ pieces = {}
  /\ mergers = <<>>
  /\ running = {}
  /\ ran = [c \in Calls |-> 0]
  /\ serverStopped = FALSE /\ clientStopped = FALSE
  /\ dups = 0 /\ lost = {}

\* call, up to the wait of do_rpc.
Call(c) ==
  /\ outcome[c] = "none"
  /\ outcome' = [outcome EXCEPT ![c] = "waiting"]
  /\ inflight' = Put(inflight, c, NewMerger)
  /\ \E n \in ReqLengths :
       /\ size' = [size EXCEPT ![c] = n]
       /\ pieces' = pieces \union Pieces(c, 0, n)
  /\ UNCHANGED <<handover, mergers, running, ran, serverStopped, clientStopped, dups, lost>>

\* The receive task of run, for one response piece.
ReceiveFor(c, p) ==
  IF Refused(p) THEN UNCHANGED <<inflight, handover>>
  ELSE /\ inflight' = [inflight EXCEPT ![c] = Feed(@, p)]
       /\ handover' = [handover EXCEPT ![c] = IF @ = NoMessage /\ Whole(inflight'[c])
                                  THEN Parts(inflight'[c]) ELSE @]
ReceivePiece(p) ==
  IF p.call \in DOMAIN inflight THEN ReceiveFor(p.call, p) ELSE UNCHANGED <<inflight, handover>>

\* The rest of call: the message is decoded, the future returns and InflightCleanup drops
\* the entry.  A message put together from several executions may or may not decode.
Return(c) ==
  /\ outcome[c] = "waiting" /\ handover[c] # NoMessage
  /\ \E o \in IF Cardinality(handover[c]) = 1 THEN {"answered"} ELSE {"answered", "failed"} :
       outcome' = [outcome EXCEPT ![c] = o]
  /\ inflight' = Drop(inflight, {c})
  /\ UNCHANGED <<size, handover, pieces, mergers, running, ran, serverStopped, clientStopped, dups, lost>>

\* The timeout around do_rpc; a cancelled future also drops its guard.
\* Mutant: a first piece cancels the timer.
TimeoutUntilFirstPiece(c) ==
  /\ outcome[c] = "waiting" /\ inflight[c] = NewMerger
  /\ outcome' = [outcome EXCEPT ![c] = "failed"]
  /\ inflight' = Drop(inflight, {c})
  /\ UNCHANGED <<size, handover, pieces, mergers, running, ran, serverStopped, clientStopped, dups, lost>>
Timeout(c) ==
  /\ outcome[c] = "waiting"
  /\ outcome' = [outcome EXCEPT ![c] = "failed"]
  /\ inflight' = Drop(inflight, {c})
  /\ UNCHANGED <<size, handover, pieces, mergers, running, ran, serverStopped, clientStopped, dups, lost>>

\* Client::stop ends the receive task and leaves the callers to their timeouts.
StopClient ==
  /\ ~clientStopped /\ clientStopped' = TRUE
  /\ lost' = Calls
  /\ UNCHANGED <<outcome, size, inflight, handover, pieces, mergers, running, ran, serverStopped, dups>>

-----------------------------------------------------------------------------
(* The server *)

\* run_with_tunnel_info, for one request piece: a whole request leaves the table and is
\* handed to a task, unless stop came first.
Serve(p) ==
  LET m0 == IF p.call \in DOMAIN mergers THEN mergers[p.call] ELSE NewMerger
      m  == Feed(m0, p)
  IN IF Refused(p) THEN mergers' = Put(mergers, p.call, m0) /\ UNCHANGED <<running, ran>>
     ELSE IF Whole(m)
     THEN /\ mergers' = Drop(mergers, {p.call})
          /\ ran[p.call] < MaxRuns
          /\ ran' = [ran EXCEPT ![p.call] = @ + 1]
          /\ running' = running \union {<<p.call, ran'[p.call]>>}
     ELSE mergers' = Put(mergers, p.call, m) /\ UNCHANGED <<running, ran>>

\* handle_rpc: the service answers, with a result or an error, in some number of pieces.
Respond(c, k) ==
  /\ <<c, k>> \in running
  /\ running' = running \ {<<c, k>>}
  /\ \E n \in RespLengths : pieces' = pieces \union Pieces(c, k, n)
  /\ UNCHANGED <<outcome, size, inflight, handover, mergers, ran, serverStopped, clientStopped, dups, lost>>

\* The clean-up task: a merger that got no piece for ten seconds goes.
\* Mutant: a merger that holds nothing is kept.
StaleWithPieces(c) == c \in DOMAIN mergers /\ mergers[c] # NewMerger
StaleMergers(c) == c \in DOMAIN mergers
Expire(c) ==
  /\ StaleMergers(c) /\ ~serverStopped
  /\ mergers' = Drop(mergers, {c})
  /\ lost' = lost \union {c}
  /\ UNCHANGED <<outcome, size, inflight, handover, pieces, running, ran, serverStopped, clientStopped, dups>>

\* Server::stop aborts the receive task and every handler.
StopServer ==
  /\ ~serverStopped /\ serverStopped' = TRUE
  /\ running' = {}
  /\ lost' = Calls
  /\ UNCHANGED <<outcome, size, inflight, handover, pieces, mergers, ran, clientStopped, dups>>

-----------------------------------------------------------------------------
(* The network *)

\* A piece arrives, and may arrive again.
Arrive(p, again) ==
  /\ p \in pieces
  /\ IF again THEN dups < MaxDups /\ dups' = dups + 1 /\ UNCHANGED pieces
     ELSE pieces' = pieces \ {p} /\ UNCHANGED dups
  /\ IF p.run = 0
     THEN ~serverStopped /\ Serve(p) /\ UNCHANGED <<inflight, handover>>
     ELSE ~clientStopped /\ ReceivePiece(p) /\ UNCHANGED <<mergers, running, ran>>
  /\ UNCHANGED <<outcome, size, serverStopped, clientStopped, lost>>

LosePiece(p) ==
  /\ p \in pieces
  /\ pieces' = pieces \ {p}
  /\ lost' = lost \union {p.call}
  /\ UNCHANGED <<outcome, size, inflight, handover, mergers, running, ran, serverStopped, clientStopped, dups>>

RpcNext ==
  \/ \E c \in Calls : Call(c) \/ Return(c) \/ Timeout(c) \/ Expire(c)
  \/ \E c \in Calls, k \in 1 .. MaxRuns : Respond(c, k)
  \/ \E p \in pieces : LosePiece(p) \/ \E again \in BOOLEAN : Arrive(p, again)
  \/ StopClient \/ StopServer

RpcSpec == RpcInit /\ [][RpcNext]_rpcVars

\* A timer fires: that of the caller, and that of the clean-up task.
RpcFairness == \A c \in Calls : WF_rpcVars(Timeout(c)) /\ WF_rpcVars(Expire(c))
RpcFairSpec == RpcSpec /\ RpcFairness

-----------------------------------------------------------------------------

\* Every variable has its type, and the table of inflight requests holds exactly the
\* calls whose future is alive (InflightCleanup).
RpcTypeOK ==
  /\ outcome \in [Calls -> {"none", "waiting", "answered", "failed"}]
  /\ size \in [Calls -> ReqLengths \union {0}]
  /\ DOMAIN inflight = {c \in Calls : outcome[c] = "waiting"}
  /\ DOMAIN mergers \subseteq Calls
  /\ running \subseteq Calls \X (1 .. MaxRuns)
  /\ ran \in [Calls -> 0 .. MaxRuns]
  /\ \A p \in pieces : p.call \in Calls /\ p.run \in 0 .. ran[p.call] /\ p.idx \in 1 .. p.total

\* Mergers never get stuck: while nothing of a call was lost and no piece or handler of it
\* is under way, a request within MaxPieces has been run, and its caller has been
\* handed a message if a response is within MaxPieces, in whatever order and however
\* often the pieces came (feed, packet_mergers).
NothingStuck ==
  \A c \in Calls \ lost :
    ( /\ outcome[c] # "none" /\ size[c] <= MaxPieces
      /\ \A p \in pieces : p.call # c
      /\ \A k \in 1 .. MaxRuns : <<c, k>> \notin running )
    => /\ ran[c] >= 1
       /\ outcome[c] = "waiting" /\ (\A n \in RespLengths : n <= MaxPieces) => handover[c] # NoMessage

\* A server that runs keeps no merger for ever, not even that of a refused or of a
\* duplicated piece (the clean-up task of run_with_tunnel_info).
MergersDrain == \A c \in Calls : []<>(c \notin DOMAIN mergers \/ serverStopped)

\* The packets, tables and tasks implement the promise of module RpcCall, that every call
\* ends included.
Promise == INSTANCE RpcCall WITH caller <- outcome, executions <- ran
RpcKeepsPromise == Promise!CallSpec
=============================================================================
