------------------------------ MODULE RpcProofs -----------------------------
(***************************************************************************)
(* What the peer RPC guarantees for every value of the constants: a call   *)
(* of which nothing was lost is never stuck, whatever is late or comes     *)
(* twice, and client, server and network together do what RpcCall allows.  *)
(***************************************************************************)
EXTENDS Rpc, TLAPS

(* Rpc: types and tables.                                                  *)

PieceType == [call : Calls, run : Nat, idx : Nat, total : Nat]

\* The tables, with what the bookkeeping of calls and executions adds to RpcTypeOK: a piece
\* belongs to a call that was made, and a response to an execution that was started.
RpcTables ==
  /\ outcome \in [Calls -> {"none", "waiting", "answered", "failed"}]
  /\ size \in [Calls -> ReqLengths \union {0}]
  /\ DOMAIN inflight = {c \in Calls : outcome[c] = "waiting"}
  /\ DOMAIN handover = Calls
  /\ DOMAIN mergers \subseteq Calls
  /\ running \subseteq Calls \X (1 .. MaxRuns)
  /\ ran \in [Calls -> 0 .. MaxRuns]
  /\ pieces \subseteq PieceType
  /\ \A p \in pieces : p.run <= ran[p.call] /\ p.idx \in 1 .. p.total
  /\ \A c \in Calls, k \in 1 .. MaxRuns : <<c, k>> \in running => k <= ran[c]
  /\ \A c \in Calls : handover[c] # NoMessage => ran[c] >= 1

\* The pieces of a message are pieces.
LEMMA PiecesType ==
  ASSUME NEW c \in Calls, NEW run \in Nat, NEW n \in Nat, NEW p \in Pieces(c, run, n)
  PROVE  /\ p \in PieceType /\ p.call = c /\ p.run = run /\ p.total = n
         /\ p.idx \in 1 .. n
BY DEF Pieces, PieceType

\* Every step keeps the tables.
LEMMA RpcTablesStep == RpcTables /\ [RpcNext]_rpcVars => RpcTables'
<1> SUFFICES ASSUME RpcTables, [RpcNext]_rpcVars PROVE RpcTables'
  OBVIOUS
<1> USE RpcAssumption DEF RpcTables
<1>1. ASSUME NEW c \in Calls, Call(c) PROVE RpcTables'
  <2>1. PICK n \in ReqLengths : size' = [size EXCEPT ![c] = n]
                                /\ pieces' = pieces \union Pieces(c, 0, n)
    BY <1>1, Zenon DEF Call
  <2>2. \A p \in pieces' : p \in PieceType /\ p.run <= ran[p.call] /\ p.idx \in 1 .. p.total
    BY <2>1, PiecesType
  <2> QED BY <1>1, <2>1, <2>2 DEF Call, Put
<1>2. ASSUME NEW c \in Calls, Return(c) PROVE RpcTables'
  <2>1. PICK o \in {"answered", "failed"} : outcome' = [outcome EXCEPT ![c] = o]
    BY <1>2, Zenon DEF Return
  <2> QED BY <1>2, <2>1 DEF Return, Drop
<1>3. ASSUME NEW c \in Calls, Timeout(c) PROVE RpcTables'
  BY <1>3 DEF Timeout, Drop
<1>4. ASSUME NEW c \in Calls, Expire(c) PROVE RpcTables'
  BY <1>4 DEF Expire, Drop
<1>5. ASSUME NEW c \in Calls, NEW k \in 1 .. MaxRuns, Respond(c, k) PROVE RpcTables'
  <2>1. PICK n \in RespLengths : pieces' = pieces \union Pieces(c, k, n)
    BY <1>5 DEF Respond
  <2>2. \A p \in pieces' : p \in PieceType /\ p.run <= ran[p.call] /\ p.idx \in 1 .. p.total
    BY <1>5, <2>1, PiecesType DEF Respond
  <2> QED BY <1>5, <2>1, <2>2 DEF Respond
<1>6. ASSUME NEW p \in pieces, LosePiece(p) PROVE RpcTables'
  BY <1>6 DEF LosePiece
<1>7. ASSUME NEW p \in pieces, NEW again \in BOOLEAN, Arrive(p, again) PROVE RpcTables'
  <2>1. pieces' \subseteq pieces
    BY <1>7 DEF Arrive
  <2>2. CASE p.run = 0
    BY <1>7, <2>1, <2>2 DEF Arrive, Serve, Put, Drop, PieceType
  <2>3. CASE p.run # 0
    <3>1. CASE p.call \in DOMAIN inflight
      <4>1. ran[p.call] >= 1
        BY <2>3 DEF PieceType
      <4> QED BY <1>7, <2>1, <2>3, <3>1, <4>1 DEF Arrive, ReceivePiece, ReceiveFor, PieceType
    <3>2. CASE p.call \notin DOMAIN inflight
      BY <1>7, <2>1, <2>3, <3>2 DEF Arrive, ReceivePiece
    <3> QED BY <3>1, <3>2
  <2> QED BY <2>2, <2>3
<1>8. CASE StopClient
  BY <1>8 DEF StopClient
<1>9. CASE StopServer
  BY <1>9 DEF StopServer
<1>10. CASE UNCHANGED rpcVars
  BY <1>10 DEF rpcVars
<1> QED BY <1>1, <1>2, <1>3, <1>4, <1>5, <1>6, <1>7, <1>8, <1>9, <1>10, ZenonT(30) DEF RpcNext

-----------------------------------------------------------------------------
(* Rpc: nothing gets stuck.                                                *)

Filled(m, i) == i \in DOMAIN m /\ m[i] # Hole
Reply(p, c) == p.call = c /\ p.run # 0
Dormant(c) == \A k \in 1 .. MaxRuns : <<c, k>> \notin running

\* Before a call is made there is nothing of it, and a stopped side counts as a loss.
RpcFresh ==
  /\ lost \subseteq Calls
  /\ serverStopped \/ clientStopped => lost = Calls
  /\ \A c \in Calls : outcome[c] # "none" => size[c] \in ReqLengths
  /\ \A c \in Calls : outcome[c] = "none" => ran[c] = 0 /\ c \notin DOMAIN mergers
  /\ \A p \in pieces : outcome[p.call] # "none"

\* The server's merger of a call is empty or has the size of the request, and has a hole:
\* a piece of the request that is not in it is still under way, until the call has run.
RequestKept ==
  /\ \A p \in pieces : p.run = 0 => p.total = size[p.call]
  /\ \A c \in DOMAIN mergers :
       /\ mergers[c] = NewMerger \/ DOMAIN mergers[c] = 1 .. size[c]
       /\ ~Whole(mergers[c])
  /\ \A c \in Calls \ lost :
       outcome[c] # "none" /\ size[c] <= MaxPieces /\ ran[c] = 0 =>
         \A i \in 1 .. size[c] :
           \/ [call |-> c, run |-> 0, idx |-> i, total |-> size[c]] \in pieces
           \/ c \in DOMAIN mergers /\ Filled(mergers[c], i)

\* Until a caller has a message, an execution or a response piece of its call is under way,
\* and a shortest response under way is complete: what is missing of it is in the
\* merger, where no piece that is still to come can cut it off.
Shortest(p) == \A q \in pieces : Reply(q, p.call) => p.total <= q.total
ReplyKept ==
  /\ \A p \in pieces : p.run # 0 => p.total \in RespLengths
  /\ (\A n \in RespLengths : n <= MaxPieces) =>
     \A c \in Calls \ lost :
       outcome[c] = "waiting" /\ handover[c] = NoMessage =>
         /\ ran[c] >= 1 => ~Dormant(c) \/ \E p \in pieces : Reply(p, c)
         /\ \A p \in pieces : Reply(p, c) /\ Shortest(p) =>
              \A i \in 1 .. p.total :
                \/ [call |-> c, run |-> p.run, idx |-> i, total |-> p.total] \in pieces
                \/ Filled(inflight[c], i)

RpcIInv == RpcTables /\ RpcFresh /\ RequestKept /\ ReplyKept

\* feed fills the piece's slot, keeps every slot up to the total, and a message is not a hole.
LEMMA FeedFills ==
  ASSUME NEW m, NEW p \in PieceType, p.idx \in 1 .. p.total
  PROVE  /\ DOMAIN Feed(m, p) = 1 .. p.total
         /\ Filled(Feed(m, p), p.idx)
         /\ \A i \in 1 .. p.total : Filled(m, i) => Filled(Feed(m, p), i)
<1>1. Message(p) # Hole
  BY DEF Message, Hole
<1> QED BY <1>1 DEF Feed, Resized, Filled, PieceType

\* A merger whose slots are all filled is whole, and hands over a message.
LEMMA FilledIsWhole ==
  ASSUME NEW m, NEW n \in Nat \ {0}, DOMAIN m = 1 .. n, \A i \in 1 .. n : Filled(m, i)
  PROVE  Whole(m) /\ Parts(m) # NoMessage
<1>1. 1 \in DOMAIN m
  OBVIOUS
<1>2. DOMAIN NewMerger = {}
  BY DEF NewMerger
<1> QED BY <1>1, <1>2 DEF Whole, Parts, NoMessage, Filled

\* A call without pieces, executions and losses has run, and its caller has a message.
LEMMA RpcIInvSuffices == RpcIInv => RpcTypeOK /\ NothingStuck
<1> SUFFICES ASSUME RpcIInv PROVE RpcTypeOK /\ NothingStuck
  OBVIOUS
<1> USE RpcAssumption DEF RpcIInv, RpcTables
<1>1. RpcTypeOK
  BY DEF RpcTypeOK, PieceType
<1>2. ASSUME NEW c \in Calls \ lost, outcome[c] # "none", size[c] <= MaxPieces,
             \A p \in pieces : p.call # c, Dormant(c)
      PROVE  /\ ran[c] >= 1
             /\ outcome[c] = "waiting" /\ (\A n \in RespLengths : n <= MaxPieces)
                => handover[c] # NoMessage
  <2>1. ASSUME ran[c] = 0 PROVE FALSE
    <3>1. size[c] \in Nat \ {0}
      BY <1>2, Zenon DEF RpcFresh
    <3>2. \A i \in 1 .. size[c] : c \in DOMAIN mergers /\ Filled(mergers[c], i)
      BY <1>2, <2>1, <3>1, Zenon DEF RequestKept
    <3>3. 1 \in 1 .. size[c]
      BY <3>1
    <3>4. mergers[c] # NewMerger
      BY <3>2, <3>3 DEF NewMerger, Filled
    <3>5. DOMAIN mergers[c] = 1 .. size[c] /\ ~Whole(mergers[c])
      BY <3>2, <3>3, <3>4 DEF RequestKept
    <3> QED BY <3>1, <3>2, <3>5, FilledIsWhole
  <2>2. ran[c] >= 1
    BY <2>1
  <2> QED BY <1>2, <2>2 DEF ReplyKept, Reply
<1> QED BY <1>1, <1>2 DEF NothingStuck, Dormant

\* Every step keeps that nothing is left of a call not made yet.
LEMMA RpcFreshStep == RpcTables /\ RpcFresh /\ [RpcNext]_rpcVars => RpcFresh'
<1> SUFFICES ASSUME RpcTables, RpcFresh, [RpcNext]_rpcVars PROVE RpcFresh'
  OBVIOUS
<1> USE RpcAssumption DEF RpcTables, RpcFresh
<1>1. ASSUME NEW c \in Calls, Call(c) PROVE RpcFresh'
  <2>1. PICK n \in ReqLengths : size' = [size EXCEPT ![c] = n]
                                /\ pieces' = pieces \union Pieces(c, 0, n)
    BY <1>1, Zenon DEF Call
  <2>2. \A p \in pieces' : p.call \in Calls /\ outcome'[p.call] # "none"
    BY <1>1, <2>1, PiecesType DEF Call, PieceType
  <2> QED BY <1>1, <2>1, <2>2 DEF Call
<1>2. ASSUME NEW c \in Calls, Return(c) PROVE RpcFresh'
  <2>1. PICK o \in {"answered", "failed"} : outcome' = [outcome EXCEPT ![c] = o]
    BY <1>2, Zenon DEF Return
  <2> QED BY <1>2, <2>1 DEF Return, PieceType
<1>3. ASSUME NEW c \in Calls, Timeout(c) PROVE RpcFresh'
  BY <1>3 DEF Timeout, PieceType
<1>4. ASSUME NEW c \in Calls, Expire(c) PROVE RpcFresh'
  BY <1>4 DEF Expire, Drop, PieceType
<1>5. ASSUME NEW c \in Calls, NEW k \in 1 .. MaxRuns, Respond(c, k) PROVE RpcFresh'
  <2>1. PICK n \in RespLengths : pieces' = pieces \union Pieces(c, k, n)
    BY <1>5 DEF Respond
  <2>2. outcome[c] # "none"
    BY <1>5 DEF Respond
  <2>3. \A p \in pieces' : outcome[p.call] # "none"
    BY <2>1, <2>2, PiecesType
  <2> QED BY <1>5, <2>3 DEF Respond
<1>6. ASSUME NEW p \in pieces, LosePiece(p) PROVE RpcFresh'
  BY <1>6 DEF LosePiece, PieceType
<1>7. ASSUME NEW p \in pieces, NEW again \in BOOLEAN, Arrive(p, again) PROVE RpcFresh'
  <2>1. pieces' \subseteq pieces /\ p.call \in Calls /\ outcome[p.call] # "none"
    BY <1>7 DEF Arrive, PieceType
  <2>2. CASE p.run = 0
    BY <1>7, <2>1, <2>2 DEF Arrive, Serve, Put, Drop
  <2>3. CASE p.run # 0
    BY <1>7, <2>1, <2>3 DEF Arrive
  <2> QED BY <2>2, <2>3
<1>8. CASE StopClient
  BY <1>8 DEF StopClient
<1>9. CASE StopServer
  BY <1>9 DEF StopServer
<1>10. CASE UNCHANGED rpcVars
  BY <1>10 DEF rpcVars
<1> QED BY <1>1, <1>2, <1>3, <1>4, <1>5, <1>6, <1>7, <1>8, <1>9, <1>10 DEF RpcNext

\* The requests' half: only a piece that arrives leaves the network without a loss, and it
\* is then in the merger.
LEMMA RequestKeptStep ==
  RpcTables /\ RpcFresh /\ RequestKept /\ [RpcNext]_rpcVars => RequestKept'
<1> SUFFICES ASSUME RpcTables, RpcFresh, RequestKept, [RpcNext]_rpcVars PROVE RequestKept'
  OBVIOUS
<1> USE RpcAssumption DEF RpcTables, RpcFresh, RequestKept
<1>1. ASSUME NEW c \in Calls, Call(c) PROVE RequestKept'
  <2>1. PICK n \in ReqLengths : size' = [size EXCEPT ![c] = n]
                                /\ pieces' = pieces \union Pieces(c, 0, n)
    BY <1>1, Zenon DEF Call
  <2>2. \A p \in pieces' : p.run = 0 => p.total = size'[p.call]
    BY <1>1, <2>1, PiecesType DEF Call, PieceType
  <2>3. c \notin DOMAIN mergers
    BY <1>1 DEF Call
  <2>4. \A i \in 1 .. n : [call |-> c, run |-> 0, idx |-> i, total |-> n] \in pieces'
    BY <2>1 DEF Pieces
  <2> QED BY <1>1, <2>1, <2>2, <2>3, <2>4 DEF Call
<1>2. ASSUME NEW c \in Calls, Return(c) PROVE RequestKept'
  BY <1>2 DEF Return
<1>3. ASSUME NEW c \in Calls, Timeout(c) PROVE RequestKept'
  BY <1>3 DEF Timeout
<1>4. ASSUME NEW c \in Calls, Expire(c) PROVE RequestKept'
  BY <1>4 DEF Expire, Drop
<1>5. ASSUME NEW c \in Calls, NEW k \in 1 .. MaxRuns, Respond(c, k) PROVE RequestKept'
  <2>1. PICK n \in RespLengths : pieces' = pieces \union Pieces(c, k, n)
    BY <1>5 DEF Respond
  <2>2. \A p \in pieces' : p.run = 0 => p \in pieces
    BY <2>1, PiecesType
  <2> QED BY <1>5, <2>1, <2>2 DEF Respond
<1>6. ASSUME NEW p \in pieces, LosePiece(p) PROVE RequestKept'
  BY <1>6 DEF LosePiece, PieceType
<1>7. ASSUME NEW p \in pieces, NEW again \in BOOLEAN, Arrive(p, again) PROVE RequestKept'
  <2>1. pieces \ {p} \subseteq pieces' /\ pieces' \subseteq pieces
        /\ p \in PieceType /\ p.call \in Calls /\ p.idx \in 1 .. p.total
    BY <1>7 DEF Arrive, PieceType
  <2>2. CASE p.run # 0
    BY <1>7, <2>1, <2>2 DEF Arrive
  <2>3. CASE p.run = 0
    <3> DEFINE c == p.call
               m0 == IF c \in DOMAIN mergers THEN mergers[c] ELSE NewMerger
               m == Feed(m0, p)
    <3>1. p.total = size[c] /\ DOMAIN m = 1 .. size[c] /\ Filled(m, p.idx)
          /\ \A i \in 1 .. size[c] : Filled(m0, i) => Filled(m, i)
      BY <2>1, <2>3, FeedFills
    <3>2. ~Whole(m0) /\ (m0 = NewMerger \/ DOMAIN m0 = 1 .. size[c])
      BY DEF Whole
    <3>3. UNCHANGED <<outcome, size, lost>> /\ Serve(p)
      BY <1>7, <2>3 DEF Arrive
    <3>4. CASE Refused(p)
      <4>1. mergers' = Put(mergers, c, m0) /\ ran' = ran /\ ~(size[c] <= MaxPieces)
        BY <3>1, <3>3, <3>4, <2>1 DEF Serve, Refused, PieceType
      <4> HIDE DEF m0, m
      <4> QED BY <2>1, <3>2, <3>3, <4>1 DEF Put, PieceType
    <3>5. CASE ~Refused(p) /\ Whole(m)
      <4>1. mergers' = Drop(mergers, {c}) /\ ran' = [ran EXCEPT ![c] = @ + 1]
        BY <3>3, <3>5 DEF Serve
      <4> HIDE DEF m0, m
      <4> QED BY <2>1, <3>3, <4>1 DEF Drop, PieceType
    <3>6. CASE ~Refused(p) /\ ~Whole(m)
      <4>1. mergers' = Put(mergers, c, m) /\ ran' = ran
        BY <3>3, <3>6 DEF Serve
      <4>2. DOMAIN mergers' = DOMAIN mergers \union {c} /\ mergers'[c] = m
            /\ \A x \in DOMAIN mergers \ {c} : mergers'[x] = mergers[x]
        BY <4>1 DEF Put
      <4>3. \A x \in DOMAIN mergers' :
              /\ mergers'[x] = NewMerger \/ DOMAIN mergers'[x] = 1 .. size[x]
              /\ ~Whole(mergers'[x])
        BY <4>2, <3>1, <3>6
      <4>4. ASSUME NEW x \in Calls \ lost, outcome[x] # "none", size[x] <= MaxPieces, ran[x] = 0,
                   NEW i \in 1 .. size[x]
            PROVE  \/ [call |-> x, run |-> 0, idx |-> i, total |-> size[x]] \in pieces'
                   \/ x \in DOMAIN mergers' /\ Filled(mergers'[x], i)
        <5>1. CASE x # c
          BY <4>4, <5>1, <4>2, <2>1
        <5>2. CASE x = c /\ i = p.idx
          BY <5>2, <4>2, <3>1
        <5>3. CASE x = c /\ i # p.idx
          <6>1. \/ [call |-> x, run |-> 0, idx |-> i, total |-> size[x]] \in pieces
                \/ Filled(m0, i)
            BY <4>4, <5>3
          <6>2. [call |-> x, run |-> 0, idx |-> i, total |-> size[x]] # p
            BY <5>3
          <6> QED BY <6>1, <6>2, <5>3, <4>2, <3>1, <2>1
        <5> QED BY <5>1, <5>2, <5>3
      <4> QED BY <2>1, <3>3, <4>1, <4>3, <4>4
    <3> QED BY <3>4, <3>5, <3>6
  <2> QED BY <2>2, <2>3
<1>8. CASE StopClient
  BY <1>8 DEF StopClient
<1>9. CASE StopServer
  BY <1>9 DEF StopServer
<1>10. CASE UNCHANGED rpcVars
  BY <1>10 DEF rpcVars
<1> QED BY <1>1, <1>2, <1>3, <1>4, <1>5, <1>6, <1>7, <1>8, <1>9, <1>10 DEF RpcNext

\* The responses' half.  A piece of an execution resizes the merger to its own total, which
\* is never below that of a shortest response under way; the last piece of a
\* shortest response makes the merger whole.
LEMMA ReplyKeptStep ==
  RpcTables /\ RpcFresh /\ ReplyKept /\ [RpcNext]_rpcVars => ReplyKept'
<1> SUFFICES ASSUME RpcTables, RpcFresh, ReplyKept, [RpcNext]_rpcVars PROVE ReplyKept'
  OBVIOUS
<1> USE RpcAssumption DEF RpcTables, RpcFresh
<1> DEFINE Fits == \A n \in RespLengths : n <= MaxPieces
           Open(c) == c \in Calls \ lost /\ outcome[c] = "waiting" /\ handover[c] = NoMessage
           Active(c) == ~Dormant(c) \/ \E p \in pieces : Reply(p, c)
           There(c, p, i) ==
             \/ [call |-> c, run |-> p.run, idx |-> i, total |-> p.total] \in pieces
             \/ Filled(inflight[c], i)
           Complete(c) ==
             \A p \in pieces : Reply(p, c) /\ Shortest(p) => \A i \in 1 .. p.total : There(c, p, i)
<1>a. /\ \A p \in pieces : p.run # 0 => p.total \in RespLengths
      /\ Fits => \A c : Open(c) => (ran[c] >= 1 => Active(c)) /\ Complete(c)
  BY DEF ReplyKept
<1>b. SUFFICES /\ \A p \in pieces' : p.run # 0 => p.total \in RespLengths
               /\ Fits => \A c : Open(c)' => ((ran[c] >= 1)' => Active(c)') /\ Complete(c)'
  BY DEF ReplyKept
<1> DEFINE Goal == /\ \A p \in pieces' : p.run # 0 => p.total \in RespLengths
                   /\ Fits => \A c : Open(c)' => ((ran[c] >= 1)' => Active(c)') /\ Complete(c)'
<1>1. ASSUME NEW c \in Calls, Call(c) PROVE Goal
  <2>1. PICK n \in ReqLengths : pieces' = pieces \union Pieces(c, 0, n)
    BY <1>1 DEF Call
  <2>2. \A p \in pieces' : p.run # 0 => p \in pieces
    BY <2>1, PiecesType
  <2>3. \A p \in pieces' : p.run # 0 => p.call # c
    BY <1>1, <2>2 DEF Call, PieceType
  <2>4. ran'[c] = 0
    BY <1>1 DEF Call
  <2>5. \A x : Open(x)' /\ x # c => Open(x) /\ inflight'[x] = inflight[x]
    BY <1>1 DEF Call, Put
  <2>6. \A p \in pieces : p.run # 0 => p \in pieces'
    BY <2>1
  <2> QED BY <1>1, <1>a, <2>1, <2>2, <2>3, <2>4, <2>5, <2>6 DEF Call, Dormant, Reply, Shortest
<1>2. ASSUME NEW c \in Calls, Return(c) \/ Timeout(c) PROVE Goal
  <2>1. \A x : Open(x)' => x # c /\ Open(x) /\ inflight'[x] = inflight[x]
    BY <1>2 DEF Return, Timeout, Drop
  <2>2. UNCHANGED <<pieces, running, ran>>
    BY <1>2 DEF Return, Timeout
  <2> QED BY <1>a, <2>1, <2>2 DEF Dormant, Shortest
<1>3. ASSUME NEW c \in Calls, Expire(c) PROVE Goal
  <2>1. \A x : Open(x)' => Open(x)
    BY <1>3 DEF Expire
  <2>2. UNCHANGED <<pieces, running, ran, inflight>>
    BY <1>3 DEF Expire
  <2> QED BY <1>a, <2>1, <2>2 DEF Dormant, Shortest
<1>4. ASSUME NEW c \in Calls, NEW k \in 1 .. MaxRuns, Respond(c, k) PROVE Goal
  <2>1. PICK n \in RespLengths : pieces' = pieces \union Pieces(c, k, n)
    BY <1>4 DEF Respond
  <2>2. UNCHANGED <<inflight, ran>> /\ (\A x : Open(x)' => Open(x))
        /\ running' = running \ {<<c, k>>}
    BY <1>4 DEF Respond
  <2>3. \A p \in pieces' : p.run # 0 => p.total \in RespLengths
    BY <1>a, <2>1, PiecesType
  <2>4. ASSUME NEW x, Fits, Open(x)', (ran[x] >= 1)' PROVE Active(x)'
    <3>1. CASE x = c
      <4>1. [call |-> c, run |-> k, idx |-> 1, total |-> n] \in pieces'
        <5>1. 1 \in 1 .. n
          OBVIOUS
        <5> QED BY <2>1, <5>1 DEF Pieces
      <4> QED BY <3>1, <4>1 DEF Reply
    <3>2. CASE x # c
      <4>1. Active(x)
        BY <1>a, <2>2, <2>4
      <4> QED BY <3>2, <4>1, <2>1, <2>2 DEF Dormant
    <3> QED BY <3>1, <3>2
  <2>5. ASSUME NEW x, Fits, Open(x)', NEW p \in pieces', Reply(p, x), Shortest(p)',
               NEW i \in 1 .. p.total
        PROVE  There(x, p, i)'
    <3>1. CASE p \in pieces
      <4>1. Shortest(p)
        BY <2>1, <2>5 DEF Shortest
      <4>2. There(x, p, i)
        BY <1>a, <2>2, <2>5, <3>1, <4>1
      <4> QED BY <4>2, <2>1, <2>2
    <3>2. CASE p \in Pieces(c, k, n)
      <4>1. p.call = c /\ p.run = k /\ p.total = n
        BY <3>2, PiecesType
      <4>2. [call |-> c, run |-> k, idx |-> i, total |-> n] \in Pieces(c, k, n)
        BY <4>1 DEF Pieces
      <4> QED BY <2>1, <2>5, <4>1, <4>2 DEF Reply
    <3> QED BY <2>1, <3>1, <3>2
  <2> QED BY <2>3, <2>4, <2>5
<1>5. ASSUME NEW p \in pieces, LosePiece(p) PROVE Goal
  <2>1. \A x : Open(x)' => x # p.call /\ Open(x)
    BY <1>5 DEF LosePiece, PieceType
  <2>2. UNCHANGED <<inflight, running, ran>> /\ pieces' = pieces \ {p}
    BY <1>5 DEF LosePiece
  <2>3. \A q \in pieces : q \in pieces' \/ q = p
    BY <2>2
  <2>4. \A x, q : x # p.call /\ q \in pieces /\ Reply(q, x) => q \in pieces'
    BY <2>3 DEF Reply
  <2>5. ASSUME NEW x, Open(x)', NEW q \in pieces', Reply(q, x), Shortest(q)' PROVE Shortest(q)
    BY <2>5, <2>1, <2>4 DEF Shortest, Reply
  <2>6. ASSUME NEW x, Fits, Open(x)', (ran[x] >= 1)' PROVE Active(x)'
    BY <2>6, <2>1, <2>2, <2>4, <1>a DEF Dormant
  <2>7. ASSUME NEW x, Fits, Open(x)', NEW q \in pieces', Reply(q, x), Shortest(q)',
               NEW i \in 1 .. q.total
        PROVE  There(x, q, i)'
    <3>1. There(x, q, i)
      BY <2>7, <2>5, <2>1, <2>2, <1>a
    <3>2. [call |-> x, run |-> q.run, idx |-> i, total |-> q.total] # p
      BY <2>1, <2>7
    <3> QED BY <3>1, <3>2, <2>2
  <2> QED BY <1>a, <2>2, <2>6, <2>7
<1>6. ASSUME NEW p \in pieces, NEW again \in BOOLEAN, Arrive(p, again), p.run = 0 PROVE Goal
  <2>1. \A x : Open(x)' => Open(x)
    BY <1>6 DEF Arrive
  <2>2. inflight' = inflight /\ pieces' \subseteq pieces /\ Serve(p)
        /\ \A q \in pieces : q.run # 0 => q \in pieces'
    BY <1>6 DEF Arrive
  <2>3. \A x \in Calls : Active(x) => Active(x)'
    <3>1. running \subseteq running'
      BY <2>2 DEF Serve
    <3> QED BY <3>1, <2>2 DEF Dormant, Reply
  <2>4. ASSUME NEW x \in Calls, ran'[x] >= 1 PROVE ran[x] >= 1 \/ Active(x)'
    <3>1. CASE ran' = ran
      BY <2>4, <3>1
    <3>2. CASE /\ ran[p.call] < MaxRuns
               /\ ran' = [ran EXCEPT ![p.call] = @ + 1]
               /\ running' = running \union {<<p.call, ran'[p.call]>>}
      <4>1. p.call \in Calls /\ ran'[p.call] \in 1 .. MaxRuns
        BY <3>2 DEF PieceType
      <4>2. ~Dormant(p.call)'
        BY <3>2, <4>1, Zenon DEF Dormant
      <4> QED BY <2>4, <3>2, <4>2
    <3> QED BY <2>2, <3>1, <3>2 DEF Serve
  <2>5. \A q \in pieces' : Shortest(q)' => Shortest(q)
    BY <2>2 DEF Shortest, Reply
  <2>6. \A x : Complete(x) => Complete(x)'
    BY <2>2, <2>5 DEF Reply
  <2> QED BY <1>a, <2>1, <2>2, <2>3, <2>4, <2>6
<1>7. ASSUME NEW p \in pieces, NEW again \in BOOLEAN, Arrive(p, again), p.run # 0 PROVE Goal
  <2> DEFINE c == p.call
  <2>1. /\ pieces \ {p} \subseteq pieces' /\ pieces' \subseteq pieces
        /\ p \in PieceType /\ c \in Calls /\ p.idx \in 1 .. p.total /\ p.total \in RespLengths
    BY <1>7, <1>a DEF Arrive, PieceType
  <2>2. UNCHANGED <<outcome, lost, running, ran>> /\ ReceivePiece(p)
    BY <1>7 DEF Arrive
  <2>3. ASSUME NEW x, Fits, x # c, Open(x)' PROVE (ran'[x] >= 1 => Active(x)') /\ Complete(x)'
    <3>1. Open(x) /\ inflight'[x] = inflight[x]
      BY <2>1, <2>2, <2>3 DEF ReceivePiece, ReceiveFor
    <3>2. \A q \in pieces : Reply(q, x) => q \in pieces'
      BY <2>1, <2>3 DEF Reply
    <3>3. \A q \in pieces' : Reply(q, x) /\ Shortest(q)' => Shortest(q)
      BY <3>2 DEF Shortest, Reply
    <3>4. ASSUME NEW q \in pieces', Reply(q, x), Shortest(q)', NEW i \in 1 .. q.total
          PROVE  There(x, q, i)'
      <4>1. There(x, q, i)
        BY <1>a, <2>1, <2>3, <3>1, <3>3, <3>4
      <4>2. [call |-> x, run |-> q.run, idx |-> i, total |-> q.total] # p
        BY <2>3
      <4> QED BY <4>1, <4>2, <2>1, <3>1
    <3> QED BY <1>a, <2>2, <2>3, <3>1, <3>2, <3>4 DEF Dormant
  <2>4. ASSUME Fits, Open(c)' PROVE (ran'[c] >= 1 => Active(c)') /\ Complete(c)'
    <3> DEFINE m == inflight[c]
    <3>1. c \in DOMAIN inflight /\ ~Refused(p)
      BY <2>1, <2>2, <2>4 DEF Refused, PieceType
    <3>2. inflight'[c] = Feed(m, p)
      BY <2>2, <3>1 DEF ReceivePiece, ReceiveFor
    <3>3. Open(c) /\ (~Whole(inflight'[c]) \/ Parts(inflight'[c]) = NoMessage)
      BY <2>2, <2>4, <3>1 DEF ReceivePiece, ReceiveFor
    <3>4. DOMAIN Feed(m, p) = 1 .. p.total /\ Filled(Feed(m, p), p.idx)
          /\ \A i \in 1 .. p.total : Filled(m, i) => Filled(Feed(m, p), i)
      BY <2>1, FeedFills
    <3>5. PICK i \in 1 .. p.total : ~Filled(Feed(m, p), i)
      <4>1. p.total \in Nat \ {0}
        BY <2>1, Zenon
      <4> QED BY <4>1, <3>2, <3>3, <3>4, FilledIsWhole
    <3> HIDE DEF m
    <3>6. Reply(p, c) /\ i # p.idx
      BY <1>7, <3>4, <3>5 DEF Reply
    <3>7. ASSUME Shortest(p) PROVE \E q \in pieces' : Reply(q, c) /\ q.total = p.total
      <4> DEFINE q == [call |-> c, run |-> p.run, idx |-> i, total |-> p.total]
      <4>1. There(c, p, i)
        BY <1>a, <2>4, <3>3, <3>6, <3>7
      <4>2. q \in pieces
        BY <4>1, <3>4, <3>5 DEF m
      <4>3. q # p
        BY <3>6
      <4> QED BY <1>7, <2>1, <4>2, <4>3 DEF Reply
    <3>8. \E q \in pieces' : Reply(q, c)
      <4>1. CASE Shortest(p)
        BY <3>7, <4>1
      <4>2. CASE ~Shortest(p)
        <5>1. PICK q \in pieces : Reply(q, c) /\ ~(p.total <= q.total)
          BY <4>2 DEF Shortest
        <5>2. q # p
          BY <5>1, <2>1 DEF PieceType
        <5> QED BY <5>1, <5>2, <2>1
      <4> QED BY <4>1, <4>2
    <3>9. ASSUME NEW q \in pieces', Reply(q, c), Shortest(q)' PROVE Shortest(q) /\ q.total <= p.total
      <4>0. q.total \in Nat /\ p.total \in Nat
        BY <2>1 DEF PieceType
      <4>1. q.total <= p.total
        <5>1. CASE Shortest(p)
          BY <3>7, <3>9, <5>1 DEF Shortest, Reply
        <5>2. CASE ~Shortest(p)
          <6>1. PICK r \in pieces : Reply(r, c) /\ ~(p.total <= r.total)
            BY <5>2 DEF Shortest
          <6>2. r \in pieces' /\ r.total \in Nat
            BY <6>1, <2>1 DEF PieceType
          <6>3. q.total <= r.total
            BY <6>1, <6>2, <3>9 DEF Shortest, Reply
          <6> QED BY <6>1, <6>2, <6>3, <4>0
        <5> QED BY <5>1, <5>2
      <4> QED BY <4>1, <2>1, <3>9 DEF Shortest, Reply
    <3>10. ASSUME NEW q \in pieces', Reply(q, c), Shortest(q)', NEW j \in 1 .. q.total
           PROVE  There(c, q, j)'
      <4>0. q.total \in Nat /\ p.total \in Nat
        BY <2>1 DEF PieceType
      <4>1. There(c, q, j)
        BY <1>a, <2>1, <2>4, <3>3, <3>9, <3>10
      <4>2. j \in 1 .. p.total
        BY <4>0, <3>9, <3>10
      <4>3. CASE [call |-> c, run |-> q.run, idx |-> j, total |-> q.total] = p
        BY <4>3, <3>2, <3>4
      <4>4. CASE [call |-> c, run |-> q.run, idx |-> j, total |-> q.total] # p
        BY <4>1, <4>2, <4>4, <3>2, <3>4, <2>1 DEF m
      <4> QED BY <4>3, <4>4
    <3> QED BY <3>8, <3>10
  <2> QED BY <1>a, <2>1, <2>3, <2>4
<1>8. ASSUME StopClient \/ StopServer PROVE Goal
  BY <1>8, <1>a DEF StopClient, StopServer
<1>9. ASSUME UNCHANGED rpcVars PROVE Goal
  BY <1>9, <1>a DEF rpcVars, Dormant, Shortest
<1> HIDE DEF Goal
<1>10. Goal
  BY <1>1, <1>2, <1>3, <1>4, <1>5, <1>6, <1>7, <1>8, <1>9 DEF RpcNext
<1> QED BY <1>10 DEF Goal

\* The inductive invariant holds at first.
LEMMA RpcInitIInv == RpcInit => RpcIInv
BY RpcAssumption
   DEF RpcInit, RpcIInv, RpcTables, RpcFresh, RequestKept, ReplyKept, NoMessage

\* Every call, piece, merger and task is accounted for in every behaviour of Rpc.
LEMMA RpcInvariant == RpcSpec => []RpcIInv
<1>1. RpcIInv /\ [RpcNext]_rpcVars => RpcIInv'
  BY RpcTablesStep, RpcFreshStep, RequestKeptStep, ReplyKeptStep DEF RpcIInv
<1> QED BY <1>1, RpcInitIInv, PTL DEF RpcSpec

\* For any calls, message lengths and limits: the tables of client and server have their
\* types, and inflight_requests holds exactly the calls whose future is alive.
THEOREM RpcTypes == RpcSpec => []RpcTypeOK
BY RpcInvariant, RpcIInvSuffices, PTL

\* For any calls, message lengths and limits, and under duplication and reordering: mergers
\* never get stuck.
THEOREM RpcNeverStuck == RpcSpec => []NothingStuck
BY RpcInvariant, RpcIInvSuffices, PTL

\* Every step of packets, tables and tasks is a step of the call as its caller sees it, or
\* none: it is made once, ends once, and is answered only after it was run.
THEOREM RpcImplementsCall == RpcSpec => Promise!CallSafety
<1>1. RpcInit => Promise!CallInit
  BY DEF RpcInit, Promise!CallInit
<1>2. RpcIInv /\ [RpcNext]_rpcVars => [Promise!CallNext]_Promise!callVars
  <2> SUFFICES ASSUME RpcIInv, [RpcNext]_rpcVars
               PROVE  Promise!CallNext \/ UNCHANGED <<outcome, ran>>
    BY DEF Promise!callVars
  <2> USE RpcAssumption DEF RpcIInv, RpcTables
  <2>1. ASSUME NEW c \in Calls, Call(c) PROVE Promise!Invoke(c)
    BY <2>1 DEF Call, Promise!Invoke
  <2>2. ASSUME NEW c \in Calls, Return(c) PROVE Promise!Answer(c) \/ Promise!Fail(c)
    <3>1. PICK o \in {"answered", "failed"} : outcome' = [outcome EXCEPT ![c] = o]
      BY <2>2, Zenon DEF Return
    <3>2. ran[c] > 0 /\ outcome[c] = "waiting" /\ ran' = ran
      BY <2>2 DEF Return
    <3> QED BY <3>1, <3>2, Zenon DEF Promise!Answer, Promise!Fail
  <2>3. ASSUME NEW c \in Calls, Timeout(c) PROVE Promise!Fail(c)
    BY <2>3 DEF Timeout, Promise!Fail
  <2>4. ASSUME NEW p \in pieces, NEW again \in BOOLEAN, Arrive(p, again)
        PROVE  Promise!RunIt(p.call) \/ UNCHANGED <<outcome, ran>>
    <3>1. outcome[p.call] # "none"
      BY DEF RpcFresh
    <3> QED BY <2>4, <3>1 DEF Arrive, Serve, Promise!RunIt
  <2>5. \A p \in pieces : p.call \in Calls
    BY DEF PieceType
  <2>6. ASSUME NEW c \in Calls, Expire(c) \/ \E k \in 1 .. MaxRuns : Respond(c, k)
        PROVE  UNCHANGED <<outcome, ran>>
    BY <2>6, Zenon DEF Expire, Respond
  <2>7. ASSUME NEW p \in pieces, LosePiece(p) PROVE UNCHANGED <<outcome, ran>>
    BY <2>7 DEF LosePiece
  <2>8. ASSUME StopClient \/ StopServer \/ UNCHANGED rpcVars PROVE UNCHANGED <<outcome, ran>>
    BY <2>8 DEF StopClient, StopServer, rpcVars
  <2> QED BY <2>1, <2>2, <2>3, <2>4, <2>5, <2>6, <2>7, <2>8 DEF RpcNext, Promise!CallNext
<1> QED BY <1>1, <1>2, RpcInvariant, PTL DEF RpcSpec, Promise!CallSafety
=============================================================================
