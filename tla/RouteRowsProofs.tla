--------------------------- MODULE RouteRowsProofs ---------------------------
(***************************************************************************)
(* What holds of the replication of route rows for any nodes, any session  *)
(* tree and any number of events: a version counts as acknowledged, or is  *)
(* skipped, only if the peer holds it, and rows only grow. First the       *)
(* inductive invariant and the steps of the node that sends, then the      *)
(* handler of a sync request, the links and the theorems.                  *)
(***************************************************************************)
EXTENDS RouteRows, TLAPS

\* What one session knows of one row is no more than the peer holds, unless the peer has
\* collected the row; and what a request carries is no more than its sender holds.
PairInv(m, n, k) ==
  /\ row[m][k] <= row[Origin][k]
  /\ sess[m][n].ack[k] <= row[Origin][k]
  /\ call[m][n].ver[k] <= row[Origin][k]
  /\ collects[n] = 0 => sess[m][n].ack[k] <= row[n][k]
  /\ collects[m] = 0 => call[m][n].ver[k] <= row[m][k]
  /\ collects[n] = 0 /\ call[m][n].stage = "answered" => call[m][n].ver[k] <= row[n][k]

\* The bitmap is no newer than the rows, and a node whose rows connect it to Origin has
\* at least a placeholder for it.
NodeInv(n) ==
  /\ \A k \in Kinds : topo[n] /\ collects[n] = 0 => row[n][k] >= 0
  /\ cached[n] <= row[Origin]["conn"]
  /\ collects[n] = 0 => cached[n] <= row[n]["conn"]

\* What the cursor has passed, or will have passed when the request under way is answered,
\* is held by the peer, or is in that request.
SkipInv(m, n, k) ==
  ~UseBitmap /\ n # Origin /\ collects[n] = 0 /\ row[m][k] >= 1 /\ sess[m][n].pend[k] < row[m][k] =>
     /\ ~sess[m][n].fresh[k] => row[n][k] >= row[m][k]
     /\ call[m][n].stage # "idle" /\ ~call[m][n].newer[k] =>
          row[n][k] >= row[m][k] \/ (call[m][n].stage = "sent" /\ call[m][n].ver[k] = row[m][k])

RowsIInv ==
  /\ TypeOK
  /\ collects[Origin] = 0 /\ \A k \in Kinds : row[Origin][k] >= 1
  /\ \A n \in Nodes : NodeInv(n)
  /\ \A m, n \in Nodes, k \in Kinds : PairInv(m, n, k) /\ SkipInv(m, n, k)

-----------------------------------------------------------------------------

\* The rows of the initial sessions and calls.
LEMMA FixedParts ==
  /\ NewSession \in Session /\ NoCall \in Call /\ NoCall.stage = "idle"
  /\ \A k \in Kinds : /\ NewSession.ack[k] = None /\ NewSession.fresh[k] /\ NewSession.pend[k] = None
                      /\ NoCall.ver[k] = None
BY DEF NewSession, Session, NoCall, Call, Version, Kinds, None

\* A row that is put in the map is fresh for every session, and nothing else changes.
LEMMA FreshFacts ==
  ASSUME NEW ss \in [Nodes -> Session], NEW F \in SUBSET Kinds
  PROVE  /\ MarkFresh(ss, F) \in [Nodes -> Session]
         /\ \A j \in Nodes :
              /\ MarkFresh(ss, F)[j].ack = ss[j].ack /\ MarkFresh(ss, F)[j].pend = ss[j].pend
              /\ \A k \in Kinds : MarkFresh(ss, F)[j].fresh[k] <=> ss[j].fresh[k] \/ k \in F
              /\ ss[j] = NewSession => MarkFresh(ss, F)[j] = NewSession
<1> SUFFICES ASSUME NEW j \in Nodes
             PROVE  LET s == MarkFresh(ss, F)[j] IN
                    /\ s \in Session /\ s.ack = ss[j].ack /\ s.pend = ss[j].pend
                    /\ \A k \in Kinds : s.fresh[k] <=> ss[j].fresh[k] \/ k \in F
                    /\ ss[j] = NewSession => s = NewSession
  BY Zenon DEF MarkFresh
<1> DEFINE g == [k \in Kinds |-> ss[j].fresh[k] \/ k \in F]
<1>1. g \in [Kinds -> BOOLEAN]
  BY Zenon
<1>2. \A k \in Kinds : g[k] <=> ss[j].fresh[k] \/ k \in F
  BY Zenon
<1>3. ss[j] = NewSession => g = NewSession.fresh
  <2> SUFFICES ASSUME ss[j] = NewSession PROVE g = NewSession.fresh
    OBVIOUS
  <2>1. NewSession.fresh = [k \in Kinds |-> TRUE]
    BY DEF NewSession
  <2>2. \A k \in Kinds : (ss[j].fresh[k] \/ k \in F) = TRUE
    BY <2>1, Zenon
  <2> QED BY <2>1, <2>2, Zenon
<1>4. MarkFresh(ss, F)[j] = [ss[j] EXCEPT !.fresh = g]
  BY DEF MarkFresh
<1> HIDE DEF g
<1>5. /\ [ss[j] EXCEPT !.fresh = g] \in Session
      /\ [ss[j] EXCEPT !.fresh = g].ack = ss[j].ack /\ [ss[j] EXCEPT !.fresh = g].pend = ss[j].pend
      /\ [ss[j] EXCEPT !.fresh = g].fresh = g
  BY <1>1 DEF Session
<1>6. ss[j] = NewSession => [ss[j] EXCEPT !.fresh = g] = NewSession
  BY <1>3, Zenon DEF NewSession
<1> QED BY <1>2, <1>4, <1>5, <1>6

\* A request that was built before remembers that the row is newer.
LEMMA NewerFacts ==
  ASSUME NEW cs \in [Nodes -> Call], NEW F \in SUBSET Kinds
  PROVE  /\ MarkNewer(cs, F) \in [Nodes -> Call]
         /\ \A j \in Nodes :
              /\ MarkNewer(cs, F)[j].ver = cs[j].ver /\ MarkNewer(cs, F)[j].stage = cs[j].stage
              /\ cs[j].stage # "idle" =>
                   \A k \in Kinds : MarkNewer(cs, F)[j].newer[k] <=> cs[j].newer[k] \/ k \in F
              /\ cs[j].stage = "idle" => MarkNewer(cs, F)[j] = cs[j]
<1> SUFFICES ASSUME NEW j \in Nodes
             PROVE  LET c == MarkNewer(cs, F)[j] IN
                    /\ c \in Call /\ c.ver = cs[j].ver /\ c.stage = cs[j].stage
                    /\ cs[j].stage # "idle" => \A k \in Kinds : c.newer[k] <=> cs[j].newer[k] \/ k \in F
                    /\ cs[j].stage = "idle" => c = cs[j]
  BY Zenon DEF MarkNewer
<1> DEFINE g == [k \in Kinds |-> cs[j].newer[k] \/ k \in F]
<1>1. g \in [Kinds -> BOOLEAN]
  BY Zenon
<1>2. \A k \in Kinds : g[k] <=> cs[j].newer[k] \/ k \in F
  BY Zenon
<1>3. MarkNewer(cs, F)[j] = IF cs[j].stage = "idle" THEN cs[j] ELSE [cs[j] EXCEPT !.newer = g]
  BY DEF MarkNewer
<1> HIDE DEF g
<1>4. /\ [cs[j] EXCEPT !.newer = g] \in Call
      /\ [cs[j] EXCEPT !.newer = g].ver = cs[j].ver /\ [cs[j] EXCEPT !.newer = g].stage = cs[j].stage
      /\ [cs[j] EXCEPT !.newer = g].newer = g
  BY <1>1, Zenon DEF Call
<1> QED BY <1>2, <1>3, <1>4

-----------------------------------------------------------------------------

\* A step that only lets rows grow, and marks those that do, keeps what a session knows if
\* it leaves the session and its request alone otherwise.
Grown(i, j, k) ==
  /\ row'[i][k] >= row[i][k] /\ row'[j][k] >= row[j][k] /\ row'[Origin][k] >= row[Origin][k]
  /\ row'[i][k] <= row'[Origin][k]
  /\ row'[i][k] # row[i][k] =>
       sess'[i][j].fresh[k] /\ (call'[i][j].stage # "idle" => call'[i][j].newer[k])
Kept(i, j, k) ==
  /\ sess'[i][j].ack[k] = sess[i][j].ack[k] /\ sess'[i][j].pend[k] = sess[i][j].pend[k]
  /\ call'[i][j].ver[k] = call[i][j].ver[k] /\ call'[i][j].stage = call[i][j].stage
  /\ sess[i][j].fresh[k] => sess'[i][j].fresh[k]
  /\ call[i][j].stage # "idle" /\ call[i][j].newer[k] => call'[i][j].newer[k]

\* What a session knows of a row stays true when a step keeps all that it speaks of.
LEMMA KeptPair ==
  ASSUME TypeOK, row' \in [Nodes -> [Kinds -> Version]], collects' = collects,
         NEW i \in Nodes, NEW j \in Nodes, NEW k \in Kinds,
         PairInv(i, j, k), SkipInv(i, j, k), Grown(i, j, k), Kept(i, j, k)
  PROVE  PairInv(i, j, k)' /\ SkipInv(i, j, k)'
<1>1. /\ row[i][k] \in Int /\ row[j][k] \in Int /\ row[Origin][k] \in Int
      /\ row'[i][k] \in Int /\ row'[j][k] \in Int /\ row'[Origin][k] \in Int
      /\ sess[i][j].ack[k] \in Int /\ sess[i][j].pend[k] \in Int /\ call[i][j].ver[k] \in Int
  BY TreeAssumption DEF TypeOK, Version, None, Session, Call
<1>2. PairInv(i, j, k)'
  BY <1>1 DEF PairInv, Grown, Kept
<1>3. SkipInv(i, j, k)'
  BY <1>1 DEF SkipInv, Grown, Kept
<1> QED BY <1>2, <1>3

\* A session that begins, and has no request yet.
LEMMA NewPair ==
  ASSUME row' \in [Nodes -> [Kinds -> Version]],
         NEW i \in Nodes, NEW j \in Nodes, NEW k \in Kinds, row'[i][k] <= row'[Origin][k],
         sess'[i][j] = NewSession, call'[i][j] = NoCall
  PROVE  PairInv(i, j, k)' /\ SkipInv(i, j, k)'
<1>1. /\ row'[i][k] \in Int /\ row'[i][k] >= -1 /\ row'[j][k] \in Int /\ row'[j][k] >= -1
      /\ row'[Origin][k] \in Int /\ row'[Origin][k] >= -1
  BY TreeAssumption DEF Version, None
<1>2. /\ sess'[i][j].ack[k] = -1 /\ sess'[i][j].fresh[k] /\ call'[i][j].ver[k] = -1 /\ call'[i][j].stage = "idle"
  BY FixedParts DEF None
<1> QED BY <1>1, <1>2 DEF PairInv, SkipInv

-----------------------------------------------------------------------------
(* What the steps have in common *)

\* What TypeOK says of each part of the state.
LEMMA Parts ==
  ASSUME TypeOK, NEW i \in Nodes, NEW j \in Nodes
  PROVE  /\ sess[i] \in [Nodes -> Session] /\ call[i] \in [Nodes -> Call]
         /\ sess[i][j] \in Session /\ call[i][j] \in Call
         /\ \A k \in Kinds : /\ row[i][k] \in Int /\ row[i][k] >= -1
                             /\ sess[i][j].ack[k] \in Int /\ sess[i][j].ack[k] >= -1
                             /\ sess[i][j].pend[k] \in Int /\ sess[i][j].pend[k] >= -1
                             /\ call[i][j].ver[k] \in Int /\ call[i][j].ver[k] >= -1
         /\ cached[i] \in Int /\ cached[i] >= -1
BY DEF TypeOK, Version, None, Session, Call

\* The versions that a pair of nodes holds, has acknowledged and has sent are numbers.
LEMMA Numbers ==
  ASSUME TypeOK, NEW i \in Nodes, NEW j \in Nodes, NEW k \in Kinds
  PROVE  /\ row[i][k] \in Int /\ row[j][k] \in Int /\ row[Origin][k] \in Int
         /\ row[i][k] >= -1 /\ row[j][k] >= -1 /\ row[Origin][k] >= -1
         /\ sess[i][j].ack[k] \in Int /\ sess[i][j].ack[k] >= -1
         /\ sess[i][j].pend[k] \in Int /\ sess[i][j].pend[k] >= -1
         /\ call[i][j].ver[k] \in Int /\ call[i][j].ver[k] >= -1
BY Parts, TreeAssumption

\* What the handler makes of a node's rows: no version is lost, those of the request are
\* taken, and there is a placeholder for what the request mentions.
LEMMA MergeFacts ==
  ASSUME RowsIInv, NEW m \in Nodes, NEW n \in Nodes
  PROVE  LET c == call[m][n]
             r == Merge(row[n], c) IN
         /\ r \in [Kinds -> Version]
         /\ \A k \in Kinds : /\ r[k] >= row[n][k] /\ r[k] >= c.ver[k] /\ r[k] <= row[Origin][k]
                             /\ n = Origin => r[k] = row[n][k]
                             /\ c.refs /\ c.topo => r[k] >= 0
<1> DEFINE c == call[m][n]
           r == Merge(row[n], c)
<1>1. TypeOK
  BY DEF RowsIInv
<1>2. ASSUME NEW k \in Kinds
      PROVE  /\ r[k] \in Version /\ r[k] >= row[n][k] /\ r[k] >= c.ver[k] /\ r[k] <= row[Origin][k]
             /\ n = Origin => r[k] = row[n][k]
             /\ c.refs /\ c.topo => r[k] >= 0
  <2>1. /\ row[n][k] \in Int /\ row[n][k] >= -1 /\ c.ver[k] \in Int /\ c.ver[k] >= -1 /\ row[Origin][k] \in Int
    BY <1>1, Numbers
  <2>2. row[Origin][k] >= 1 /\ row[n][k] <= row[Origin][k] /\ c.ver[k] <= row[Origin][k]
    BY DEF RowsIInv, PairInv
  <2>3. r[k] = Larger(c.ver[k], IF Mentioned(c) THEN Larger(row[n][k], 0) ELSE row[n][k])
    BY DEF Merge
  <2>4. c.refs /\ c.topo => Mentioned(c)
    BY DEF Mentioned
  <2> HIDE DEF c, r
  <2> QED BY <2>1, <2>2, <2>3, <2>4 DEF Larger, Version, None
<1>3. r = [k \in Kinds |-> r[k]]
  BY DEF Merge
<1> QED BY <1>2, <1>3

\* A link that closes or opens takes no row away.
LEMMA LinkRowsGrow ==
  ASSUME TypeOK, NEW x \in Nodes \ {Origin}, NEW up, NEW ss, NEW cc, LinkChanged(x, up, ss, cc),
         NEW n \in Nodes, NEW k \in Kinds
  PROVE  row'[n][k] >= row[n][k]
<1> DEFINE r == IF up THEN [i \in Kinds |-> Larger(row[x][i], 0)] ELSE row[x]
<1>0. /\ x \in Nodes /\ x # Origin /\ Origin \in Nodes /\ "conn" \in Kinds
      /\ row \in [Nodes -> [Kinds -> Version]] /\ row[n][k] \in Int
  BY TreeAssumption, Parts DEF TypeOK, Kinds
<1>1. row' = row \/ row' = [row EXCEPT ![x] = r, ![Origin]["conn"] = @ + 1]
  BY DEF LinkChanged
<1>2. n = x => r[k] >= row[n][k]
  BY <1>0 DEF Larger
<1> HIDE DEF r
<1>3. CASE row' = row
  BY <1>0, <1>3
<1>4. CASE row' = [row EXCEPT ![x] = r, ![Origin]["conn"] = @ + 1]
  <2>1. row'[n][k] = IF n = x THEN r[k] ELSE IF n = Origin /\ k = "conn" THEN row[n][k] + 1 ELSE row[n][k]
    BY <1>0, <1>4
  <2> QED BY <1>0, <1>2, <2>1
<1> QED BY <1>1, <1>3, <1>4, ZenonT(30)

\* What a step may do to the rows of a node.
RowsOf(n) ==
  \/ \A k \in Kinds : row'[n][k] >= row[n][k]
  \/ ~Reachable(n, row[n], topo[n]) /\ \A k \in Kinds : row'[n][k] = None

\* Every step of the nodes lets the rows of each node grow, or collects them.
LEMMA RowsGrowStep ==
  ASSUME RowsIInv, [Next]_vars, NEW n \in Nodes
  PROVE  RowsOf(n)
<1>0. TypeOK /\ row \in [Nodes -> [Kinds -> Version]] /\ \A k \in Kinds : row[n][k] \in Int
  BY Parts DEF RowsIInv, TypeOK
<1>1. CASE row' = row
  BY <1>0, <1>1 DEF RowsOf
<1>2. ASSUME NEW kk \in Kinds, Publish(kk) PROVE RowsOf(n)
  BY <1>0, <1>2, TreeAssumption DEF RowsOf, Publish
<1>3. ASSUME NEW m \in Nodes, NEW i \in Nodes, HandleSync(m, i) PROVE RowsOf(n)
  <2> DEFINE r == Merge(row[i], call[m][i])
  <2>1. \A k \in Kinds : r[k] >= row[i][k]
    BY MergeFacts, ZenonT(30)
  <2>2. row' = [row EXCEPT ![i] = r]
    BY <1>3 DEF HandleSync
  <2> HIDE DEF r
  <2> QED BY <1>0, <2>1, <2>2 DEF RowsOf
<1>4. ASSUME NEW x \in Nodes \ {Origin}, Collect(x) PROVE RowsOf(n)
  BY <1>0, <1>4 DEF RowsOf, Collect
<1>5. ASSUME NEW x \in Nodes \ {Origin}, LinkDown(x) \/ LinkUp(x) PROVE RowsOf(n)
  BY <1>0, <1>5, LinkRowsGrow, Zenon DEF LinkDown, LinkUp, RowsOf
<1>6. ASSUME NEW m \in Nodes, NEW i \in Nodes,
             SendSync(m, i) \/ (\E E \in SUBSET Kinds : SendNothing(m, i, E)) \/ SyncOk(m, i) \/ SyncErr(m, i)
      PROVE  row' = row
  BY <1>6, Zenon DEF SendSync, SendNothing, SyncOk, SyncErr
<1>7. RefreshCached \/ UNCHANGED vars => row' = row
  BY DEF RefreshCached, vars
<1> QED BY <1>1, <1>2, <1>3, <1>4, <1>5, <1>6, <1>7, ZenonT(30) DEF Next

\* The invariant is about the variables of the specification.
LEMMA StutterKeeps ==
  ASSUME RowsIInv, UNCHANGED vars
  PROVE  RowsIInv'
BY DEF vars, RowsIInv, TypeOK, NodeInv, PairInv, SkipInv, Linked

\* The types after a step that changes no link and gives no session to a pair without one.
LEMMA TypesStay ==
  ASSUME TypeOK, link' = link, row' \in [Nodes -> [Kinds -> Version]], topo' \in [Nodes -> BOOLEAN],
         cached' \in [Nodes -> Version], sess' \in [Nodes -> [Nodes -> Session]],
         call' \in [Nodes -> [Nodes -> Call]], events' \in 0 .. MaxEvents,
         collects' \in [Nodes -> 0 .. MaxCollects],
         \A m, n \in Nodes : sess[m][n] = NewSession /\ call[m][n] = NoCall /\ ~Linked(m, n)
                             => sess'[m][n] = NewSession /\ call'[m][n] = NoCall
  PROVE  TypeOK'
<1>1. \A m, n \in Nodes : Linked(m, n)' <=> Linked(m, n)
  BY DEF Linked
<1>2. \A m, n \in Nodes : ~Linked(m, n)' => (sess[m][n] = NewSession /\ call[m][n] = NoCall)'
  BY <1>1 DEF TypeOK
<1> QED BY <1>2 DEF TypeOK

-----------------------------------------------------------------------------
(* Local steps *)

\* update_my_infos puts a newer row of its own in the map.
LEMMA PublishKeeps ==
  ASSUME RowsIInv, NEW kk \in Kinds, Publish(kk)
  PROVE  RowsIInv'
<1>0. TypeOK /\ Origin \in Nodes
  BY TreeAssumption DEF RowsIInv
<1>1. /\ row' \in [Nodes -> [Kinds -> Version]]
      /\ \A n \in Nodes, k \in Kinds :
           row'[n][k] = IF n = Origin /\ k = kk THEN row[n][k] + 1 ELSE row[n][k]
  <2>1. row[Origin] \in [Kinds -> Version] /\ row \in [Nodes -> [Kinds -> Version]]
    BY <1>0 DEF TypeOK
  <2>2. row[Origin][kk] + 1 \in Version
    BY <2>1 DEF Version, None
  <2> HIDE DEF Version
  <2> QED BY <1>0, <2>1, <2>2 DEF Publish
<1>2. \A i \in Nodes : /\ sess'[i] = IF i = Origin THEN MarkFresh(sess[i], {kk}) ELSE sess[i]
                       /\ call'[i] = IF i = Origin THEN MarkNewer(call[i], {kk}) ELSE call[i]
  BY <1>0 DEF Publish, TypeOK
<1>3. /\ sess' \in [Nodes -> [Nodes -> Session]] /\ call' \in [Nodes -> [Nodes -> Call]]
      /\ \A i, j \in Nodes :
           /\ sess[i][j] = NewSession => sess'[i][j] = NewSession
           /\ call[i][j] = NoCall => call'[i][j] = NoCall
           /\ \A k \in Kinds :
                /\ Kept(i, j, k)
                /\ i = Origin /\ k = kk => sess'[i][j].fresh[k] /\ (call'[i][j].stage # "idle" => call'[i][j].newer[k])
  <2>1. DOMAIN sess' = Nodes /\ DOMAIN call' = Nodes
    BY <1>0 DEF Publish, TypeOK
  <2>2. ASSUME NEW i \in Nodes
        PROVE  /\ sess'[i] \in [Nodes -> Session] /\ call'[i] \in [Nodes -> Call]
               /\ \A j \in Nodes :
                    /\ sess[i][j] = NewSession => sess'[i][j] = NewSession
                    /\ call[i][j] = NoCall => call'[i][j] = NoCall
                    /\ \A k \in Kinds :
                         /\ Kept(i, j, k)
                         /\ i = Origin /\ k = kk => sess'[i][j].fresh[k] /\ (call'[i][j].stage # "idle" => call'[i][j].newer[k])
    <3>1. sess[i] \in [Nodes -> Session] /\ call[i] \in [Nodes -> Call]
      BY <1>0, Parts
    <3>2. CASE i # Origin
      BY <1>2, <3>1, <3>2 DEF Kept
    <3>3. CASE i = Origin
      <4>1. sess'[i] = MarkFresh(sess[i], {kk}) /\ call'[i] = MarkNewer(call[i], {kk}) /\ {kk} \in SUBSET Kinds
        BY <1>2, <3>3
      <4>2. /\ sess'[i] \in [Nodes -> Session]
            /\ \A j \in Nodes :
                 /\ sess'[i][j].ack = sess[i][j].ack /\ sess'[i][j].pend = sess[i][j].pend
                 /\ \A k \in Kinds : sess'[i][j].fresh[k] <=> sess[i][j].fresh[k] \/ k \in {kk}
                 /\ sess[i][j] = NewSession => sess'[i][j] = NewSession
        BY <3>1, <4>1, FreshFacts
      <4>3. /\ call'[i] \in [Nodes -> Call]
            /\ \A j \in Nodes :
                 /\ call'[i][j].ver = call[i][j].ver /\ call'[i][j].stage = call[i][j].stage
                 /\ call[i][j].stage # "idle" =>
                      \A k \in Kinds : call'[i][j].newer[k] <=> call[i][j].newer[k] \/ k \in {kk}
                 /\ call[i][j].stage = "idle" => call'[i][j] = call[i][j]
        BY <3>1, <4>1, NewerFacts
      <4> QED BY <4>2, <4>3, FixedParts DEF Kept
    <3> QED BY <3>2, <3>3
  <2>3. sess' \in [Nodes -> [Nodes -> Session]] /\ call' \in [Nodes -> [Nodes -> Call]]
    <3>1. sess' = [i \in Nodes |-> sess'[i]] /\ call' = [i \in Nodes |-> call'[i]]
      BY <1>0, <2>1, Zenon DEF Publish, TypeOK
    <3> QED BY <2>2, <3>1, Zenon
  <2> QED BY <2>2, <2>3
<1>4. TypeOK'
  <2>1. events' \in 0 .. MaxEvents
    BY <1>0, BoundsAssumption DEF Publish, TypeOK
  <2>2. /\ link' = link /\ topo' \in [Nodes -> BOOLEAN] /\ cached' \in [Nodes -> Version]
        /\ collects' \in [Nodes -> 0 .. MaxCollects]
    BY <1>0 DEF Publish, TypeOK
  <2> QED BY <1>0, <1>1, <1>3, <2>1, <2>2, TypesStay
<1>5. ASSUME NEW i \in Nodes, NEW j \in Nodes, NEW k \in Kinds
      PROVE  PairInv(i, j, k)' /\ SkipInv(i, j, k)'
  <2>1. Grown(i, j, k)
    <3>1. row[i][k] <= row[Origin][k]
      BY DEF RowsIInv, PairInv
    <3> QED BY <1>0, <1>1, <1>3, <3>1, Numbers DEF Grown
  <2> QED BY <1>0, <1>1, <1>3, <2>1, KeptPair DEF RowsIInv, Publish
<1>6. ASSUME NEW n \in Nodes PROVE NodeInv(n)'
  BY <1>0, <1>1, Parts DEF RowsIInv, NodeInv, Publish, Kinds
<1> QED BY <1>0, <1>1, <1>4, <1>5, <1>6, Parts DEF RowsIInv, Publish

\* The bitmap catches up.
LEMMA RefreshKeeps ==
  ASSUME RowsIInv, RefreshCached
  PROVE  RowsIInv'
<1>0. TypeOK /\ Origin \in Nodes /\ row[Origin]["conn"] \in Version
  BY TreeAssumption DEF RowsIInv, TypeOK, Kinds
<1>1. /\ cached' \in [Nodes -> Version]
      /\ \A n \in Nodes : cached'[n] = IF n = Origin THEN row[n]["conn"] ELSE cached[n]
  BY <1>0 DEF RefreshCached, TypeOK
<1>2. TypeOK'
  BY <1>0, <1>1 DEF RefreshCached, TypeOK, Linked
<1>3. \A n \in Nodes : NodeInv(n)'
  BY <1>0, <1>1, Parts DEF RowsIInv, NodeInv, RefreshCached, Kinds
<1> QED BY <1>2, <1>3 DEF RowsIInv, PairInv, SkipInv, RefreshCached

\* clear_expired_peer takes rows away, of which nothing was claimed from then on.
LEMMA CollectKeeps ==
  ASSUME RowsIInv, NEW x \in Nodes \ {Origin}, Collect(x)
  PROVE  RowsIInv'
<1>0. TypeOK /\ Origin \in Nodes /\ x \in Nodes /\ x # Origin
  BY TreeAssumption DEF RowsIInv
<1>1. /\ row' \in [Nodes -> [Kinds -> Version]]
      /\ \A n \in Nodes, k \in Kinds : row'[n][k] = IF n = x THEN -1 ELSE row[n][k]
  BY <1>0 DEF Collect, TypeOK, Version, None
<1>2. /\ cached' \in [Nodes -> Version]
      /\ \A n \in Nodes : IF n = x THEN cached'[n] \in {0, -1} ELSE cached'[n] = cached[n]
  <2>1. InBitmap(x, row'[x], topo[x]) \in {0, -1}
    BY <1>0, <1>1 DEF InBitmap, None, Kinds
  <2>2. {0, -1} \subseteq Version
    BY DEF Version, None
  <2>3. cached \in [Nodes -> Version] /\ cached' = [cached EXCEPT ![x] = InBitmap(x, row'[x], topo[x])]
    BY <1>0 DEF Collect, TypeOK
  <2> HIDE DEF Version, InBitmap
  <2> QED BY <1>0, <2>1, <2>2, <2>3
<1>3. /\ collects' \in [Nodes -> 0 .. MaxCollects]
      /\ \A n \in Nodes : collects'[n] = IF n = x THEN collects[n] + 1 ELSE collects[n]
      /\ \A n \in Nodes : collects[n] \in Nat
  BY <1>0, BoundsAssumption DEF Collect, TypeOK
<1>4. TypeOK'
  <2>1. /\ link' = link /\ topo' = topo /\ sess' = sess /\ call' = call /\ events' = events
    BY DEF Collect
  <2> QED BY <1>0, <1>1, <1>2, <1>3, <2>1, TypesStay DEF TypeOK
<1>5. ASSUME NEW n \in Nodes PROVE NodeInv(n)'
  <2>1. /\ NodeInv(n) /\ topo' = topo /\ "conn" \in Kinds
        /\ row[Origin]["conn"] >= 1 /\ row[Origin]["conn"] \in Int
    BY <1>0, Parts DEF RowsIInv, Collect, Kinds
  <2>2. CASE n = x
    <3>1. collects'[n] # 0 /\ cached'[n] \in {0, -1} /\ row'[Origin]["conn"] = row[Origin]["conn"]
      BY <1>0, <1>1, <1>2, <1>3, <2>1, <2>2
    <3> QED BY <2>1, <3>1 DEF NodeInv
  <2>3. CASE n # x
    <3>1. /\ collects'[n] = collects[n] /\ cached'[n] = cached[n] /\ row'[Origin]["conn"] = row[Origin]["conn"]
          /\ \A k \in Kinds : row'[n][k] = row[n][k]
      BY <1>0, <1>1, <1>2, <1>3, <2>1, <2>3
    <3> QED BY <2>1, <3>1 DEF NodeInv
  <2> QED BY <2>2, <2>3
<1>6. ASSUME NEW i \in Nodes, NEW j \in Nodes, NEW k \in Kinds
      PROVE  PairInv(i, j, k)' /\ SkipInv(i, j, k)'
  <2>1. /\ PairInv(i, j, k) /\ SkipInv(i, j, k) /\ row[Origin][k] >= 1
        /\ sess' = sess /\ call' = call
    BY DEF RowsIInv, Collect
  <2>2. PairInv(i, j, k)'
    BY <1>0, <1>1, <1>3, <2>1, Numbers DEF PairInv
  <2>3. SkipInv(i, j, k)'
    BY <1>0, <1>1, <1>3, <2>1, Numbers DEF SkipInv
  <2> QED BY <2>2, <2>3
<1> QED BY <1>0, <1>1, <1>3, <1>4, <1>5, <1>6 DEF RowsIInv

-----------------------------------------------------------------------------
(* The sender *)

\* A step that changes one session and its request only.
LEMMA OnePair ==
  ASSUME RowsIInv, NEW m \in Nodes, NEW n \in Nodes, Linked(m, n),
         row' = row, topo' = topo, cached' = cached, link' = link, collects' = collects,
         events' \in 0 .. MaxEvents,
         NEW s \in Session, NEW c \in Call,
         sess' \in [Nodes -> [Nodes -> Session]], call' \in [Nodes -> [Nodes -> Call]],
         \A i, j \in Nodes : sess'[i][j] = IF i = m /\ j = n THEN s ELSE sess[i][j],
         \A i, j \in Nodes : call'[i][j] = IF i = m /\ j = n THEN c ELSE call[i][j],
         \A k \in Kinds : PairInv(m, n, k)' /\ SkipInv(m, n, k)'
  PROVE  RowsIInv'
<1>1. TypeOK'
  BY TypesStay, ZenonT(30) DEF RowsIInv, TypeOK
<1>2. ASSUME NEW i \in Nodes, NEW j \in Nodes, NEW k \in Kinds
      PROVE  PairInv(i, j, k)' /\ SkipInv(i, j, k)'
  <2>1. CASE i = m /\ j = n
    BY <2>1
  <2>2. CASE ~(i = m /\ j = n)
    <3>1. sess'[i][j] = sess[i][j] /\ call'[i][j] = call[i][j] /\ row' = row /\ collects' = collects
      BY <2>2
    <3>2. PairInv(i, j, k) /\ SkipInv(i, j, k)
      BY DEF RowsIInv
    <3> QED BY <3>1, <3>2 DEF PairInv, SkipInv
  <2> QED BY <2>1, <2>2
<1>3. \A i \in Nodes : NodeInv(i)'
  BY DEF RowsIInv, NodeInv
<1> QED BY <1>1, <1>2, <1>3 DEF RowsIInv

\* The rows remembered as unreachable: for a row that the cursor has passed, the one
\* remembered before or none, and none only if the peer has acknowledged that much.
LEMMA PendingFacts ==
  ASSUME RowsIInv, NEW m \in Nodes, NEW n \in Nodes
  PROVE  /\ Pending(m, n) \in [Kinds -> Version]
         /\ \A k \in Kinds :
              n # Origin /\ row[m][k] >= 1 /\ Pending(m, n)[k] < row[m][k] =>
                \/ sess[m][n].ack[k] >= row[m][k]
                \/ sess[m][n].fresh[k] /\ k \in Included(m, n)
                \/ ~sess[m][n].fresh[k] /\ sess[m][n].pend[k] < row[m][k]
<1> DEFINE s == sess[m][n]
           p == [k \in Kinds |-> IF k \in Newest(m, n) /\ ~Reachable(m, row[m], topo[m])
                                 THEN row[m][k] ELSE s.pend[k]]
<1>0. /\ TypeOK /\ row[m] \in [Kinds -> Version] /\ s.pend \in [Kinds -> Version]
      /\ \A k \in Kinds : /\ row[m][k] \in Int /\ s.ack[k] \in Int /\ s.pend[k] \in Int
  BY Parts DEF RowsIInv, TypeOK, Session
<1>1. Pending(m, n) = [k \in Kinds |-> IF p[k] # None /\ ~UpToDate(n, s.ack[k], p[k]) /\ row[m][k] # None
                                       THEN p[k] ELSE None]
  BY DEF Pending
<1>2. p \in [Kinds -> Version]
  BY <1>0
<1>3. Pending(m, n) \in [Kinds -> Version]
  <2> HIDE DEF p
  <2> QED BY <1>1, <1>2 DEF Version
<1>4. ASSUME NEW k \in Kinds, n # Origin, row[m][k] >= 1, Pending(m, n)[k] < row[m][k]
      PROVE  \/ s.ack[k] >= row[m][k]
             \/ s.fresh[k] /\ k \in Included(m, n)
             \/ ~s.fresh[k] /\ s.pend[k] < row[m][k]
  <2>1. /\ Pending(m, n)[k] = IF p[k] # None /\ ~UpToDate(n, s.ack[k], p[k]) THEN p[k] ELSE None
        /\ p[k] = IF k \in Newest(m, n) /\ ~Reachable(m, row[m], topo[m]) THEN row[m][k] ELSE s.pend[k]
    BY <1>0, <1>1, <1>4 DEF None
  <2>2. k \in Newest(m, n) <=> s.fresh[k] /\ ~(s.ack[k] >= row[m][k])
    BY <1>0, <1>4 DEF Newest, UpToDate, None
  <2>3. CASE s.fresh[k]
    <3>1. CASE k \in Newest(m, n) /\ ~Reachable(m, row[m], topo[m])
      BY <1>0, <1>4, <2>1, <2>2, <3>1 DEF UpToDate, None
    <3>2. CASE k \in Newest(m, n) /\ Reachable(m, row[m], topo[m])
      BY <2>3, <3>2 DEF Included
    <3> QED BY <2>2, <2>3, <3>1, <3>2
  <2>4. CASE ~s.fresh[k]
    <3>1. p[k] = s.pend[k]
      BY <2>1, <2>2, <2>4
    <3>2. CASE s.pend[k] >= row[m][k]
      BY <1>0, <1>4, <2>1, <3>1, <3>2 DEF UpToDate, None
    <3>3. CASE s.pend[k] < row[m][k]
      BY <2>4, <3>3
    <3> QED BY <1>0, <3>2, <3>3
  <2> QED BY <2>3, <2>4
<1> QED BY <1>3, <1>4

\* A request is built from the rows and the remembered ones.
LEMMA SendKeeps ==
  ASSUME RowsIInv, NEW m \in Nodes, NEW n \in Nodes, SendSync(m, n)
  PROVE  RowsIInv'
<1> DEFINE incl == Included(m, n)
           s == [sess[m][n] EXCEPT !.pend = Pending(m, n), !.retry = FALSE]
<1>0. /\ TypeOK /\ sess[m][n] \in Session /\ call[m][n] \in Call /\ Linked(m, n)
      /\ sess \in [Nodes -> [Nodes -> Session]] /\ call \in [Nodes -> [Nodes -> Call]]
      /\ row[m] \in [Kinds -> Version] /\ cached[m] \in Version /\ topo[m] \in BOOLEAN
      /\ row' = row /\ topo' = topo /\ cached' = cached /\ link' = link /\ collects' = collects /\ events' = events
  <2>1. TypeOK
    BY DEF RowsIInv
  <2>2. /\ Linked(m, n) /\ row' = row /\ topo' = topo /\ cached' = cached /\ link' = link
        /\ collects' = collects /\ events' = events
    BY DEF SendSync
  <2> QED BY <2>1, <2>2, Parts DEF TypeOK
<1>1. PICK f \in ConnFormats(m, n, incl) :
        call' = [call EXCEPT ![m][n] = [ NoCall EXCEPT
            !.stage = "sent", !.conn = f[1], !.refs = f[2], !.topo = topo[m],
            !.ver = [k \in Kinds |-> IF k = "conn" /\ f[1] = "bitmap" THEN cached[m]
                                     ELSE IF k \in incl THEN row[m][k] ELSE None]]]
  BY Zenon DEF SendSync
<1> DEFINE v == [k \in Kinds |-> IF k = "conn" /\ f[1] = "bitmap" THEN cached[m]
                                 ELSE IF k \in incl THEN row[m][k] ELSE None]
           c == [NoCall EXCEPT !.stage = "sent", !.conn = f[1], !.refs = f[2], !.topo = topo[m], !.ver = v]
<1>2. /\ f[1] \in {"none", "list", "bitmap"} /\ f[2] \in BOOLEAN /\ (f[1] = "bitmap" => UseBitmap)
  BY DEF ConnFormats
<1>3. v \in [Kinds -> Version]
  BY <1>0 DEF Version
<1>4. \A k \in Kinds : v[k] = IF k = "conn" /\ f[1] = "bitmap" THEN cached[m]
                              ELSE IF k \in incl THEN row[m][k] ELSE None
  OBVIOUS
<1> HIDE DEF incl, v
<1>5. c \in Call /\ c.stage = "sent" /\ c.ver = v
  BY <1>0, <1>2, <1>3, FixedParts, Zenon DEF Call
<1>6. s \in Session /\ s.ack = sess[m][n].ack /\ s.fresh = sess[m][n].fresh /\ s.pend = Pending(m, n)
  <2>1. Pending(m, n) \in [Kinds -> Version] /\ FALSE \in BOOLEAN
    BY PendingFacts
  <2> HIDE DEF Pending
  <2> QED BY <1>0, <2>1, Zenon DEF Session
<1>7. /\ sess' \in [Nodes -> [Nodes -> Session]]
      /\ \A i, j \in Nodes : sess'[i][j] = IF i = m /\ j = n THEN s ELSE sess[i][j]
  <2>1. sess' = [sess EXCEPT ![m][n] = s]
    BY <1>0, Zenon DEF SendSync
  <2> HIDE DEF s
  <2> QED BY <1>0, <1>6, <2>1
<1>8. /\ call' \in [Nodes -> [Nodes -> Call]]
      /\ \A i, j \in Nodes : call'[i][j] = IF i = m /\ j = n THEN c ELSE call[i][j]
  <2>1. call' = [call EXCEPT ![m][n] = c]
    BY <1>1 DEF v, incl
  <2> HIDE DEF c
  <2> QED BY <1>0, <1>5, <2>1
<1> HIDE DEF s, c
<1>9. ASSUME NEW k \in Kinds PROVE PairInv(m, n, k)' /\ SkipInv(m, n, k)'
  <2>1. /\ PairInv(m, n, k) /\ SkipInv(m, n, k) /\ NodeInv(m) /\ row[Origin][k] >= 1
    BY DEF RowsIInv
  <2>2. /\ row[m][k] \in Int /\ row[n][k] \in Int /\ row[Origin][k] \in Int /\ cached[m] \in Int
        /\ row[m][k] >= -1
        /\ sess[m][n].ack[k] \in Int /\ sess[m][n].pend[k] \in Int /\ call[m][n].ver[k] \in Int
        /\ Pending(m, n)[k] \in Int
    BY <1>0, Numbers, PendingFacts DEF Version, None
  <2>3. v[k] <= row[Origin][k] /\ (collects[m] = 0 => v[k] <= row[m][k])
    BY <1>4, <2>1, <2>2 DEF PairInv, NodeInv, None
  <2>4. sess'[m][n] = s /\ call'[m][n] = c /\ row' = row /\ collects' = collects
    BY <1>0, <1>7, <1>8
  <2>5. PairInv(m, n, k)'
    BY <1>5, <1>6, <2>1, <2>2, <2>3, <2>4 DEF PairInv
  <2>6. ASSUME ~UseBitmap, n # Origin, collects[n] = 0, row[m][k] >= 1, Pending(m, n)[k] < row[m][k]
        PROVE  /\ ~sess[m][n].fresh[k] => row[n][k] >= row[m][k]
               /\ row[n][k] >= row[m][k] \/ v[k] = row[m][k]
    <3>1. CASE sess[m][n].ack[k] >= row[m][k]
      BY <2>1, <2>2, <2>6, <3>1 DEF PairInv
    <3>2. CASE sess[m][n].fresh[k] /\ k \in incl
      BY <1>2, <1>4, <2>6, <3>2
    <3>3. CASE ~sess[m][n].fresh[k] /\ sess[m][n].pend[k] < row[m][k]
      BY <2>1, <2>6, <3>3 DEF SkipInv
    <3> QED BY <2>6, <3>1, <3>2, <3>3, PendingFacts DEF incl
  <2>7. SkipInv(m, n, k)'
    BY <1>5, <1>6, <2>4, <2>6 DEF SkipInv
  <2> QED BY <2>5, <2>7
<1>10. events' \in 0 .. MaxEvents
  BY <1>0 DEF TypeOK
<1> QED BY <1>0, <1>5, <1>6, <1>7, <1>8, <1>9, <1>10, OnePair, Zenon

\* A round with nothing to send, which may also forget acknowledgements.
LEMMA SendNothingKeeps ==
  ASSUME RowsIInv, NEW m \in Nodes, NEW n \in Nodes, NEW E \in SUBSET Kinds, SendNothing(m, n, E)
  PROVE  RowsIInv'
<1> DEFINE a == [k \in Kinds |-> IF k \in E THEN None ELSE sess[m][n].ack[k]]
           s == [sess[m][n] EXCEPT !.pend = Pending(m, n), !.ack = a]
<1>0. /\ TypeOK /\ sess[m][n] \in Session /\ call[m][n] \in Call /\ Linked(m, n)
      /\ sess \in [Nodes -> [Nodes -> Session]] /\ call \in [Nodes -> [Nodes -> Call]]
      /\ call[m][n].stage = "idle" /\ call' = call
      /\ row' = row /\ topo' = topo /\ cached' = cached /\ link' = link /\ collects' = collects
  BY Parts DEF RowsIInv, SendNothing, TypeOK
<1>1. a \in [Kinds -> Version] /\ \A k \in Kinds : a[k] = IF k \in E THEN -1 ELSE sess[m][n].ack[k]
  BY <1>0 DEF Session, Version, None
<1>2. sess' = [sess EXCEPT ![m][n] = s]
  BY <1>0, Zenon DEF SendNothing
<1> HIDE DEF a
<1>3. s \in Session /\ s.ack = a /\ s.fresh = sess[m][n].fresh /\ s.pend = Pending(m, n)
  <2>1. Pending(m, n) \in [Kinds -> Version]
    BY PendingFacts
  <2> HIDE DEF Pending
  <2> QED BY <1>0, <1>1, <2>1, Zenon DEF Session
<1> HIDE DEF s
<1>4. /\ sess' \in [Nodes -> [Nodes -> Session]]
      /\ \A i, j \in Nodes : sess'[i][j] = IF i = m /\ j = n THEN s ELSE sess[i][j]
  BY <1>0, <1>2, <1>3
<1>5. \A i, j \in Nodes : call'[i][j] = IF i = m /\ j = n THEN call[m][n] ELSE call[i][j]
  BY <1>0
<1>6. events' \in 0 .. MaxEvents
  BY <1>0, BoundsAssumption DEF SendNothing, TypeOK
<1>7. ASSUME NEW k \in Kinds PROVE PairInv(m, n, k)' /\ SkipInv(m, n, k)'
  <2>1. PairInv(m, n, k) /\ SkipInv(m, n, k)
    BY DEF RowsIInv
  <2>2. /\ row[m][k] \in Int /\ row[n][k] \in Int /\ row[Origin][k] \in Int
        /\ row[m][k] >= -1 /\ row[n][k] >= -1 /\ row[Origin][k] >= -1
        /\ sess[m][n].ack[k] \in Int /\ sess[m][n].pend[k] \in Int /\ Pending(m, n)[k] \in Int
    BY <1>0, Numbers, PendingFacts DEF Version, None
  <2>3. sess'[m][n] = s /\ call'[m][n] = call[m][n] /\ row' = row /\ collects' = collects
    BY <1>0, <1>4
  <2>4. PairInv(m, n, k)'
    BY <1>1, <1>3, <2>1, <2>2, <2>3 DEF PairInv
  <2>5. ASSUME ~UseBitmap, n # Origin, collects[n] = 0, row[m][k] >= 1, Pending(m, n)[k] < row[m][k],
               ~sess[m][n].fresh[k]
        PROVE  row[n][k] >= row[m][k]
    <3>1. CASE sess[m][n].ack[k] >= row[m][k]
      BY <2>1, <2>2, <2>5, <3>1 DEF PairInv
    <3>2. CASE sess[m][n].pend[k] < row[m][k]
      BY <2>1, <2>5, <3>2 DEF SkipInv
    <3> QED BY <2>5, <3>1, <3>2, PendingFacts
  <2>6. SkipInv(m, n, k)'
    BY <1>0, <1>3, <2>3, <2>5 DEF SkipInv
  <2> QED BY <2>4, <2>6
<1>8. call' \in [Nodes -> [Nodes -> Call]]
  BY <1>0
<1> QED BY <1>0, <1>3, <1>4, <1>5, <1>6, <1>7, <1>8, OnePair, Zenon

\* The response: what was sent is acknowledged and the cursor moves to the request's time.
LEMMA SyncOkKeeps ==
  ASSUME RowsIInv, NEW m \in Nodes, NEW n \in Nodes, SyncOk(m, n)
  PROVE  RowsIInv'
<1> DEFINE c == call[m][n]
           asked == {k \in c.req : n # Origin /\ row[m][k] >= 1}
           a == [k \in Kinds |-> IF k \in asked THEN None ELSE Acked(n, sess[m][n], c.ver)[k]]
           p == [k \in Kinds |-> IF k \in asked THEN row[m][k] ELSE sess[m][n].pend[k]]
           s == [sess[m][n] EXCEPT !.ack = a, !.pend = p, !.fresh = c.newer]
<1>0. /\ TypeOK /\ sess[m][n] \in Session /\ c \in Call
      /\ sess \in [Nodes -> [Nodes -> Session]] /\ call \in [Nodes -> [Nodes -> Call]]
      /\ c.stage = "answered" /\ row[m] \in [Kinds -> Version]
      /\ row' = row /\ topo' = topo /\ cached' = cached /\ link' = link /\ collects' = collects /\ events' = events
  BY Parts DEF RowsIInv, SyncOk, TypeOK
<1>1. Linked(m, n)
  BY <1>0, FixedParts DEF TypeOK
<1>2. /\ a \in [Kinds -> Version]
      /\ \A k \in Kinds : a[k] \in {-1, sess[m][n].ack[k], c.ver[k]} /\ (n = Origin => a[k] \in {-1, sess[m][n].ack[k]})
  BY <1>0 DEF Acked, Larger, Session, Call, Version, None
<1>3. /\ p \in [Kinds -> Version]
      /\ \A k \in Kinds : p[k] \in {sess[m][n].pend[k], row[m][k]}
  BY <1>0 DEF Session
<1>4. sess' = [sess EXCEPT ![m][n] = s] /\ call' = [call EXCEPT ![m][n] = NoCall]
  BY DEF SyncOk
<1> HIDE DEF a, p
<1>5. s \in Session /\ s.ack = a /\ s.pend = p /\ s.fresh = c.newer
  BY <1>0, <1>2, <1>3, Zenon DEF Session, Call
<1> HIDE DEF s
<1>6. /\ sess' \in [Nodes -> [Nodes -> Session]]
      /\ \A i, j \in Nodes : sess'[i][j] = IF i = m /\ j = n THEN s ELSE sess[i][j]
  BY <1>0, <1>4, <1>5
<1>7. /\ call' \in [Nodes -> [Nodes -> Call]]
      /\ \A i, j \in Nodes : call'[i][j] = IF i = m /\ j = n THEN NoCall ELSE call[i][j]
  BY <1>0, <1>4, FixedParts
<1>8. ASSUME NEW k \in Kinds PROVE PairInv(m, n, k)' /\ SkipInv(m, n, k)'
  <2>1. PairInv(m, n, k) /\ SkipInv(m, n, k)
    BY DEF RowsIInv
  <2>2. sess'[m][n] = s /\ call'[m][n] = NoCall /\ row' = row /\ collects' = collects
    BY <1>0, <1>6, <1>7
  <2>3. NoCall.ver[k] = -1 /\ NoCall.stage = "idle"
    BY FixedParts DEF None
  <2>4. PairInv(m, n, k)'
    BY <1>0, <1>2, <1>5, <2>1, <2>2, <2>3, Numbers, Zenon DEF PairInv
  <2>5. SkipInv(m, n, k)'
    <3> SUFFICES ASSUME ~UseBitmap, n # Origin, collects[n] = 0, row[m][k] >= 1, p[k] < row[m][k],
                        ~c.newer[k]
                 PROVE  row[n][k] >= row[m][k]
      BY <1>0, <1>5, <2>2, <2>3 DEF SkipInv
    <3>1. p[k] = sess[m][n].pend[k]
      BY <1>0, <1>3, Numbers
    <3> QED BY <1>0, <2>1, <3>1 DEF SkipInv
  <2> QED BY <2>4, <2>5
<1>9. events' \in 0 .. MaxEvents /\ NoCall \in Call
  BY <1>0, FixedParts DEF TypeOK
<1> QED BY <1>0, <1>1, <1>5, <1>6, <1>7, <1>8, <1>9, OnePair, Zenon

\* The RPC fails: nothing is acknowledged and the cursor stays.
LEMMA SyncErrKeeps ==
  ASSUME RowsIInv, NEW m \in Nodes, NEW n \in Nodes, SyncErr(m, n)
  PROVE  RowsIInv'
<1> DEFINE s == [sess[m][n] EXCEPT !.retry = TRUE]
<1>0. /\ TypeOK /\ sess[m][n] \in Session
      /\ sess \in [Nodes -> [Nodes -> Session]] /\ call \in [Nodes -> [Nodes -> Call]]
      /\ row' = row /\ topo' = topo /\ cached' = cached /\ link' = link /\ collects' = collects
  BY Parts DEF RowsIInv, SyncErr, TypeOK
<1>1. Linked(m, n)
  BY <1>0, FixedParts DEF TypeOK, SyncErr
<1>2. sess' = [sess EXCEPT ![m][n] = s] /\ call' = [call EXCEPT ![m][n] = NoCall]
  BY <1>0 DEF SyncErr
<1>3. TRUE \in BOOLEAN
  OBVIOUS
<1>4. s \in Session /\ s.ack = sess[m][n].ack /\ s.pend = sess[m][n].pend /\ s.fresh = sess[m][n].fresh
  BY <1>0, <1>3, Zenon DEF Session
<1> HIDE DEF s
<1>5. /\ sess' \in [Nodes -> [Nodes -> Session]]
      /\ \A i, j \in Nodes : sess'[i][j] = IF i = m /\ j = n THEN s ELSE sess[i][j]
  BY <1>0, <1>2, <1>4
<1>6. /\ call' \in [Nodes -> [Nodes -> Call]]
      /\ \A i, j \in Nodes : call'[i][j] = IF i = m /\ j = n THEN NoCall ELSE call[i][j]
  BY <1>0, <1>2, FixedParts
<1>7. ASSUME NEW k \in Kinds PROVE PairInv(m, n, k)' /\ SkipInv(m, n, k)'
  <2>1. PairInv(m, n, k) /\ SkipInv(m, n, k)
    BY DEF RowsIInv
  <2>2. sess'[m][n] = s /\ call'[m][n] = NoCall
    BY <1>5, <1>6
  <2>3. NoCall.ver[k] = -1 /\ NoCall.stage = "idle"
    BY FixedParts DEF None
  <2>4. PairInv(m, n, k)'
    BY <1>0, <1>4, <2>1, <2>2, <2>3, Numbers DEF PairInv
  <2>5. SkipInv(m, n, k)'
    BY <1>0, <1>4, <2>1, <2>2, <2>3 DEF SkipInv
  <2> QED BY <2>4, <2>5
<1>8. events' \in 0 .. MaxEvents /\ NoCall \in Call
  BY <1>0, FixedParts, BoundsAssumption DEF TypeOK, SyncErr
<1> QED BY <1>0, <1>1, <1>4, <1>5, <1>6, <1>7, <1>8, OnePair, Zenon

-----------------------------------------------------------------------------

(* The receiver *)

\* The pairs after a request was handled at n: rows only grew, and beside the marks only
\* the acknowledgement of the receiver and the stage of the request have changed.
LEMMA HandledPair ==
  ASSUME TypeOK, row' \in [Nodes -> [Kinds -> Version]], collects' = collects,
         NEW m \in Nodes, NEW n \in Nodes, NEW i \in Nodes, NEW j \in Nodes, NEW k \in Kinds,
         PairInv(i, j, k), SkipInv(i, j, k), PairInv(m, n, k), Grown(i, j, k), row'[m][k] >= row[m][k],
         call[m][n].ver[k] <= row'[n][k], call[m][n].stage = "sent",
         sess'[i][j].pend[k] = sess[i][j].pend[k], call'[i][j].ver[k] = call[i][j].ver[k],
         sess[i][j].fresh[k] => sess'[i][j].fresh[k],
         call[i][j].stage # "idle" /\ call[i][j].newer[k] => call'[i][j].newer[k],
         \/ sess'[i][j].ack[k] = sess[i][j].ack[k]
         \/ i = n /\ j = m /\ sess'[i][j].ack[k] = call[m][n].ver[k],
         \/ call'[i][j].stage = call[i][j].stage
         \/ i = m /\ j = n /\ call'[i][j].stage = "answered"
  PROVE  PairInv(i, j, k)' /\ SkipInv(i, j, k)'
<1>1. /\ row[i][k] \in Int /\ row[j][k] \in Int /\ row[Origin][k] \in Int /\ row[m][k] \in Int
      /\ row'[i][k] \in Int /\ row'[j][k] \in Int /\ row'[Origin][k] \in Int
      /\ sess[i][j].ack[k] \in Int /\ sess[i][j].pend[k] \in Int /\ call[i][j].ver[k] \in Int
      /\ call[m][n].ver[k] \in Int
  BY Numbers, TreeAssumption DEF Version, None
<1>2. PairInv(i, j, k)'
  BY <1>1 DEF PairInv, Grown
<1>3. ASSUME ~UseBitmap, j # Origin, collects[j] = 0, row'[i][k] >= 1, sess[i][j].pend[k] < row'[i][k]
      PROVE  /\ ~sess'[i][j].fresh[k] => row'[j][k] >= row'[i][k]
             /\ call'[i][j].stage # "idle" /\ ~call'[i][j].newer[k] =>
                  row'[j][k] >= row'[i][k] \/ (call'[i][j].stage = "sent" /\ call[i][j].ver[k] = row'[i][k])
  <2>1. CASE row'[i][k] # row[i][k]
    BY <2>1 DEF Grown
  <2>2. CASE row'[i][k] = row[i][k]
    <3>1. ~sess'[i][j].fresh[k] => row'[j][k] >= row'[i][k]
      BY <1>1, <1>3, <2>2 DEF SkipInv, Grown
    <3>2. CASE call'[i][j].stage = call[i][j].stage
      BY <1>1, <1>3, <2>2, <3>1, <3>2 DEF SkipInv, Grown
    <3>3. CASE i = m /\ j = n /\ call'[i][j].stage = "answered"
      BY <1>1, <1>3, <2>2, <3>1, <3>3 DEF SkipInv, Grown
    <3> QED BY <3>1, <3>2, <3>3
  <2> QED BY <2>1, <2>2
<1>4. SkipInv(i, j, k)'
  BY <1>3 DEF SkipInv
<1> QED BY <1>2, <1>4, ZenonT(30)

\* do_sync_route_info: the rows are merged and marked, what came is acknowledged as known to
\* the sender, and the bitmap is rebuilt.
LEMMA HandleKeeps ==
  ASSUME RowsIInv, NEW m \in Nodes, NEW n \in Nodes, HandleSync(m, n)
  PROVE  RowsIInv'
<1> DEFINE c == call[m][n]
           r == Merge(row[n], c)
           F == {k \in Kinds : r[k] # row[n][k]}
           t == IF c.refs /\ n # Origin /\ Parent[n] = m THEN c.topo ELSE topo[n]
           req == Missing(n, sess[n][m], c, r)
           a == Acked(m, sess[n][m], c.ver)
           u == [sess[n][m] EXCEPT !.ack = a, !.missing = req # {}]
           ss == [sess[n] EXCEPT ![m] = u]
           cs == MarkNewer(call[n], F)
           d == [c EXCEPT !.stage = "answered", !.req = req]
<1>0. /\ TypeOK /\ Origin \in Nodes /\ sess[n] \in [Nodes -> Session] /\ call[n] \in [Nodes -> Call]
      /\ sess[n][m] \in Session /\ c \in Call /\ c.stage = "sent"
      /\ sess \in [Nodes -> [Nodes -> Session]] /\ call \in [Nodes -> [Nodes -> Call]]
      /\ row \in [Nodes -> [Kinds -> Version]] /\ cached \in [Nodes -> Version] /\ topo \in [Nodes -> BOOLEAN]
      /\ link' = link /\ events' = events /\ collects' = collects
  BY Parts, TreeAssumption DEF RowsIInv, HandleSync, TypeOK
<1>1. /\ row' = [row EXCEPT ![n] = r] /\ topo' = [topo EXCEPT ![n] = t]
      /\ cached' = [cached EXCEPT ![n] =
                IF c.conn # "none" \/ c.ver["info"] # None THEN InBitmap(n, r, t) ELSE @]
      /\ sess' = [sess EXCEPT ![n] = MarkFresh(ss, F)]
      /\ call' = [call EXCEPT ![n] = cs, ![m][n] = d]
  BY <1>0 DEF HandleSync
<1>2. /\ r \in [Kinds -> Version]
      /\ \A k \in Kinds : /\ r[k] >= row[n][k] /\ r[k] >= c.ver[k] /\ r[k] <= row[Origin][k]
                          /\ n = Origin => r[k] = row[n][k]
                          /\ c.refs /\ c.topo => r[k] >= 0
  BY MergeFacts
<1> HIDE DEF r
<1>3. F \in SUBSET Kinds /\ \A k \in Kinds : k \in F <=> r[k] # row[n][k]
  OBVIOUS
<1>4. a \in [Kinds -> Version] /\ \A k \in Kinds : a[k] \in {sess[n][m].ack[k], c.ver[k]}
  BY <1>0 DEF Acked, Larger, Session, Call, Version, None
<1>5. t \in BOOLEAN
  BY <1>0 DEF Call
<1>6. req \in SUBSET Kinds
  BY Zenon DEF Missing
<1> HIDE DEF F, a, t, req
<1>7. u \in Session /\ u.ack = a /\ u.pend = sess[n][m].pend /\ u.fresh = sess[n][m].fresh
  <2>1. (req # {}) \in BOOLEAN
    OBVIOUS
  <2> QED BY <1>0, <1>4, <2>1, Zenon DEF Session
<1> HIDE DEF u
<1>8. ss \in [Nodes -> Session] /\ \A j \in Nodes : ss[j] = IF j = m THEN u ELSE sess[n][j]
  BY <1>0, <1>7
<1> HIDE DEF ss
<1>9. /\ sess' \in [Nodes -> [Nodes -> Session]]
      /\ \A i, j \in Nodes :
           /\ i # n => sess'[i][j] = sess[i][j]
           /\ i = n => /\ sess'[i][j].ack = ss[j].ack /\ sess'[i][j].pend = ss[j].pend
                       /\ \A k \in Kinds : sess'[i][j].fresh[k] <=> ss[j].fresh[k] \/ k \in F
                       /\ ss[j] = NewSession => sess'[i][j] = NewSession
  <2> DEFINE w == MarkFresh(ss, F)
  <2>1. /\ w \in [Nodes -> Session]
        /\ \A j \in Nodes : /\ w[j].ack = ss[j].ack /\ w[j].pend = ss[j].pend
                            /\ \A k \in Kinds : w[j].fresh[k] <=> ss[j].fresh[k] \/ k \in F
                            /\ ss[j] = NewSession => w[j] = NewSession
    BY <1>3, <1>8, FreshFacts
  <2>2. sess' = [sess EXCEPT ![n] = w]
    BY <1>1
  <2> HIDE DEF w
  <2>3. sess' \in [Nodes -> [Nodes -> Session]] /\ \A i \in Nodes : sess'[i] = IF i = n THEN w ELSE sess[i]
    BY <1>0, <2>1, <2>2
  <2> QED BY <2>1, <2>3
<1>10. /\ cs \in [Nodes -> Call]
       /\ \A j \in Nodes :
            /\ cs[j].ver = call[n][j].ver /\ cs[j].stage = call[n][j].stage
            /\ call[n][j].stage # "idle" =>
                   \A k \in Kinds : cs[j].newer[k] <=> call[n][j].newer[k] \/ k \in F
            /\ call[n][j].stage = "idle" => cs[j] = call[n][j]
  BY <1>0, <1>3, NewerFacts, Zenon
<1> HIDE DEF cs
<1>11. Linked(m, n) /\ Linked(n, m) /\ m # n
  BY <1>0, FixedParts, TreeAssumption DEF TypeOK, Linked
<1>12. d \in Call /\ d.ver = c.ver /\ d.stage = "answered" /\ d.newer = c.newer
  <2> HIDE DEF c
  <2> QED BY <1>0, <1>6, Zenon DEF Call
<1>13. /\ call' \in [Nodes -> [Nodes -> Call]]
       /\ \A i, j \in Nodes : call'[i][j] = IF i = m /\ j = n THEN d ELSE IF i = n THEN cs[j] ELSE call[i][j]
  <2>1. call' = [call EXCEPT ![n] = cs, ![m][n] = d]
    BY <1>1
  <2> HIDE DEF d
  <2> QED BY <1>0, <1>10, <1>11, <1>12, <2>1, Zenon
<1> HIDE DEF d
<1>14. /\ row' \in [Nodes -> [Kinds -> Version]]
       /\ \A i \in Nodes, k \in Kinds : row'[i][k] = IF i = n THEN r[k] ELSE row[i][k]
       /\ topo' \in [Nodes -> BOOLEAN] /\ \A i \in Nodes : topo'[i] = IF i = n THEN t ELSE topo[i]
  BY <1>0, <1>1, <1>2, <1>5
<1>15. ASSUME NEW i \in Nodes, NEW k \in Kinds
       PROVE  row'[i][k] >= row[i][k] /\ row'[Origin][k] = row[Origin][k] /\ row'[i][k] <= row'[Origin][k]
  <2>1. row[i][k] <= row[Origin][k]
    BY DEF RowsIInv, PairInv
  <2>2. r[k] \in Int
    BY <1>2 DEF Version, None
  <2>3. /\ row'[Origin][k] = row[Origin][k] /\ row[i][k] \in Int /\ row[Origin][k] \in Int
    BY <1>0, <1>2, <1>14, Numbers
  <2> QED BY <1>2, <1>14, <2>1, <2>2, <2>3
<1>16. ASSUME NEW i \in Nodes, NEW j \in Nodes, NEW k \in Kinds
       PROVE  PairInv(i, j, k)' /\ SkipInv(i, j, k)'
  <2>1. /\ sess'[i][j].pend[k] = sess[i][j].pend[k]
        /\ \/ sess'[i][j].ack[k] = sess[i][j].ack[k]
           \/ i = n /\ j = m /\ sess'[i][j].ack[k] = call[m][n].ver[k]
        /\ sess[i][j].fresh[k] => sess'[i][j].fresh[k]
        /\ i = n /\ k \in F => sess'[i][j].fresh[k]
    BY <1>4, <1>7, <1>8, <1>9
  <2>2. /\ call'[i][j].ver[k] = call[i][j].ver[k]
        /\ \/ call'[i][j].stage = call[i][j].stage
           \/ i = m /\ j = n /\ call'[i][j].stage = "answered"
        /\ call[i][j].stage # "idle" /\ call[i][j].newer[k] => call'[i][j].newer[k]
        /\ i = n /\ k \in F /\ call'[i][j].stage # "idle" => call'[i][j].newer[k]
    <3>1. CASE i = m /\ j = n
      BY <1>0, <1>11, <1>12, <1>13, <3>1, Zenon
    <3>2. CASE ~(i = m /\ j = n)
      BY <1>10, <1>13, <3>2
    <3> QED BY <3>1, <3>2
  <2>3. row'[i][k] # row[i][k] => i = n /\ k \in F
    BY <1>3, <1>14, ZenonT(30)
  <2>4. Grown(i, j, k)
    BY <1>15, <2>1, <2>2, <2>3, <1>0, Numbers DEF Grown
  <2>5. call[m][n].ver[k] <= row'[n][k] /\ row'[m][k] >= row[m][k]
    BY <1>0, <1>2, <1>14, <1>15, Numbers DEF Version, None
  <2>6. PairInv(i, j, k) /\ SkipInv(i, j, k) /\ PairInv(m, n, k)
    BY DEF RowsIInv
  <2> QED BY <1>0, <1>14, <2>1, <2>2, <2>4, <2>5, <2>6, HandledPair, Zenon
<1>17. /\ cached' \in [Nodes -> Version]
       /\ \A i \in Nodes : cached'[i] = cached[i] \/ (i = n /\ cached'[i] = InBitmap(n, r, t))
  <2>1. InBitmap(n, r, t) \in Version
    BY <1>2, ZenonT(30) DEF InBitmap, Version, None, Kinds
  <2> DEFINE x == IF c.conn # "none" \/ c.ver["info"] # None THEN InBitmap(n, r, t) ELSE cached[n]
  <2>2. x \in Version /\ x \in {InBitmap(n, r, t), cached[n]} /\ cached' = [cached EXCEPT ![n] = x]
    BY <1>0, <1>1, <2>1
  <2> HIDE DEF x
  <2> QED BY <1>0, <2>2
<1>18. TypeOK'
  <2>1. ASSUME NEW i \in Nodes, NEW j \in Nodes, sess[i][j] = NewSession, call[i][j] = NoCall, ~Linked(i, j)
        PROVE  sess'[i][j] = NewSession /\ call'[i][j] = NoCall
    <3>1. ~(i = m /\ j = n) /\ ~(i = n /\ j = m)
      BY <1>11, <2>1
    <3> QED BY <1>8, <1>9, <1>10, <1>13, <2>1, <3>1, FixedParts
  <2>2. events' \in 0 .. MaxEvents /\ collects' \in [Nodes -> 0 .. MaxCollects]
    BY <1>0 DEF TypeOK
  <2> QED BY <1>0, <1>9, <1>13, <1>14, <1>17, <2>1, <2>2, TypesStay
<1>19. ASSUME NEW i \in Nodes PROVE NodeInv(i)'
  <2>1. /\ NodeInv(i) /\ "conn" \in Kinds /\ row[Origin]["conn"] >= 1 /\ cached[i] \in Int
        /\ row'[Origin]["conn"] = row[Origin]["conn"] /\ row[Origin]["conn"] \in Int
        /\ \A k \in Kinds : row'[i][k] >= row[i][k] /\ row[i][k] \in Int /\ row'[i][k] \in Int
        /\ row'[i]["conn"] <= row[Origin]["conn"]
    BY <1>0, <1>14, <1>15, Parts DEF RowsIInv, Kinds, Version, None
  <2>2. ASSUME NEW k \in Kinds, topo'[i], collects[i] = 0 PROVE row'[i][k] >= 0
    <3>1. CASE topo[i]
      BY <2>1, <2>2, <3>1 DEF NodeInv
    <3>2. CASE ~topo[i]
      BY <1>2, <1>14, <2>2, <3>2 DEF t
    <3> QED BY <3>1, <3>2
  <2>3. CASE cached'[i] = cached[i]
    BY <1>0, <2>1, <2>2, <2>3 DEF NodeInv
  <2>4. CASE i = n /\ cached'[i] = InBitmap(n, r, t)
    <3>1. \/ cached'[i] = row'[i]["conn"]
          \/ cached'[i] = 0 /\ topo'[i]
          \/ cached'[i] = -1
      BY <1>14, <2>1, <2>4 DEF InBitmap, None
    <3>2. row'[i]["conn"] >= -1
      BY <1>14, <2>1 DEF Version, None
    <3> QED BY <1>0, <2>1, <2>2, <3>1, <3>2 DEF NodeInv
  <2> QED BY <1>17, <2>3, <2>4
<1> QED BY <1>0, <1>15, <1>16, <1>18, <1>19 DEF RowsIInv

-----------------------------------------------------------------------------
(* Links *)

\* The rows, sessions and calls after update_my_conn_info at both ends of a link: a neighbour
\* may get a placeholder and Origin a newer row, and every row that changed is marked.
LinkShape(x, up, ss, cc) ==
  /\ row' \in [Nodes -> [Kinds -> Version]]
  /\ sess' \in [Nodes -> [Nodes -> Session]] /\ call' \in [Nodes -> [Nodes -> Call]]
  /\ \A i \in Nodes, k \in Kinds :
       \/ row'[i][k] = row[i][k]
       \/ i = x /\ row'[i][k] = 0 /\ row[i][k] = -1
       \/ i = Origin /\ row'[i][k] = row[i][k] + 1
  /\ up /\ NextToOrigin(x) => \A k \in Kinds : row'[x][k] >= 0
  /\ \A i, j \in Nodes :
       /\ sess'[i][j].ack = ss[i][j].ack /\ sess'[i][j].pend = ss[i][j].pend
       /\ \A k \in Kinds : ss[i][j].fresh[k] \/ row'[i][k] # row[i][k] => sess'[i][j].fresh[k]
       /\ ss[i][j] = NewSession => sess'[i][j] = NewSession
       /\ call'[i][j].ver = cc[i][j].ver /\ call'[i][j].stage = cc[i][j].stage
       /\ cc[i][j].stage # "idle" =>
            \A k \in Kinds : cc[i][j].newer[k] \/ row'[i][k] # row[i][k] => call'[i][j].newer[k]
       /\ cc[i][j].stage = "idle" => call'[i][j] = cc[i][j]

\* A session that begins with such a step stays as it begins.
LEMMA NewStaysNew ==
  ASSUME NEW x, NEW up, NEW ss, NEW cc, LinkShape(x, up, ss, cc),
         NEW i \in Nodes, NEW j \in Nodes, ss[i][j] = NewSession, cc[i][j] = NoCall
  PROVE  sess'[i][j] = NewSession /\ call'[i][j] = NoCall
BY FixedParts DEF LinkShape

\* update_my_conn_info does just that.
LEMMA LinkMarks ==
  ASSUME TypeOK, NEW x \in Nodes \ {Origin}, NEW up \in BOOLEAN,
         NEW ss \in [Nodes -> [Nodes -> Session]], NEW cc \in [Nodes -> [Nodes -> Call]],
         LinkChanged(x, up, ss, cc)
  PROVE  LinkShape(x, up, ss, cc)
<1> DEFINE r == IF up THEN [k \in Kinds |-> Larger(row[x][k], 0)] ELSE row[x]
           F == {k \in Kinds : r[k] # row[x][k]}
           C == {"conn"}
<1>0. /\ x \in Nodes /\ x # Origin /\ Origin \in Nodes /\ row[x] \in [Kinds -> Version] /\ row[Origin] \in [Kinds -> Version]
      /\ row \in [Nodes -> [Kinds -> Version]]
  BY TreeAssumption DEF TypeOK
<1>1. CASE ~NextToOrigin(x)
  <2>1. row' = row /\ sess' = ss /\ call' = cc
    BY <1>1, ZenonT(30) DEF LinkChanged
  <2> QED BY <1>0, <1>1, <2>1 DEF LinkShape
<1>2. CASE NextToOrigin(x)
  <2>1. /\ row' = [row EXCEPT ![x] = r, ![Origin]["conn"] = @ + 1]
        /\ sess' = [ss EXCEPT ![x] = MarkFresh(@, F), ![Origin] = MarkFresh(@, C)]
        /\ call' = [cc EXCEPT ![x] = MarkNewer(@, F), ![Origin] = MarkNewer(@, C)]
    BY <1>2, Zenon DEF LinkChanged
  <2>2. /\ r \in [Kinds -> Version]
        /\ \A k \in Kinds : r[k] = row[x][k] \/ (r[k] = 0 /\ row[x][k] = -1)
        /\ up => \A k \in Kinds : r[k] >= 0
    BY <1>0 DEF Larger, Version, None
  <2>3. F \in SUBSET Kinds /\ C \in SUBSET Kinds /\ (\A k \in Kinds : k \in F <=> r[k] # row[x][k])
        /\ (\A k \in Kinds : k \in C <=> k = "conn")
    BY DEF Kinds
  <2> HIDE DEF r, F, C
  <2>4. /\ row' \in [Nodes -> [Kinds -> Version]]
        /\ \A i \in Nodes, k \in Kinds :
             row'[i][k] = IF i = x THEN r[k] ELSE IF i = Origin /\ k = "conn" THEN row[i][k] + 1 ELSE row[i][k]
    <3>1. row[Origin]["conn"] + 1 \in Version
      BY <1>0 DEF Version, None, Kinds
    <3>2. row' = [row EXCEPT ![x] = r, ![Origin] = [row[Origin] EXCEPT !["conn"] = row[Origin]["conn"] + 1]]
      BY <1>0, <2>1, Zenon
    <3> HIDE DEF Version
    <3> QED BY <1>0, <2>2, <3>1, <3>2, Zenon
  <2>5. /\ sess' = [ss EXCEPT ![x] = MarkFresh(ss[x], F), ![Origin] = MarkFresh(ss[Origin], C)]
        /\ call' = [cc EXCEPT ![x] = MarkNewer(cc[x], F), ![Origin] = MarkNewer(cc[Origin], C)]
    BY <1>0, <2>1
  <2>6. F \in SUBSET Kinds /\ C \in SUBSET Kinds
    BY <2>3
  <2>7. ASSUME NEW i \in Nodes, NEW G \in SUBSET Kinds, NEW s, NEW c,
               s = MarkFresh(ss[i], G), c = MarkNewer(cc[i], G)
        PROVE  /\ s \in [Nodes -> Session] /\ c \in [Nodes -> Call]
               /\ \A j \in Nodes :
                    /\ s[j].ack = ss[i][j].ack /\ s[j].pend = ss[i][j].pend
                    /\ \A k \in Kinds : ss[i][j].fresh[k] \/ k \in G => s[j].fresh[k]
                    /\ ss[i][j] = NewSession => s[j] = NewSession
                    /\ c[j].ver = cc[i][j].ver /\ c[j].stage = cc[i][j].stage
                    /\ cc[i][j].stage # "idle" => \A k \in Kinds : cc[i][j].newer[k] \/ k \in G => c[j].newer[k]
                    /\ cc[i][j].stage = "idle" => c[j] = cc[i][j]
    <3> DEFINE z == ss[i]
               y == cc[i]
    <3>1. z \in [Nodes -> Session] /\ y \in [Nodes -> Call]
      OBVIOUS
    <3>2. s = MarkFresh(z, G) /\ c = MarkNewer(y, G)
      BY <2>7
    <3> HIDE DEF z, y
    <3>3. /\ s \in [Nodes -> Session]
          /\ \A j \in Nodes :
               /\ s[j].ack = z[j].ack /\ s[j].pend = z[j].pend
               /\ \A k \in Kinds : s[j].fresh[k] <=> z[j].fresh[k] \/ k \in G
               /\ z[j] = NewSession => s[j] = NewSession
      BY <3>1, <3>2, FreshFacts
    <3>4. /\ c \in [Nodes -> Call]
          /\ \A j \in Nodes :
               /\ c[j].ver = y[j].ver /\ c[j].stage = y[j].stage
               /\ y[j].stage # "idle" => \A k \in Kinds : c[j].newer[k] <=> y[j].newer[k] \/ k \in G
               /\ y[j].stage = "idle" => c[j] = y[j]
      BY <3>1, <3>2, NewerFacts
    <3> QED BY <3>3, <3>4 DEF z, y
  <2>8. /\ MarkFresh(ss[x], F) \in [Nodes -> Session] /\ MarkFresh(ss[Origin], C) \in [Nodes -> Session]
        /\ MarkNewer(cc[x], F) \in [Nodes -> Call] /\ MarkNewer(cc[Origin], C) \in [Nodes -> Call]
    BY <1>0, <2>6, <2>7
  <2>9. /\ sess' \in [Nodes -> [Nodes -> Session]] /\ call' \in [Nodes -> [Nodes -> Call]]
        /\ \A i \in Nodes : /\ sess'[i] = IF i = x THEN MarkFresh(ss[x], F)
                                          ELSE IF i = Origin THEN MarkFresh(ss[Origin], C) ELSE ss[i]
                            /\ call'[i] = IF i = x THEN MarkNewer(cc[x], F)
                                          ELSE IF i = Origin THEN MarkNewer(cc[Origin], C) ELSE cc[i]
    BY <1>0, <2>5, <2>8, ZenonT(30)
  <2>10. ASSUME NEW i \in Nodes, NEW j \in Nodes
         PROVE  /\ sess'[i][j].ack = ss[i][j].ack /\ sess'[i][j].pend = ss[i][j].pend
                /\ \A k \in Kinds : ss[i][j].fresh[k] \/ row'[i][k] # row[i][k] => sess'[i][j].fresh[k]
                /\ ss[i][j] = NewSession => sess'[i][j] = NewSession
                /\ call'[i][j].ver = cc[i][j].ver /\ call'[i][j].stage = cc[i][j].stage
                /\ cc[i][j].stage # "idle" =>
                     \A k \in Kinds : cc[i][j].newer[k] \/ row'[i][k] # row[i][k] => call'[i][j].newer[k]
                /\ cc[i][j].stage = "idle" => call'[i][j] = cc[i][j]
    <3>1. CASE i = x
      <4>1. sess'[i] = MarkFresh(ss[i], F) /\ call'[i] = MarkNewer(cc[i], F)
        BY <2>9, <3>1
      <4>2. \A k \in Kinds : row'[i][k] # row[i][k] => k \in F
        BY <2>3, <2>4, <3>1, ZenonT(30)
      <4> QED BY <2>6, <2>7, <4>1, <4>2
    <3>2. CASE i = Origin
      <4>1. sess'[i] = MarkFresh(ss[i], C) /\ call'[i] = MarkNewer(cc[i], C)
        BY <1>0, <2>9, <3>2
      <4>2. \A k \in Kinds : row'[i][k] # row[i][k] => k \in C
        BY <1>0, <2>3, <2>4, <3>2, ZenonT(30)
      <4> QED BY <2>6, <2>7, <4>1, <4>2
    <3>3. CASE i # x /\ i # Origin
      BY <2>4, <2>9, <3>3
    <3> QED BY <3>1, <3>2, <3>3, ZenonT(30)
  <2>11. /\ \A i \in Nodes, k \in Kinds :
              \/ row'[i][k] = row[i][k]
              \/ i = x /\ row'[i][k] = 0 /\ row[i][k] = -1
              \/ i = Origin /\ row'[i][k] = row[i][k] + 1
         /\ up => \A k \in Kinds : row'[x][k] >= 0
    BY <1>0, <2>2, <2>4
  <2> QED BY <1>2, <2>4, <2>9, <2>10, <2>11, ZenonT(30) DEF LinkShape
<1> QED BY <1>1, <1>2

\* The rows that such a step changes grow, and none gets newer than Origin's.
LinkGrows ==
  \A i \in Nodes, k \in Kinds :
    /\ row'[i][k] >= row[i][k] /\ row'[Origin][k] >= row[Origin][k] /\ row'[i][k] <= row'[Origin][k]
    /\ row[i][k] \in Int /\ row'[i][k] \in Int /\ row[Origin][k] \in Int /\ row'[Origin][k] \in Int
    /\ row'[Origin][k] >= 1 /\ row'[i][k] >= -1

\* A change of a link lowers no row, and leaves none newer than Origin's.
LEMMA LinkRaises ==
  ASSUME RowsIInv, NEW x \in Nodes \ {Origin}, NEW up, NEW ss, NEW cc, LinkShape(x, up, ss, cc)
  PROVE  LinkGrows
<1> SUFFICES ASSUME NEW i \in Nodes, NEW k \in Kinds
             PROVE  /\ row'[i][k] >= row[i][k] /\ row'[Origin][k] >= row[Origin][k] /\ row'[i][k] <= row'[Origin][k]
                    /\ row[i][k] \in Int /\ row'[i][k] \in Int /\ row[Origin][k] \in Int /\ row'[Origin][k] \in Int
                    /\ row'[Origin][k] >= 1 /\ row'[i][k] >= -1
  BY DEF LinkGrows
<1>1. TypeOK /\ Origin \in Nodes /\ x # Origin
  BY TreeAssumption DEF RowsIInv
<1>2. row[i][k] <= row[Origin][k] /\ row[Origin][k] >= 1
  BY DEF RowsIInv, PairInv
<1>3. row[i][k] \in Int /\ row[Origin][k] \in Int /\ row[i][k] >= -1
  BY <1>1, Numbers
<1>4. \A n \in Nodes : \/ row'[n][k] = row[n][k]
                       \/ n = x /\ row'[n][k] = 0 /\ row[n][k] = -1
                       \/ n = Origin /\ row'[n][k] = row[n][k] + 1
  BY DEF LinkShape
<1>5. row'[Origin][k] \in {row[Origin][k], row[Origin][k] + 1}
  BY <1>1, <1>4
<1> QED BY <1>2, <1>3, <1>4, <1>5

\* Every session and every call stays or begins anew, and those without a link are new.
Renewed(ss, cc) ==
  /\ \A i, j \in Nodes : \/ ss[i][j] = sess[i][j] /\ cc[i][j] = call[i][j]
                         \/ ss[i][j] = NewSession /\ cc[i][j] = NoCall
  /\ \A i, j \in Nodes : ~Linked(i, j)' => ss[i][j] = NewSession /\ cc[i][j] = NoCall

\* Sessions that are kept, or started anew, agree with rows that have only grown.
LEMMA RenewedPair ==
  ASSUME RowsIInv, collects' = collects, NEW x, NEW up, NEW ss, NEW cc,
         LinkShape(x, up, ss, cc), LinkGrows, Renewed(ss, cc),
         NEW i \in Nodes, NEW j \in Nodes, NEW k \in Kinds
  PROVE  PairInv(i, j, k)' /\ SkipInv(i, j, k)'
<1>1. CASE ss[i][j] = NewSession /\ cc[i][j] = NoCall
  <2>1. sess'[i][j] = NewSession /\ call'[i][j] = NoCall
    BY <1>1, NewStaysNew, ZenonT(30)
  <2>2. row' \in [Nodes -> [Kinds -> Version]] /\ row'[i][k] <= row'[Origin][k]
    BY DEF LinkShape, LinkGrows
  <2> QED BY <2>1, <2>2, NewPair
<1>2. CASE ss[i][j] = sess[i][j] /\ cc[i][j] = call[i][j]
  <2>1. /\ Kept(i, j, k)
        /\ row'[i][k] # row[i][k] =>
             sess'[i][j].fresh[k] /\ (call'[i][j].stage # "idle" => call'[i][j].newer[k])
    <3>1. /\ sess'[i][j].ack = sess[i][j].ack /\ sess'[i][j].pend = sess[i][j].pend
          /\ call'[i][j].ver = call[i][j].ver /\ call'[i][j].stage = call[i][j].stage
      BY <1>2 DEF LinkShape
    <3>2. sess[i][j].fresh[k] \/ row'[i][k] # row[i][k] => sess'[i][j].fresh[k]
      BY <1>2, ZenonT(30) DEF LinkShape
    <3>3. call[i][j].stage # "idle" =>
            (call[i][j].newer[k] \/ row'[i][k] # row[i][k] => call'[i][j].newer[k])
      BY <1>2 DEF LinkShape
    <3> QED BY <3>1, <3>2, <3>3, ZenonT(30) DEF Kept
  <2>2. Grown(i, j, k)
    BY <2>1, ZenonT(30) DEF LinkGrows, Grown
  <2>3. /\ TypeOK /\ PairInv(i, j, k) /\ SkipInv(i, j, k)
        /\ row' \in [Nodes -> [Kinds -> Version]]
    BY DEF RowsIInv, LinkShape
  <2> QED BY <2>1, <2>2, <2>3, KeptPair, ZenonT(30)
<1> QED BY <1>1, <1>2 DEF Renewed

\* What the two ends make of the topology and the bitmap.
LinkTopo(x, t) ==
  /\ link' \in [Nodes \ {Origin} -> BOOLEAN] /\ topo' \in [Nodes -> BOOLEAN] /\ cached' \in [Nodes -> Version]
  /\ \A i \in Nodes : topo'[i] = IF i = x THEN t ELSE topo[i]
  /\ \A i \in Nodes : IF i = x THEN /\ cached'[i] \in {row'[x]["conn"], 0, -1}
                                    /\ cached'[i] = 0 /\ row'[x]["conn"] # 0 => t
                               ELSE cached'[i] = cached[i]
  /\ t => \A k \in Kinds : row'[x][k] >= 0

\* A change of a link leaves topology and bitmap like that: whoever reaches Origin has its rows.
LEMMA LinkRebuilds ==
  ASSUME TypeOK, NEW x \in Nodes \ {Origin}, NEW up \in BOOLEAN, NEW ss, NEW cc,
         LinkChanged(x, up, ss, cc), LinkShape(x, up, ss, cc)
  PROVE  LinkTopo(x, up /\ NextToOrigin(x))
<1> DEFINE t == up /\ NextToOrigin(x)
           b == InBitmap(x, row'[x], t)
<1>0. /\ x \in Nodes /\ t \in BOOLEAN
      /\ topo \in [Nodes -> BOOLEAN] /\ cached \in [Nodes -> Version] /\ link \in [Nodes \ {Origin} -> BOOLEAN]
  BY DEF TypeOK
<1>1. link' = [link EXCEPT ![x] = up] /\ topo' = [topo EXCEPT ![x] = t] /\ cached' = [cached EXCEPT ![x] = b]
  BY DEF LinkChanged
<1>2. t => \A k \in Kinds : row'[x][k] >= 0
  BY ZenonT(30) DEF LinkShape
<1> HIDE DEF t
<1>3. b \in Version /\ b \in {row'[x]["conn"], 0, -1} /\ (b = 0 /\ row'[x]["conn"] # 0 => t)
  BY <1>0 DEF LinkShape, InBitmap, Version, None, Kinds
<1> HIDE DEF b
<1>4. LinkTopo(x, t)
  BY <1>0, <1>1, <1>2, <1>3 DEF LinkTopo
<1> QED BY <1>4 DEF t

\* The bitmap and the topology of each node stay within its rows.
LEMMA RebuiltNode ==
  ASSUME RowsIInv, collects' = collects, LinkGrows, NEW x, NEW t, LinkTopo(x, t), NEW i \in Nodes
  PROVE  NodeInv(i)'
<1>1. NodeInv(i) /\ "conn" \in Kinds /\ TypeOK
  BY DEF RowsIInv, Kinds
<1>2. cached[i] \in Int
  BY <1>1, Parts
<1>3. /\ row'[Origin]["conn"] >= row[Origin]["conn"] /\ row'[i]["conn"] <= row'[Origin]["conn"]
      /\ row[Origin]["conn"] \in Int /\ row'[Origin]["conn"] \in Int /\ row'[Origin]["conn"] >= 1
      /\ row'[i]["conn"] \in Int /\ row'[i]["conn"] >= -1
      /\ \A k \in Kinds : row'[i][k] >= row[i][k] /\ row'[i][k] \in Int /\ row[i][k] \in Int
  BY <1>1 DEF LinkGrows
<1>4. CASE i = x
  <2>1. topo'[i] = t /\ (t => \A k \in Kinds : row'[i][k] >= 0)
    BY <1>4 DEF LinkTopo
  <2>2. cached'[i] \in {row'[i]["conn"], 0, -1} /\ (cached'[i] = 0 /\ row'[i]["conn"] # 0 => t)
    BY <1>4 DEF LinkTopo
  <2> QED BY <1>1, <1>2, <1>3, <2>1, <2>2 DEF NodeInv
<1>5. CASE i # x
  <2>1. topo'[i] = topo[i] /\ cached'[i] = cached[i]
    BY <1>5 DEF LinkTopo
  <2>2. \A k \in Kinds : topo[i] /\ collects[i] = 0 => row'[i][k] >= 0
    BY <1>1, <1>3 DEF NodeInv
  <2> QED BY <1>1, <1>2, <1>3, <2>1, <2>2 DEF NodeInv
<1> QED BY <1>4, <1>5

\* A link that closes or opens, when the sessions between its ends begin anew and all
\* others stay.
LEMMA LinkKeeps ==
  ASSUME RowsIInv, NEW x \in Nodes \ {Origin}, NEW up \in BOOLEAN,
         NEW ss \in [Nodes -> [Nodes -> Session]], NEW cc \in [Nodes -> [Nodes -> Call]],
         LinkChanged(x, up, ss, cc), events' \in 0 .. MaxEvents, Renewed(ss, cc)
  PROVE  RowsIInv'
<1>1. TypeOK /\ Origin \in Nodes /\ collects' = collects /\ collects[Origin] = 0
  BY TreeAssumption DEF RowsIInv, LinkChanged
<1>2. LinkShape(x, up, ss, cc)
  BY <1>1, LinkMarks, Zenon
<1>3. LinkGrows /\ LinkTopo(x, up /\ NextToOrigin(x))
  BY <1>1, <1>2, LinkRaises, LinkRebuilds, Zenon
<1>4. \A i, j \in Nodes, k \in Kinds : PairInv(i, j, k)' /\ SkipInv(i, j, k)'
  BY <1>1, <1>2, <1>3, RenewedPair, Zenon
<1>5. \A i \in Nodes : NodeInv(i)'
  BY <1>1, <1>3, RebuiltNode, Zenon
<1>6. TypeOK'
  <2>1. ASSUME NEW i \in Nodes, NEW j \in Nodes, ~Linked(i, j)'
        PROVE  sess'[i][j] = NewSession /\ call'[i][j] = NoCall
    <3>1. ss[i][j] = NewSession /\ cc[i][j] = NoCall
      BY <2>1 DEF Renewed
    <3> QED BY <1>2, <3>1, NewStaysNew
  <2>2. /\ row' \in [Nodes -> [Kinds -> Version]]
        /\ sess' \in [Nodes -> [Nodes -> Session]] /\ call' \in [Nodes -> [Nodes -> Call]]
    BY <1>2, ZenonT(30) DEF LinkShape
  <2>3. link' \in [Nodes \ {Origin} -> BOOLEAN] /\ topo' \in [Nodes -> BOOLEAN] /\ cached' \in [Nodes -> Version]
    BY <1>3, ZenonT(30) DEF LinkTopo
  <2> QED BY <1>1, <2>1, <2>2, <2>3, ZenonT(30) DEF TypeOK
<1>7. collects'[Origin] = 0 /\ \A k \in Kinds : row'[Origin][k] >= 1
  BY <1>1, <1>3, ZenonT(30) DEF LinkGrows
<1> QED BY <1>4, <1>5, <1>6, <1>7, Zenon DEF RowsIInv

\* The connection closes.
LEMMA LinkDownKeeps ==
  ASSUME RowsIInv, NEW x \in Nodes \ {Origin}, LinkDown(x)
  PROVE  RowsIInv'
<1> DEFINE p == Parent[x]
           ss == [sess EXCEPT ![x][p] = NewSession, ![p][x] = NewSession]
           cc == [call EXCEPT ![x][p] = NoCall, ![p][x] = NoCall]
<1>0. /\ TypeOK /\ x \in Nodes /\ p \in Nodes /\ link \in [Nodes \ {Origin} -> BOOLEAN]
      /\ sess \in [Nodes -> [Nodes -> Session]] /\ call \in [Nodes -> [Nodes -> Call]]
  BY TreeAssumption DEF RowsIInv, TypeOK
<1>1. LinkChanged(x, FALSE, ss, cc) /\ events' \in 0 .. MaxEvents /\ FALSE \in BOOLEAN
  <2>1. LinkChanged(x, FALSE, ss, cc)
    BY Zenon DEF LinkDown
  <2>2. events' \in 0 .. MaxEvents
    BY <1>0, BoundsAssumption DEF LinkDown, TypeOK
  <2> QED BY <2>1, <2>2, Zenon
<1>2. /\ ss \in [Nodes -> [Nodes -> Session]]
      /\ \A i, j \in Nodes : ss[i][j] = IF (i = x /\ j = p) \/ (i = p /\ j = x) THEN NewSession ELSE sess[i][j]
  <2> HIDE DEF p
  <2> QED BY <1>0, FixedParts, Zenon
<1>3. /\ cc \in [Nodes -> [Nodes -> Call]]
      /\ \A i, j \in Nodes : cc[i][j] = IF (i = x /\ j = p) \/ (i = p /\ j = x) THEN NoCall ELSE call[i][j]
  <2> HIDE DEF p
  <2> QED BY <1>0, FixedParts, Zenon
<1> HIDE DEF ss, cc
<1>4. link' = [link EXCEPT ![x] = FALSE]
  BY <1>1 DEF LinkChanged
<1>5. \A i, j \in Nodes : ~Linked(i, j)' => ss[i][j] = NewSession /\ cc[i][j] = NoCall
  <2> SUFFICES ASSUME NEW i \in Nodes, NEW j \in Nodes, ~Linked(i, j)'
               PROVE  ss[i][j] = NewSession /\ cc[i][j] = NoCall
    OBVIOUS
  <2>1. CASE (i = x /\ j = p) \/ (i = p /\ j = x)
    BY <1>2, <1>3, <2>1
  <2>2. CASE ~((i = x /\ j = p) \/ (i = p /\ j = x))
    <3>1. ~Linked(i, j)
      BY <1>0, <1>4, <2>2 DEF Linked
    <3> QED BY <1>0, <1>2, <1>3, <2>2, <3>1 DEF TypeOK
  <2> QED BY <2>1, <2>2
<1>6. \A i, j \in Nodes : \/ ss[i][j] = sess[i][j] /\ cc[i][j] = call[i][j]
                          \/ ss[i][j] = NewSession /\ cc[i][j] = NoCall
  BY <1>2, <1>3
<1>7. Renewed(ss, cc)
  BY <1>5, <1>6 DEF Renewed
<1> QED BY <1>1, <1>2, <1>3, <1>7, LinkKeeps, Zenon

\* The connection opens again.
LEMMA LinkUpKeeps ==
  ASSUME RowsIInv, NEW x \in Nodes \ {Origin}, LinkUp(x)
  PROVE  RowsIInv'
<1>0. /\ TypeOK /\ link \in [Nodes \ {Origin} -> BOOLEAN]
      /\ sess \in [Nodes -> [Nodes -> Session]] /\ call \in [Nodes -> [Nodes -> Call]]
      /\ LinkChanged(x, TRUE, sess, call) /\ events' \in 0 .. MaxEvents
  BY Zenon DEF RowsIInv, TypeOK, LinkUp
<1>1. link' = [link EXCEPT ![x] = TRUE] /\ TRUE \in BOOLEAN
  BY <1>0 DEF LinkChanged
<1>2. \A i, j \in Nodes : ~Linked(i, j)' => ~Linked(i, j)
  BY <1>0, <1>1 DEF Linked
<1>3. \A i, j \in Nodes : ~Linked(i, j)' => sess[i][j] = NewSession /\ call[i][j] = NoCall
  BY <1>0, <1>2 DEF TypeOK
<1>4. Renewed(sess, call)
  BY <1>3 DEF Renewed
<1> QED BY <1>0, <1>1, <1>4, LinkKeeps, Zenon

-----------------------------------------------------------------------------
(* The theorems *)

\* At the start a neighbour of Origin has placeholders and every session is new.
LEMMA RowsInit == Init => RowsIInv
<1> SUFFICES ASSUME Init PROVE RowsIInv
  OBVIOUS
<1>0. /\ Origin \in Nodes /\ \A i, j \in Nodes : sess[i][j] = NewSession /\ call[i][j] = NoCall
  BY TreeAssumption DEF Init
<1>1. \A n \in Nodes, k \in Kinds : /\ row[n][k] \in {-1, 0, 1} /\ row[Origin][k] = 1
                                    /\ topo[n] => row[n][k] >= 0
  <2>1. \A n \in Nodes, k \in Kinds : row[n][k] = IF n = Origin THEN 1 ELSE IF NextToOrigin(n) THEN 0 ELSE -1
    BY DEF Init, None
  <2>2. \A n \in Nodes : topo[n] => n = Origin \/ NextToOrigin(n)
    BY Zenon DEF Init
  <2> QED BY <1>0, <2>1, <2>2
<1>2. TypeOK
  <2>1. /\ row \in [Nodes -> [Kinds -> Version]] /\ cached \in [Nodes -> Version]
    BY DEF Init, Version, None
  <2>2. topo \in [Nodes -> BOOLEAN] /\ link \in [Nodes \ {Origin} -> BOOLEAN]
    BY Zenon DEF Init, NextToOrigin
  <2>3. sess \in [Nodes -> [Nodes -> Session]] /\ call \in [Nodes -> [Nodes -> Call]]
    BY FixedParts DEF Init
  <2>4. events \in 0 .. MaxEvents /\ collects \in [Nodes -> 0 .. MaxCollects]
    BY BoundsAssumption DEF Init
  <2> QED BY <1>0, <2>1, <2>2, <2>3, <2>4 DEF TypeOK
<1>3. \A n \in Nodes : NodeInv(n)
  <2>1. \A n \in Nodes : cached[n] = row[n]["conn"]
    BY Zenon DEF Init, Kinds
  <2>2. "conn" \in Kinds
    BY DEF Kinds
  <2>3. \A n \in Nodes : cached[n] <= row[Origin]["conn"] /\ cached[n] <= row[n]["conn"]
    <3> TAKE n \in Nodes
    <3>1. cached[n] = row[n]["conn"] /\ row[n]["conn"] \in {-1, 0, 1} /\ row[Origin]["conn"] = 1
      BY <1>1, <2>1, <2>2
    <3> QED BY <3>1
  <2> QED BY <1>1, <2>3, Zenon DEF NodeInv
<1>4. ASSUME NEW m \in Nodes, NEW n \in Nodes, NEW k \in Kinds PROVE PairInv(m, n, k) /\ SkipInv(m, n, k)
  <2>1. /\ sess[m][n].ack[k] = -1 /\ sess[m][n].fresh[k] /\ call[m][n].ver[k] = -1 /\ call[m][n].stage = "idle"
    BY <1>0, FixedParts DEF None
  <2> QED BY <1>1, <2>1 DEF PairInv, SkipInv
<1>5. collects[Origin] = 0
  BY <1>0 DEF Init
<1> QED BY <1>1, <1>2, <1>3, <1>4, <1>5, <1>0 DEF RowsIInv

\* Every step keeps the invariant.
LEMMA RowsStep == RowsIInv /\ [Next]_vars => RowsIInv'
<1> SUFFICES ASSUME RowsIInv, [Next]_vars PROVE RowsIInv'
  BY ZenonT(30)
<1>1. CASE UNCHANGED vars
  BY <1>1, StutterKeeps, ZenonT(30)
<1>2. CASE \E k \in Kinds : Publish(k)
  BY <1>2, PublishKeeps
<1>3. CASE RefreshCached
  BY <1>3, RefreshKeeps
<1>4. ASSUME NEW m \in Nodes, NEW n \in Nodes,
             SendSync(m, n) \/ (\E E \in SUBSET Kinds : SendNothing(m, n, E))
               \/ SyncOk(m, n) \/ SyncErr(m, n) \/ HandleSync(m, n)
      PROVE  RowsIInv'
  BY <1>4, SendKeeps, SendNothingKeeps, SyncOkKeeps, SyncErrKeeps, HandleKeeps
<1>5. ASSUME NEW n \in Nodes \ {Origin}, Collect(n) \/ LinkDown(n) \/ LinkUp(n)
      PROVE  RowsIInv'
  BY <1>5, CollectKeeps, LinkDownKeeps, LinkUpKeeps
<1> QED BY <1>1, <1>2, <1>3, <1>4, <1>5, Zenon DEF Next

\* In every reachable state the inductive invariant holds.
LEMMA RowsInvariant == Spec => []RowsIInv
BY RowsInit, RowsStep, PTL DEF Spec

\* An acknowledged version is held by the peer unless the peer collected the row, and no
\* version is held, acknowledged or under way that Origin has not published
\* (update_dst_saved_peer_info_version, update_dst_saved_conn_info_version).
THEOREM RowsAckIsHeld == Spec => []AckIsHeld
<1>1. RowsIInv => AckIsHeld
  BY DEF RowsIInv, AckIsHeld, PairInv
<1> QED BY <1>1, RowsInvariant, PTL

\* Without the bitmap, a row that build_route_info and build_conn_peer_list skip, because
\* the time cursor has passed it and it is not remembered, is held by the peer.
THEOREM RowsSkippedIsHeld == Spec => [](~UseBitmap => SkippedIsHeld)
<1>1. RowsIInv => (~UseBitmap => SkippedIsHeld)
  BY DEF RowsIInv, SkippedIsHeld, SkipInv
<1> QED BY <1>1, RowsInvariant, PTL

\* Merging, publishing and link changes only ever raise the version of a row; only
\* clear_expired_peer takes rows away, both of them, from a peer that is unreachable.
THEOREM RowsOnlyEverGrow == Spec => RowsOnlyGrow
<1>1. RowsIInv /\ [Next]_vars =>
        [\A n \in Nodes :
           \/ \A k \in Kinds : row'[n][k] >= row[n][k]
           \/ ~Reachable(n, row[n], topo[n]) /\ \A k \in Kinds : row'[n][k] = None]_vars
  BY RowsGrowStep DEF RowsOf
<1> QED BY <1>1, RowsInvariant, PTL DEF Spec, RowsOnlyGrow
=============================================================================
