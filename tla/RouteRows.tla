------------------------------ MODULE RouteRows ------------------------------
(***************************************************************************)
(* How the two rows that one node, Origin, publishes about itself (its     *)
(* RoutePeerInfo and its RouteConnInfo) spread over the route sessions of  *)
(* a mesh, and what the cursor, the acknowledged versions, the remembered  *)
(* unreachable rows and the requests for missing rows of a                 *)
(* SyncRouteSession do to them.                                            *)
(*                                                                         *)
(* Rows of different origins meet in three places only, and those are kept *)
(* as one bit per node, topo: the rows of other nodes connect this node to *)
(* Origin.  A node next to Origin has it from its own link; every other    *)
(* node from the sync requests of its parent in the session tree.          *)
(*                                                                         *)
(* Versions: -1 stands for "no entry" in every map, 0 is the placeholder   *)
(* of fill_empty_peer_info, 1 and up are published.  The time cursor       *)
(* last_sync_succ_timestamp is kept as fresh, "the row's last_update is    *)
(* not before the cursor".  Module RouteSessions has the generations and   *)
(* the roles of the sessions; here a session is renewed with its link.     *)
(***************************************************************************)
EXTENDS Integers

CONSTANTS
  Nodes, Origin,
  Parent,      \* the session tree: a function from Nodes \ {Origin}
  UseBitmap,   \* whether build_conn_info may prefer the cached bitmap to the list
  Keepalives,  \* the pairs <<m, n>> whose rounds with nothing new are taken too
  MaxEvents,   \* bound on publications, link failures, failed RPCs and expired acks
  MaxCollects  \* bound on rows removed by clear_expired_peer

ASSUME TreeAssumption ==
  /\ Origin \in Nodes
  /\ Parent \in [Nodes \ {Origin} -> Nodes]
  /\ \A n \in Nodes \ {Origin} : Parent[n] # n
ASSUME BoundsAssumption ==
  /\ UseBitmap \in BOOLEAN /\ Keepalives \subseteq Nodes \X Nodes
  /\ MaxEvents \in Nat /\ MaxCollects \in Nat

VARIABLES
  row,      \* row[n][k]: the version n holds of Origin's row of kind k
  topo,     \* topo[n]: other rows connect n to Origin
  cached,   \* cached[n]: the version of Origin's conn row in n's cached bitmap
  sess,     \* sess[m][n]: what m keeps about its session towards n
  call,     \* call[m][n]: the RPC outstanding in that session's task
  link,     \* link[n]: n is connected to its parent
  events, collects

vars == <<row, topo, cached, sess, call, link, events, collects>>

Kinds == {"info", "conn"}
None == -1
Version == Nat \union {None}
Larger(v, w) == IF v > w THEN v ELSE w

Session == [ ack : [Kinds -> Version], fresh : [Kinds -> BOOLEAN],
             pend : [Kinds -> Version], missing : BOOLEAN, retry : BOOLEAN ]
NewSession == [ ack |-> [k \in Kinds |-> None], fresh |-> [k \in Kinds |-> TRUE],
                pend |-> [k \in Kinds |-> None], missing |-> FALSE, retry |-> FALSE ]

\* ver: the versions of Origin's rows in the request; refs: it carries rows of other
\* nodes, with the sender's topo; newer: rows replaced since the request was built;
\* req: the kinds the response reports missing.
Call == [ stage : {"idle", "sent", "answered"}, ver : [Kinds -> Version],
          conn : {"none", "list", "bitmap"}, refs : BOOLEAN, topo : BOOLEAN,
          newer : [Kinds -> BOOLEAN], req : SUBSET Kinds ]
NoCall == [ stage |-> "idle", ver |-> [k \in Kinds |-> None], conn |-> "none",
            refs |-> FALSE, topo |-> FALSE, newer |-> [k \in Kinds |-> FALSE], req |-> {} ]

\* The pairs that hold a session towards each other.
Linked(m, n) ==
  \/ n # Origin /\ Parent[n] = m /\ link[n]
  \/ m # Origin /\ Parent[m] = n /\ link[m]
NextToOrigin(n) == n # Origin /\ Parent[n] = Origin

Init ==
  /\ row = [n \in Nodes |-> [k \in Kinds |-> IF n = Origin THEN 1
                                             ELSE IF NextToOrigin(n) THEN 0 ELSE None]]
  /\ topo = [n \in Nodes |-> n = Origin \/ NextToOrigin(n)]
  /\ cached = [n \in Nodes |-> IF n = Origin THEN 1 ELSE IF NextToOrigin(n) THEN 0 ELSE None]
  /\ sess = [m \in Nodes |-> [n \in Nodes |-> NewSession]]
  /\ call = [m \in Nodes |-> [n \in Nodes |-> NoCall]]
  /\ link = [n \in Nodes \ {Origin} |-> TRUE]
  /\ events = 0
  /\ collects = [n \in Nodes |-> 0]

-----------------------------------------------------------------------------
(* The route table and the local rows *)

\* topology_peer_reachable(Origin) once the route table is rebuilt from the rows r:
\* a peer without a real RoutePeerInfo is not in the graph.
Reachable(n, r, t) == n = Origin \/ (t /\ r["info"] >= 1)

\* Origin's row in the conn bitmap rebuilt from the rows r: a reachable source has
\* its version, a peer only mentioned by others has version 0.
InBitmap(n, r, t) ==
  IF Reachable(n, r, t) /\ r["conn"] # None THEN r["conn"]
  ELSE IF t THEN 0 ELSE None

\* Every row put in a map gets last_update = now: no session's cursor is past it.
MarkFresh(ss, F) ==
  [j \in Nodes |-> [ss[j] EXCEPT !.fresh = [k \in Kinds |-> @[k] \/ k \in F]]]
MarkNewer(cs, F) ==
  [j \in Nodes |-> IF cs[j].stage = "idle" THEN cs[j]
                   ELSE [cs[j] EXCEPT !.newer = [k \in Kinds |-> @[k] \/ k \in F]]]

\* update_my_infos up to its first await: a new version of one of the own rows.
Publish(k) ==
  /\ events < MaxEvents
  /\ events' = events + 1
  /\ row' = [row EXCEPT ![Origin][k] = @ + 1]
  /\ sess' = [sess EXCEPT ![Origin] = MarkFresh(@, {k})]
  /\ call' = [call EXCEPT ![Origin] = MarkNewer(@, {k})]
  /\ UNCHANGED <<topo, cached, link, collects>>

\* ... and its end, update_route_table_and_cached_local_conn_bitmap.
RefreshCached ==
  /\ cached[Origin] # row[Origin]["conn"]
  /\ cached' = [cached EXCEPT ![Origin] = row[Origin]["conn"]]
  /\ UNCHANGED <<row, topo, sess, call, link, events, collects>>

-----------------------------------------------------------------------------
(* Sending: build_sync_request and the two halves of sync_route_with_peer *)

UpToDate(n, ack, v) == v = 0 \/ n = Origin \/ ack >= v

\* The rows the loop over the newest rows finds, the rows remembered as unreachable
\* after that loop and its retain pass, and the rows that go into the request.
Newest(m, n) ==
  {k \in Kinds : /\ row[m][k] # None /\ sess[m][n].fresh[k]
                 /\ ~UpToDate(n, sess[m][n].ack[k], row[m][k])}
Pending(m, n) ==
  LET s == sess[m][n]
      p == [k \in Kinds |-> IF k \in Newest(m, n) /\ ~Reachable(m, row[m], topo[m])
                            THEN row[m][k] ELSE s.pend[k]]
  IN [k \in Kinds |-> IF p[k] # None /\ ~UpToDate(n, s.ack[k], p[k]) /\ row[m][k] # None
                      THEN p[k] ELSE None]
Included(m, n) ==
  IF Reachable(m, row[m], topo[m])
  THEN Newest(m, n) \union {k \in Kinds : Pending(m, n)[k] # None} ELSE {}

\* The connection rows go as the list or as the whole cached bitmap.  With refs they
\* hold rows of other nodes that say whether Origin can be reached through the sender; a
\* topology the receiver has not seen is always among the rows of a request.
NewTopology(m, n) == n # Origin /\ Parent[n] = m /\ topo[n] # topo[m]
ConnFormats(m, n, incl) ==
  {f \in {"none", "list", "bitmap"} \X BOOLEAN :
     /\ f[1] = "none" <=> "conn" \notin incl /\ ~f[2]
     /\ f[1] = "bitmap" => UseBitmap /\ f[2]
     /\ NewTopology(m, n) => f[2]
     /\ f[1] = "list" /\ f[2] => n # Origin /\ Parent[n] = m}

\* A round the session task must send: rows of Origin, a retry, or rows of other nodes
\* (which spread by the same rules) with a topology the peer has not seen.
MustSync(m, n) == Included(m, n) # {} \/ sess[m][n].retry \/ NewTopology(m, n)

SendSync(m, n) ==
  LET incl == Included(m, n)
  IN /\ Linked(m, n) /\ call[m][n].stage = "idle"
     /\ MustSync(m, n) \/ <<m, n>> \in Keepalives
     /\ sess' = [sess EXCEPT ![m][n].pend = Pending(m, n), ![m][n].retry = FALSE]
     /\ \E f \in ConnFormats(m, n, incl) :
          call' = [call EXCEPT ![m][n] = [ NoCall EXCEPT
            !.stage = "sent", !.conn = f[1], !.refs = f[2], !.topo = topo[m],
            !.ver = [k \in Kinds |-> IF k = "conn" /\ f[1] = "bitmap" THEN cached[m]
                                     ELSE IF k \in incl THEN row[m][k] ELSE None]]]
     /\ UNCHANGED <<row, topo, cached, link, events, collects>>

\* A round with nothing to send still updates the remembered rows, and from time to time
\* clean_dst_saved_map drops the acknowledgements E that were not looked at for a while;
\* build_sync_request looks at (touches) those of new and of remembered rows.
LookedAt(m, n) ==
  {k \in Kinds : row[m][k] >= 1 /\ (sess[m][n].fresh[k] \/ sess[m][n].pend[k] # None)}
SendNothing(m, n, E) ==
  /\ Linked(m, n) /\ call[m][n].stage = "idle" /\ ~sess[m][n].retry
  /\ Included(m, n) = {} /\ E \intersect LookedAt(m, n) = {}
  /\ IF E = {} THEN UNCHANGED events ELSE events < MaxEvents /\ events' = events + 1
  /\ sess' = [sess EXCEPT
       ![m][n].pend = Pending(m, n),
       ![m][n].ack = [k \in Kinds |-> IF k \in E THEN None ELSE @[k]]]
  /\ UNCHANGED <<row, topo, cached, call, link, collects>>

\* The response of a successful sync: acknowledge what was sent, move the cursor to the
\* time of the request, then request_missing_peer_infos.
Acked(n, s, ver) == [k \in Kinds |-> IF n = Origin THEN s.ack[k] ELSE Larger(s.ack[k], ver[k])]
\* Mutants: the cursor moves to the time of the response; the rows the map holds now are
\* acknowledged in place of the rows that were sent.
SyncOkLateCursor(m, n) ==
  /\ call[m][n].stage = "answered"
  /\ sess' = [sess EXCEPT ![m][n].ack = Acked(n, sess[m][n], call[m][n].ver),
                          ![m][n].fresh = [k \in Kinds |-> FALSE]]
  /\ call' = [call EXCEPT ![m][n] = NoCall]
  /\ UNCHANGED <<row, topo, cached, link, events, collects>>
SyncOkAcksHeld(m, n) ==
  /\ call[m][n].stage = "answered"
  /\ sess' = [sess EXCEPT ![m][n].ack = Acked(n, sess[m][n], row[m]),
                          ![m][n].fresh = call[m][n].newer]
  /\ call' = [call EXCEPT ![m][n] = NoCall]
  /\ UNCHANGED <<row, topo, cached, link, events, collects>>
SyncOk(m, n) ==
  LET c == call[m][n]
      asked == {k \in c.req : n # Origin /\ row[m][k] >= 1}
  IN /\ c.stage = "answered"
     /\ sess' = [sess EXCEPT ![m][n] = [sess[m][n] EXCEPT
          !.ack = [k \in Kinds |-> IF k \in asked THEN None ELSE Acked(n, sess[m][n], c.ver)[k]],
          !.pend = [k \in Kinds |-> IF k \in asked THEN row[m][k] ELSE sess[m][n].pend[k]],
          !.fresh = c.newer]]
     /\ call' = [call EXCEPT ![m][n] = NoCall]
     /\ UNCHANGED <<row, topo, cached, link, events, collects>>

\* The RPC fails: its request, or after the handler ran its response, is lost.
SyncErr(m, n) ==
  /\ call[m][n].stage # "idle" /\ events < MaxEvents
  /\ sess' = [sess EXCEPT ![m][n].retry = TRUE]
  /\ call' = [call EXCEPT ![m][n] = NoCall]
  /\ events' = events + 1
  /\ UNCHANGED <<row, topo, cached, link, collects>>

-----------------------------------------------------------------------------
(* Receiving: do_sync_route_info *)

\* The rows after update_peer_infos and update_conn_info: placeholders for the peers the
\* connection rows mention, then every received row with a larger version.
Mentioned(c) == c.refs /\ (c.topo \/ (c.conn = "bitmap" /\ c.ver["conn"] # None))
\* Mutant: a received row replaces the held one whatever its version.
MergeAlways(r, c) == [k \in Kinds |-> IF c.ver[k] # None THEN c.ver[k] ELSE r[k]]
Merge(r, c) ==
  [k \in Kinds |-> Larger(c.ver[k], IF Mentioned(c) THEN Larger(r[k], 0) ELSE r[k])]

\* collect_missing_peer_ids: ids named by the connection rows join the session's set;
\* it keeps those with a placeholder or a single record.
\* Mutant: nothing is ever asked for.
MissingNever(n, s, c, r) == {}
Missing(n, s, c, r) ==
  IF /\ s.missing \/ Mentioned(c) \/ c.ver["conn"] # None
     /\ n # Origin
     /\ \E k \in Kinds : r[k] # None
  THEN {k \in Kinds : r[k] <= 0} ELSE {}

HandleSync(m, n) ==
  LET c == call[m][n]
  IN /\ c.stage = "sent"
     /\ \E r \in {Merge(row[n], c)} :
        LET F == {k \in Kinds : r[k] # row[n][k]}
            t == IF c.refs /\ n # Origin /\ Parent[n] = m THEN c.topo ELSE topo[n]
            req == Missing(n, sess[n][m], c, r)
        IN /\ row' = [row EXCEPT ![n] = r]
           /\ topo' = [topo EXCEPT ![n] = t]
           /\ cached' = [cached EXCEPT ![n] =
                IF c.conn # "none" \/ c.ver["info"] # None THEN InBitmap(n, r, t) ELSE @]
           /\ sess' = [sess EXCEPT ![n] = MarkFresh([sess[n] EXCEPT ![m] =
                [sess[n][m] EXCEPT !.ack = Acked(m, sess[n][m], c.ver), !.missing = req # {}]], F)]
           /\ call' = [call EXCEPT ![n] = MarkNewer(@, F),
                                   ![m][n] = [c EXCEPT !.stage = "answered", !.req = req]]
     /\ UNCHANGED <<link, events, collects>>

-----------------------------------------------------------------------------
(* Expiry and links *)

\* clear_expired_peer: a peer that is unreachable loses both of its rows.
Collect(n) ==
  /\ collects[n] < MaxCollects
  /\ row[n]["info"] # None /\ ~Reachable(n, row[n], topo[n])
  /\ row' = [row EXCEPT ![n] = [k \in Kinds |-> None]]
  /\ cached' = [cached EXCEPT ![n] = InBitmap(n, row'[n], topo[n])]
  /\ collects' = [collects EXCEPT ![n] = @ + 1]
  /\ UNCHANGED <<topo, sess, call, link, events>>

\* update_my_conn_info at both ends of n's link to its parent, after sessions ss and calls
\* cc were set up or torn down: n's own row leads to Origin or no longer does, and when the
\* parent is Origin its row has changed and n fills empty rows for a new neighbour.
LinkChanged(n, up, ss, cc) ==
  LET r == IF up THEN [k \in Kinds |-> Larger(row[n][k], 0)] ELSE row[n]
      F == {k \in Kinds : r[k] # row[n][k]}
      t == up /\ NextToOrigin(n)
  IN /\ link' = [link EXCEPT ![n] = up]
     /\ IF NextToOrigin(n)
        THEN /\ row' = [row EXCEPT ![n] = r, ![Origin]["conn"] = @ + 1]
             /\ sess' = [ss EXCEPT ![n] = MarkFresh(@, F), ![Origin] = MarkFresh(@, {"conn"})]
             /\ call' = [cc EXCEPT ![n] = MarkNewer(@, F), ![Origin] = MarkNewer(@, {"conn"})]
        ELSE row' = row /\ sess' = ss /\ call' = cc
     /\ topo' = [topo EXCEPT ![n] = t]
     /\ cached' = [cached EXCEPT ![n] = InBitmap(n, row'[n], t)]
     /\ UNCHANGED collects

\* The connection closes: remove_session on both sides; and it opens again.
LinkDown(n) ==
  LET p == Parent[n]
  IN /\ link[n] /\ events < MaxEvents
     /\ events' = events + 1
     /\ LinkChanged(n, FALSE,
          [sess EXCEPT ![n][p] = NewSession, ![p][n] = NewSession],
          [call EXCEPT ![n][p] = NoCall, ![p][n] = NoCall])
LinkUp(n) ==
  /\ ~link[n]
  /\ LinkChanged(n, TRUE, sess, call)
  /\ UNCHANGED events

-----------------------------------------------------------------------------

Next ==
  \/ \E k \in Kinds : Publish(k)
  \/ RefreshCached
  \/ \E m, n \in Nodes :
       \/ SendSync(m, n)
       \/ \E E \in SUBSET Kinds : SendNothing(m, n, E)
       \/ SyncOk(m, n)
       \/ SyncErr(m, n)
       \/ HandleSync(m, n)
  \/ \E n \in Nodes \ {Origin} : Collect(n) \/ LinkDown(n) \/ LinkUp(n)

Spec == Init /\ [][Next]_vars

Fairness ==
  /\ WF_vars(RefreshCached)
  /\ \A m, n \in Nodes :
       WF_vars(MustSync(m, n) /\ SendSync(m, n)) /\ WF_vars(HandleSync(m, n)) /\ WF_vars(SyncOk(m, n))
  /\ \A n \in Nodes \ {Origin} : WF_vars(LinkUp(n))

FairSpec == Spec /\ Fairness

-----------------------------------------------------------------------------

\* Every version is a number or None, every session and call has its fields, and nothing
\* of a session outlives its removal (remove_session).
TypeOK ==
  /\ row \in [Nodes -> [Kinds -> Version]]
  /\ topo \in [Nodes -> BOOLEAN]
  /\ cached \in [Nodes -> Version]
  /\ sess \in [Nodes -> [Nodes -> Session]]
  /\ call \in [Nodes -> [Nodes -> Call]]
  /\ link \in [Nodes \ {Origin} -> BOOLEAN]
  /\ events \in 0 .. MaxEvents
  /\ collects \in [Nodes -> 0 .. MaxCollects]
  /\ \A m, n \in Nodes : ~Linked(m, n) => sess[m][n] = NewSession /\ call[m][n] = NoCall

\* What a session skips needs no sending: a real row that the time cursor has passed and
\* that is not remembered as pending is held by the peer in at least that version, unless
\* the peer itself collected it (build_route_info, build_conn_peer_list).
SkippedIsHeld ==
  \A m, n \in Nodes, k \in Kinds :
    ( /\ Linked(m, n) /\ n # Origin /\ collects[n] = 0
      /\ row[m][k] >= 1 /\ ~sess[m][n].fresh[k] /\ sess[m][n].pend[k] < row[m][k] )
    => row[n][k] >= row[m][k]

\* An acknowledged version is held by the peer unless the peer collected it, and nobody
\* holds, acknowledges or sends a version that Origin has not published.
AckIsHeld ==
  /\ TypeOK
  /\ \A m, n \in Nodes, k \in Kinds :
       /\ collects[n] = 0 => sess[m][n].ack[k] <= row[n][k]
       /\ row[m][k] <= row[Origin][k]
       /\ sess[m][n].ack[k] <= row[Origin][k]
       /\ call[m][n].ver[k] <= row[Origin][k]

\* A row only ever grows, except where clear_expired_peer removes both rows of a peer
\* that the route table cannot reach.
RowsOnlyGrow ==
  [][\A n \in Nodes :
       \/ \A k \in Kinds : row'[n][k] >= row[n][k]
       \/ ~Reachable(n, row[n], topo[n]) /\ \A k \in Kinds : row'[n][k] = None]_vars

\* Once links, RPCs and expiry leave the mesh alone, every node ends with Origin's last
\* rows and reaches it; nodes that collected the rows ask for them again
\* (collect_missing_peer_ids, request_missing_peer_infos).
Synced == \A n \in Nodes : row[n] = row[Origin] /\ Reachable(n, row[n], topo[n])
EventuallySynced == <>[]Synced

=============================================================================
