------------------------- MODULE AgentTrackerProofs -------------------------
(***************************************************************************)
(* Safety of AgentTracker for every set of sessions, agents, threads,      *)
(* panes and titles, every threshold and every bound.                      *)
(*                                                                         *)
(* Two facts about the tracker are kept by every method, whatever its      *)
(* arguments: its rows are sane (SaneTrackers), and the unseen keys of a   *)
(* session agree with its rows (Marked).  Only a rename moves keys apart   *)
(* from rows, onto names where others were filed.  From both follows what  *)
(* a step may never do: lose an unseen row, or move a seed between panes.  *)
(***************************************************************************)
EXTENDS AgentTracker, TLAPS

(* Rows dated no later than now, alive where they have a pane, and without   *)
(* one while hibernated.                                                    *)
SaneRows == {r \in Rows : /\ r.ts <= clock
                          /\ Bound(r) => Alive(r)
                          /\ r.status = "hibernated" => ~Bound(r) /\ ~Alive(r)}
SaneTrackers == [rows : [Ids -> SaneRows], unseen : SUBSET Ids, seeded : SUBSET Ids]

(* The marks of one key agree with its row, and no unseen key lacks a row.   *)
Marked(t, i) ==
    /\ i \in t.unseen => Present(t.rows[i]) /\ t.rows[i].status \in Terminal
    /\ Present(t.rows[i]) => (i \in t.unseen <=> t.rows[i].unseen)
    /\ Present(t.rows[i]) /\ i \in t.seeded => ~t.rows[i].unseen

(* What a method promises: a sane tracker again, and no key loses its marks. *)
Keeps(t, u) == /\ u \in SaneTrackers
               /\ \A i \in Ids : Marked(t, i) => Marked(u, i)

-----------------------------------------------------------------------------
(* No row is no row that could be wrong.                                    *)
LEMMA AbsentIsSane == clock \in Times => Absent \in SaneRows
  BY TrackerAssumption DEF SaneRows, Rows, Absent, Bound, Alive, Times, Lives, Statuses

(* A sane row is a row with every field in its type.                        *)
LEMMA RowFields ==
  ASSUME NEW t \in SaneTrackers, NEW i \in Ids
  PROVE  /\ t.rows[i] \in SaneRows
         /\ t.rows[i] \in Rows
  BY DEF SaneTrackers, SaneRows

(* A sane row whose name alone changes stays sane.                          *)
LEMMA RenamedRow ==
  ASSUME NEW r \in SaneRows, NEW n \in Names \cup {NoName}
  PROVE  [r EXCEPT !.name = n] \in SaneRows
  BY DEF SaneRows, Rows, Bound, Alive

(* Leaving a pane keeps a row sane.                                         *)
LEMMA UnboundRow ==
  ASSUME NEW r \in SaneRows
  PROVE  /\ Unbound(r) \in SaneRows
         /\ Unbound(r).status = r.status
         /\ Unbound(r).unseen = r.unseen
  BY DEF SaneRows, Rows, Bound, Alive, Unbound, Lives

(* remove_instance drops the row and both of its keys.                      *)
LEMMA DiscardKeeps ==
  ASSUME clock \in Times, NEW t \in SaneTrackers, NEW gone \in SUBSET Ids
  PROVE  Keeps(t, Discard(t, gone))
<1> DEFINE u == Discard(t, gone)
<1>1. u \in SaneTrackers
  BY AbsentIsSane DEF Discard, SaneTrackers
<1>2. ASSUME NEW i \in Ids, Marked(t, i) PROVE Marked(u, i)
  <2>1. CASE i \in gone
    BY <2>1 DEF Marked, Discard, Absent, Present
  <2>2. CASE i \notin gone
    BY <1>2, <2>2 DEF Marked, Discard
  <2> QED BY <2>1, <2>2
<1> QED BY <1>1, <1>2 DEF Keeps

(* Marking rows as seen clears the flag and the key together.               *)
LEMMA MarkSeenKeeps ==
  ASSUME NEW t \in SaneTrackers, NEW seen \in SUBSET Ids
  PROVE  Keeps(t, MarkSeen(t, seen))
<1> DEFINE u == MarkSeen(t, seen)
<1>1. \A r \in SaneRows : /\ [r EXCEPT !.unseen = FALSE] \in SaneRows
                          /\ [r EXCEPT !.unseen = FALSE].status = r.status
                          /\ ~[r EXCEPT !.unseen = FALSE].unseen
  BY DEF SaneRows, Rows, Bound, Alive
<1>2. /\ u \in SaneTrackers
      /\ u.unseen = t.unseen \ seen
      /\ u.seeded = t.seeded
      /\ \A i \in Ids : u.rows[i] = IF i \in seen THEN [t.rows[i] EXCEPT !.unseen = FALSE]
                                    ELSE t.rows[i]
  BY <1>1 DEF MarkSeen, SaneTrackers
<1>3. ASSUME NEW i \in Ids, Marked(t, i) PROVE Marked(u, i)
  <2>1. CASE i \in seen
    BY <1>1, <1>2, <2>1, RowFields DEF Marked, Present
  <2>2. CASE i \notin seen
    BY <1>2, <1>3, <2>2 DEF Marked
  <2> QED BY <2>1, <2>2
<1> QED BY <1>2, <1>3 DEF Keeps

-----------------------------------------------------------------------------
(* What one method keeps and the next keeps, both keep.                     *)
LEMMA KeepsThenKeeps ==
  ASSUME NEW t, NEW u, NEW v, Keeps(t, u), Keeps(u, v)
  PROVE  Keeps(t, v)
  BY DEF Keeps

(* CHOOSE picks a member of the set it is given.                            *)
LEMMA ChosenMember ==
  ASSUME NEW S, S # {}
  PROVE  (CHOOSE x \in S : TRUE) \in S
  OBVIOUS

(* A report as apply_event uses it: dated no later than now.                *)
DatedReports == {e \in Reports : e.ts <= clock}

(* No report has the status of a missing or a hibernated row.               *)
LEMMA ReportFields ==
  ASSUME NEW e \in Reports
  PROVE  /\ e.id \in Ids
         /\ e.status \in Statuses
         /\ e.status \notin {"absent", "hibernated"}
         /\ e.ts \in Times
         /\ e.name \in Names \cup {NoName}
         /\ e.pane \in Panes \cup {NoPane}
  BY TrackerAssumption DEF Reports, Statuses

(* The pane and the liveness of the row a report leaves come together from   *)
(* one source: the report, the row before it, or the provisional row.       *)
LEMMA InheritedRow ==
  ASSUME clock \in Times, NEW e \in DatedReports,
         NEW prev \in SaneRows, NEW provisional \in SaneRows
  PROVE  /\ Inherited(e, prev, provisional) \in SaneRows
         /\ Present(Inherited(e, prev, provisional))
         /\ Inherited(e, prev, provisional).status = e.status
         /\ Inherited(e, prev, provisional).unseen = (e.status \in Terminal)
<1> DEFINE here == [pane |-> e.pane, live |-> IF e.pane = NoPane THEN "none" ELSE "alive"]
           kept == IF Bound(prev) THEN prev ELSE Absent
           row == Inherited(e, prev, provisional)
           pane == IF here.pane # NoPane THEN here.pane
                   ELSE IF kept.pane # NoPane THEN kept.pane ELSE provisional.pane
           live == IF here.live # "none" THEN here.live
                   ELSE IF kept.live # "none" THEN kept.live ELSE provisional.live
<1>1. e \in Reports /\ e.ts <= clock
  BY DEF DatedReports
<1>2. /\ row.status = e.status
      /\ row.ts = e.ts
      /\ row.name = IF e.name # NoName THEN e.name ELSE prev.name
      /\ row.pane = pane
      /\ row.live = live
      /\ row.unseen = (e.status \in Terminal)
      /\ row = [status |-> row.status, ts |-> row.ts, name |-> row.name,
                pane |-> row.pane, live |-> row.live, unseen |-> row.unseen]
  BY DEF Inherited
<1>3. kept \in SaneRows
  BY AbsentIsSane
<1>4. /\ pane \in Panes \cup {NoPane}
      /\ live \in Lives
      /\ pane # NoPane => live = "alive"
  <2>1. CASE e.pane # NoPane
    BY <1>1, <2>1, ReportFields DEF Lives
  <2>2. CASE e.pane = NoPane /\ Bound(prev)
    BY <2>2 DEF SaneRows, Rows, Bound, Alive, Lives
  <2>3. CASE e.pane = NoPane /\ ~Bound(prev)
    BY <2>3 DEF SaneRows, Rows, Bound, Alive, Lives, Absent
  <2> QED BY <2>1, <2>2, <2>3
<1>5. row.name \in Names \cup {NoName}
  BY <1>1, <1>2, ReportFields DEF SaneRows, Rows
<1> HIDE DEF row, pane, live
<1>6. row \in Rows
  <2>1. row.unseen \in BOOLEAN
    <3>1. (e.status \in Terminal) \in BOOLEAN
      OBVIOUS
    <3> QED BY <1>2, <3>1
  <2>2. row.status \in Statuses \cup {"absent"} /\ row.ts \in Times
    BY <1>1, <1>2, ReportFields
  <2>3. row.pane \in Panes \cup {NoPane} /\ row.live \in Lives
    BY <1>2, <1>4
  <2> QED BY <1>2, <1>5, <2>1, <2>2, <2>3, Zenon DEF Rows
<1>7. row \in SaneRows
  BY <1>1, <1>2, <1>4, <1>6, ReportFields DEF SaneRows, Bound, Alive
<1> QED BY <1>1, <1>2, <1>7, ReportFields DEF row, Present

(* The rest of apply_event writes the row and its key together, and takes    *)
(* the provisional row away with its keys.                                  *)
LEMMA InsertKeeps ==
  ASSUME clock \in Times, NEW t \in SaneTrackers, NEW e \in DatedReports,
         e.id \notin t.seeded
  PROVE  Keeps(t, Insert(t, e))
<1> DEFINE name == IF e.name # NoName THEN e.name ELSE t.rows[e.id].name
           provisional == {j \in Peers(e.id) :
                              /\ ThreadOf(j) = NoThread /\ Present(t.rows[j])
                              /\ name # NoName /\ t.rows[j].name = name}
           absorbed == IF provisional = {} THEN Absent
                       ELSE t.rows[CHOOSE j \in provisional : TRUE]
           row == Inherited(e, t.rows[e.id], absorbed)
           displaced == {j \in Peers(e.id) : /\ Bound(row) /\ t.rows[j].pane = row.pane
                                              /\ t.rows[j].ts <= e.ts}
           u == Insert(t, e)
<1>1. /\ e.id \in Ids
      /\ e.id \notin provisional
      /\ provisional \subseteq Ids
  BY ReportFields DEF DatedReports, Peers
<1>2. absorbed \in SaneRows
  BY <1>1, AbsentIsSane, ChosenMember, RowFields
<1>3. /\ row \in SaneRows
      /\ Present(row)
      /\ row.status = e.status
      /\ row.unseen = (e.status \in Terminal)
  <2> HIDE DEF absorbed
  <2> QED BY <1>1, <1>2, RowFields, InheritedRow
<1>4. /\ u = [rows |-> u.rows, unseen |-> u.unseen, seeded |-> u.seeded]
      /\ u.rows = [j \in Ids |-> IF j = e.id THEN row
                                 ELSE IF j \in provisional THEN Absent
                                 ELSE IF j \in displaced THEN Unbound(t.rows[j])
                                 ELSE t.rows[j]]
      /\ u.unseen = (t.unseen \ (provisional \cup {e.id}))
                    \cup (IF e.status \in Terminal THEN {e.id} ELSE {})
      /\ u.seeded = t.seeded
  BY DEF Insert
<1> HIDE DEF row, provisional, displaced, u
<1>5. \A j \in Ids : u.rows[j] \in SaneRows
  BY <1>3, <1>4, AbsentIsSane, RowFields, UnboundRow
<1>6. u \in SaneTrackers
  <2>1. u.rows \in [Ids -> SaneRows]
    BY <1>4, <1>5
  <2>2. u.unseen \subseteq Ids /\ u.seeded \subseteq Ids
    BY <1>1, <1>4 DEF SaneTrackers
  <2> QED BY <1>4, <2>1, <2>2 DEF SaneTrackers
<1>7. ASSUME NEW i \in Ids, Marked(t, i) PROVE Marked(u, i)
  <2>1. CASE i = e.id
    <3>1. /\ u.rows[i] = row
          /\ i \in u.unseen <=> e.status \in Terminal
          /\ i \notin u.seeded
      BY <1>1, <1>4, <2>1
    <3> QED BY <1>3, <3>1 DEF Marked
  <2>2. CASE i \in provisional
    <3>1. u.rows[i] = Absent /\ i \notin u.unseen
      BY <1>1, <1>4, <2>2
    <3> QED BY <3>1 DEF Marked, Absent, Present
  <2>3. CASE i # e.id /\ i \notin provisional
    <3>1. /\ u.rows[i].status = t.rows[i].status
          /\ u.rows[i].unseen = t.rows[i].unseen
      BY <1>4, <2>3, RowFields, UnboundRow
    <3>2. /\ i \in u.unseen <=> i \in t.unseen
          /\ i \in u.seeded <=> i \in t.seeded
      BY <1>4, <2>3
    <3> QED BY <1>7, <3>1, <3>2 DEF Marked, Present
  <2> QED BY <2>1, <2>2, <2>3
<1> QED BY <1>6, <1>7 DEF Keeps, u

(* A name on the row of a restated seed changes no mark.                    *)
LEMMA RestatedKeeps ==
  ASSUME NEW t \in SaneTrackers, NEW i \in Ids, NEW n \in Names \cup {NoName}
  PROVE  Keeps(t, [t EXCEPT !.rows[i].name = n])
<1> DEFINE u == [t EXCEPT !.rows[i].name = n]
<1>1. /\ u \in SaneTrackers
      /\ u.unseen = t.unseen /\ u.seeded = t.seeded
      /\ \A j \in Ids : /\ u.rows[j].status = t.rows[j].status
                        /\ u.rows[j].unseen = t.rows[j].unseen
  <2>1. [t.rows[i] EXCEPT !.name = n] \in SaneRows
    BY RowFields, RenamedRow
  <2>2. /\ [t.rows[i] EXCEPT !.name = n].status = t.rows[i].status
        /\ [t.rows[i] EXCEPT !.name = n].unseen = t.rows[i].unseen
    BY RowFields DEF Rows
  <2> QED BY <2>1, <2>2 DEF SaneTrackers
<1> QED BY <1>1 DEF Keeps, Marked, Present

(* apply_event keeps the rows sane and the marks true, whatever the report. *)
LEMMA ApplyEventKeeps ==
  ASSUME clock \in Times, NEW t \in SaneTrackers, NEW report \in Reports
  PROVE  Keeps(t, ApplyEvent(t, report))
<1> DEFINE e == [report EXCEPT !.ts = IF @ > clock THEN clock ELSE @]
           cleared == [t EXCEPT !.seeded = @ \ {e.id}]
           left == Discard(cleared, Superseded(cleared, e))
<1>1. e \in DatedReports
  BY DEF DatedReports, Reports, Times
<1>2. /\ e.id \in Ids
      /\ e.name \in Names \cup {NoName}
  BY <1>1, ReportFields DEF DatedReports
<1>3. ApplyEvent(t, report) =
         IF Settling(t, e) THEN t
         ELSE IF Restates(t, e)
         THEN [t EXCEPT !.rows[e.id].name = IF e.name # NoName THEN e.name ELSE @]
         ELSE Insert(Discard([t EXCEPT !.seeded = @ \ {e.id}], Superseded(t, e)), e)
  BY DEF ApplyEvent
<1>4. Superseded(cleared, e) = Superseded(t, e)
  BY <1>2 DEF Superseded, Peers, SaneTrackers
<1> HIDE DEF e
<1>5. Keeps(t, t)
  BY DEF Keeps
<1>6. Keeps(t, [t EXCEPT !.rows[e.id].name = IF e.name # NoName THEN e.name ELSE @])
  <2>1. t.rows[e.id].name \in Names \cup {NoName}
    BY <1>2, RowFields DEF Rows
  <2>2. (IF e.name # NoName THEN e.name ELSE t.rows[e.id].name) \in Names \cup {NoName}
    BY <1>2, <2>1
  <2>3. Keeps(t, [t EXCEPT !.rows[e.id].name =
                     IF e.name # NoName THEN e.name ELSE t.rows[e.id].name])
    BY <1>2, <2>2, RestatedKeeps
  <2> QED BY <2>3
<1>7. Keeps(t, Insert(left, e))
  <2>1. Keeps(t, cleared)
    BY DEF Keeps, Marked, SaneTrackers
  <2>2. Keeps(cleared, left)
    <3>1. Superseded(cleared, e) \subseteq Ids /\ cleared \in SaneTrackers
      BY <2>1 DEF Superseded, Peers, Keeps
    <3> QED BY <3>1, DiscardKeeps
  <2>3. left \in SaneTrackers /\ e.id \notin left.seeded
    BY <2>2 DEF Keeps, Discard, SaneTrackers
  <2>4. Keeps(left, Insert(left, e))
    BY <1>1, <2>3, InsertKeeps
  <2> QED BY <2>1, <2>2, <2>4, KeepsThenKeeps
<1> QED BY <1>3, <1>4, <1>5, <1>6, <1>7

(* apply_seed_event only fills a row that was missing, so no unseen key can  *)
(* be waiting for it.                                                       *)
LEMMA ApplySeedKeeps ==
  ASSUME clock \in Times, NEW t \in SaneTrackers, NEW report \in Reports
  PROVE  Keeps(t, ApplySeed(t, report))
<1> DEFINE row == [status |-> report.status, name |-> report.name,
                   ts |-> IF report.ts > clock THEN clock ELSE report.ts,
                   pane |-> report.pane,
                   live |-> IF report.pane = NoPane THEN "none" ELSE "alive",
                   unseen |-> FALSE]
           u == [t EXCEPT !.rows[report.id] = row, !.seeded = @ \cup {report.id}]
<1>1. CASE Conflicts(t, report) # {}
  BY <1>1 DEF ApplySeed, Keeps
<1>2. CASE Conflicts(t, report) = {}
  <2>1. ApplySeed(t, report) = u
    BY <1>2 DEF ApplySeed
  <2>2. report.id \in Ids /\ ~Present(t.rows[report.id])
    BY <1>2, ReportFields DEF Conflicts
  <2>3. row \in SaneRows /\ row.unseen = FALSE /\ Present(row)
    BY ReportFields DEF SaneRows, Rows, Lives, Bound, Alive, Present, Times
  <2> HIDE DEF row
  <2>4. /\ u \in SaneTrackers
        /\ u.unseen = t.unseen
        /\ u.seeded = t.seeded \cup {report.id}
        /\ \A i \in Ids : u.rows[i] = IF i = report.id THEN row ELSE t.rows[i]
    BY <2>2, <2>3 DEF SaneTrackers
  <2> QED BY <2>1, <2>2, <2>3, <2>4 DEF Keeps, Marked
<1> QED BY <1>1, <1>2

(* prune_stuck: staleness is not an end the user has to look at, and what is *)
(* dropped loses its keys.                                                  *)
LEMMA PruneStuckKeeps ==
  ASSUME clock \in Times, NEW t \in SaneTrackers
  PROVE  Keeps(t, PruneStuck(t))
<1> DEFINE alive == {i \in Stuck(t) : Alive(t.rows[i])}
           kept  == [t EXCEPT !.rows = [i \in Ids |-> IF i \in alive
                                                      THEN [@[i] EXCEPT !.status = "stale"]
                                                      ELSE @[i]]]
<1>1. Stuck(t) \subseteq Ids /\ \A i \in Stuck(t) : t.rows[i].status = "running"
  BY DEF Stuck
<1>2. \A r \in SaneRows : /\ [r EXCEPT !.status = "stale"] \in SaneRows
                          /\ [r EXCEPT !.status = "stale"].status = "stale"
                          /\ [r EXCEPT !.status = "stale"].unseen = r.unseen
  BY DEF SaneRows, Rows, Bound, Alive, Statuses
<1>3. /\ kept \in SaneTrackers
      /\ kept.unseen = t.unseen /\ kept.seeded = t.seeded
      /\ \A i \in Ids : kept.rows[i] = IF i \in alive
                                       THEN [t.rows[i] EXCEPT !.status = "stale"]
                                       ELSE t.rows[i]
  <2> HIDE DEF alive
  <2> QED BY <1>2 DEF SaneTrackers
<1>4. Keeps(t, kept)
  <2>1. ASSUME NEW i \in Ids, Marked(t, i) PROVE Marked(kept, i)
    <3>1. CASE i \in alive
      <4>1. t.rows[i].status = "running" /\ t.rows[i] \in SaneRows
        BY <1>1, <3>1, RowFields
      <4>2. /\ i \notin t.unseen
            /\ ~t.rows[i].unseen
        BY <2>1, <4>1 DEF Marked, Present, Terminal
      <4>3. /\ kept.rows[i] = [t.rows[i] EXCEPT !.status = "stale"]
            /\ i \notin kept.unseen
        BY <1>3, <3>1, <4>2
      <4>4. ~kept.rows[i].unseen
        BY <1>2, <4>1, <4>2, <4>3
      <4> QED BY <4>3, <4>4 DEF Marked
    <3>2. CASE i \notin alive
      BY <1>3, <2>1, <3>2 DEF Marked
    <3> QED BY <3>1, <3>2
  <2> QED BY <1>3, <2>1 DEF Keeps
<1>5. Keeps(kept, Discard(kept, Stuck(t) \ alive))
  BY <1>1, <1>3, DiscardKeeps
<1> QED BY <1>4, <1>5, KeepsThenKeeps DEF PruneStuck

(* prune_terminal passes over unseen keys.                                  *)
LEMMA PruneTerminalKeeps ==
  ASSUME clock \in Times, NEW t \in SaneTrackers
  PROVE  Keeps(t, PruneTerminal(t))
<1> DEFINE u == PruneTerminal(t)
<1>1. Finished(t) \subseteq Ids /\ Finished(t) \cap t.unseen = {}
  BY DEF Finished
<1>2. /\ u \in SaneTrackers
      /\ u.unseen = t.unseen /\ u.seeded = t.seeded \ Finished(t)
      /\ \A i \in Ids : u.rows[i] = IF i \in Finished(t) THEN Absent ELSE t.rows[i]
  BY AbsentIsSane DEF PruneTerminal, SaneTrackers
<1> QED BY <1>1, <1>2 DEF Keeps, Marked, Present, Absent

(* mark_hibernated takes the pane away and clears both marks.               *)
LEMMA MarkHibernatedKeeps ==
  ASSUME clock \in Times, NEW t \in SaneTrackers, NEW i \in Ids
  PROVE  Keeps(t, MarkHibernated(t, i))
<1> DEFINE row == [Unbound(t.rows[i]) EXCEPT !.status = "hibernated", !.ts = clock,
                                             !.unseen = FALSE]
           u == MarkHibernated(t, i)
<1>1. row \in SaneRows /\ row.unseen = FALSE
  <2>1. Unbound(t.rows[i]) \in SaneRows
    BY RowFields, UnboundRow
  <2>2. /\ Unbound(t.rows[i]).pane = NoPane
        /\ Unbound(t.rows[i]).live = "exited"
    BY RowFields DEF Unbound, Rows
  <2>3. ASSUME NEW r \in SaneRows, r.pane = NoPane, r.live = "exited"
        PROVE  LET h == [r EXCEPT !.status = "hibernated", !.ts = clock, !.unseen = FALSE]
               IN h \in SaneRows /\ h.unseen = FALSE
    <3> DEFINE h == [r EXCEPT !.status = "hibernated", !.ts = clock, !.unseen = FALSE]
    <3>1. /\ h \in Rows
          /\ h.ts = clock /\ h.pane = NoPane /\ h.live = "exited" /\ h.unseen = FALSE
      BY <2>3 DEF SaneRows, Rows, Statuses
    <3> HIDE DEF h
    <3>2. h \in SaneRows /\ h.unseen = FALSE
      BY <3>1 DEF SaneRows, Bound, Alive, Times
    <3> QED BY <3>2 DEF h
  <2> QED BY <2>1, <2>2, <2>3
<1>2. /\ u \in SaneTrackers
      /\ u.unseen = t.unseen \ {i} /\ u.seeded = t.seeded
      /\ \A j \in Ids : u.rows[j] = IF j = i THEN row ELSE t.rows[j]
  BY <1>1 DEF MarkHibernated, SaneTrackers
<1> HIDE DEF row
<1> QED BY <1>1, <1>2 DEF Keeps, Marked

(* apply_pane_presence, first half: leaving a pane touches no mark.         *)
LEMMA UnbindGoneKeeps ==
  ASSUME NEW t \in SaneTrackers, NEW listed, NEW panes
  PROVE  Keeps(t, UnbindGone(t, listed, panes))
<1> DEFINE gone == {i \in Ids :
                      /\ SessionOf(i) \in listed /\ Alive(t.rows[i]) /\ Bound(t.rows[i])
                      /\ ~\E p \in panes : p.session = SessionOf(i) /\ p.pane = t.rows[i].pane}
           u == UnbindGone(t, listed, panes)
<1>1. u = [t EXCEPT !.rows = [i \in Ids |-> IF i \in gone THEN Unbound(t.rows[i])
                                            ELSE t.rows[i]]]
  <2>1. [i \in Ids |-> IF /\ SessionOf(i) \in listed /\ Alive(t.rows[i]) /\ Bound(t.rows[i])
                          /\ ~\E p \in panes : p.session = SessionOf(i)
                                               /\ p.pane = t.rows[i].pane
                       THEN Unbound(t.rows[i]) ELSE t.rows[i]]
          = [i \in Ids |-> IF i \in gone THEN Unbound(t.rows[i]) ELSE t.rows[i]]
    BY Zenon
  <2> HIDE DEF gone
  <2> QED BY <2>1 DEF UnbindGone, SaneTrackers
<1> HIDE DEF gone, u
<1>2. /\ u \in SaneTrackers
      /\ u.unseen = t.unseen /\ u.seeded = t.seeded
      /\ \A i \in Ids : u.rows[i] = IF i \in gone THEN Unbound(t.rows[i]) ELSE t.rows[i]
  BY <1>1, UnboundRow DEF SaneTrackers
<1>3. \A i \in Ids : /\ u.rows[i].status = t.rows[i].status
                     /\ u.rows[i].unseen = t.rows[i].unseen
  BY <1>2, RowFields, UnboundRow
<1> QED BY <1>2, <1>3 DEF Keeps, Marked, Present, u

(* stamp_alive binds and revives together, and never a hibernated row.      *)
LEMMA StampAliveKeeps ==
  ASSUME NEW t \in SaneTrackers, NEW i \in Ids, NEW pane \in Panes
  PROVE  Keeps(t, StampAlive(t, i, pane))
<1> DEFINE row == [t.rows[i] EXCEPT !.pane = pane, !.live = "alive"]
           u == [t EXCEPT !.rows[i].pane = pane, !.rows[i].live = "alive"]
<1>1. CASE StampAlive(t, i, pane) = t
  BY <1>1 DEF Keeps
<1>2. CASE StampAlive(t, i, pane) = u /\ t.rows[i].status # "hibernated"
  <2>1. /\ row \in SaneRows
        /\ row.status = t.rows[i].status
        /\ row.unseen = t.rows[i].unseen
    <3>1. t.rows[i] \in SaneRows
      BY RowFields
    <3>2. /\ row \in Rows
          /\ row.status = t.rows[i].status
          /\ row.unseen = t.rows[i].unseen
          /\ row.ts = t.rows[i].ts /\ row.live = "alive"
      BY <3>1 DEF SaneRows, Rows, Lives
    <3> HIDE DEF row
    <3>3. row \in SaneRows
      BY <1>2, <3>1, <3>2 DEF SaneRows, Bound, Alive
    <3> QED BY <3>2, <3>3
  <2>2. /\ u \in SaneTrackers
        /\ u.unseen = t.unseen /\ u.seeded = t.seeded
        /\ \A j \in Ids : u.rows[j] = IF j = i THEN row ELSE t.rows[j]
    BY <2>1 DEF SaneTrackers
  <2> HIDE DEF row, u
  <2> QED BY <1>2, <2>1, <2>2 DEF Keeps, Marked, Present
<1> QED BY <1>1, <1>2 DEF StampAlive

(* Which row a listed pane is given to, if any.                             *)
LEMMA PlacedRow ==
  ASSUME NEW t, NEW p, NEW panes
  PROVE  \/ PlacePane(t, p, panes) = t
         \/ \E i \in Ids : PlacePane(t, p, panes) = StampAlive(t, i, p.pane)
<1> DEFINE mine  == {i \in Ids : /\ SessionOf(i) = p.session /\ AgentOf(i) = p.agent
                                 /\ Present(t.rows[i])}
           named == {i \in mine : p.title # NoName /\ t.rows[i].name = p.title}
           watched == {i \in mine : t.rows[i].status # "hibernated"}
           only  == IF \E i \in mine : named = {i} THEN named
                    ELSE {i \in watched : watched = {i} /\ Fits(t.rows[i], p, panes)}
<1>1. PlacePane(t, p, panes) = IF only = {} THEN t
                               ELSE StampAlive(t, CHOOSE i \in only : TRUE, p.pane)
  BY DEF PlacePane
<1>2. only \subseteq Ids
  OBVIOUS
<1> HIDE DEF only
<1> QED BY <1>1, <1>2, ChosenMember

(* Second half, one listed pane: whichever row it is given to.              *)
LEMMA PlacePaneKeeps ==
  ASSUME NEW t \in SaneTrackers, NEW p \in ListedPanes, NEW panes
  PROVE  Keeps(t, PlacePane(t, p, panes))
<1>1. p.pane \in Panes
  BY DEF ListedPanes
<1>2. Keeps(t, t)
  BY DEF Keeps
<1> QED BY <1>1, <1>2, PlacedRow, StampAliveKeeps

(* The key an instance had under another name.                              *)
Under(s, i) == <<s, AgentOf(i), ThreadOf(i)>>

(* It is a key again, of that name's session.                               *)
LEMMA UnderIsId ==
  ASSUME NEW s \in Sessions, NEW i \in Ids
  PROVE  Under(s, i) \in Ids /\ SessionOf(Under(s, i)) = s
  BY DEF Under, Ids, SessionOf, AgentOf, ThreadOf

(* rename_session: rows and keys of the old name move together, so the new   *)
(* name's marks are true if nothing was filed under it.                     *)
LEMMA RenameMarks ==
  ASSUME clock \in Times, NEW t \in SaneTrackers,
         NEW old \in Sessions, NEW new \in Sessions, NEW hasMap \in BOOLEAN,
         (\E i \in Ids : SessionOf(i) = old /\ Present(t.rows[i])) => hasMap,
         NEW u, u = Rename(t, old, new, hasMap)
  PROVE  /\ u \in SaneTrackers
         /\ \A i \in Ids : SessionOf(i) # new /\ (SessionOf(i) = old \/ Marked(t, i))
                              => Marked(u, i)
         /\ Filed(t, new) = {} =>
               \A i \in Ids : SessionOf(i) = new /\ Marked(t, Under(old, i))
                                 => Marked(u, i)
<1>1. /\ u = [rows |-> u.rows, unseen |-> u.unseen, seeded |-> u.seeded]
      /\ u.rows = [i \in Ids |-> IF ~hasMap \/ SessionOf(i) \notin {old, new} THEN t.rows[i]
                                 ELSE IF SessionOf(i) = new THEN t.rows[Under(old, i)]
                                 ELSE Absent]
      /\ u.unseen = Renamed(old, new, t.unseen)
      /\ u.seeded = Renamed(old, new, t.seeded)
  BY DEF Rename, Under
<1>2. ASSUME NEW ids \in SUBSET Ids
      PROVE  /\ Renamed(old, new, ids) \in SUBSET Ids
             /\ \A i \in Ids : i \in Renamed(old, new, ids) <=>
                                 \/ i \in ids /\ SessionOf(i) # old
                                 \/ SessionOf(i) = new /\ Under(old, i) \in ids
  BY DEF Renamed, Under
<1>3. t.unseen \in SUBSET Ids /\ t.seeded \in SUBSET Ids /\ t.rows \in [Ids -> SaneRows]
  BY DEF SaneTrackers
<1>4. u.rows \in [Ids -> SaneRows]
  <2>1. ASSUME NEW i \in Ids PROVE u.rows[i] \in SaneRows
    BY <1>1, <1>3, AbsentIsSane, UnderIsId
  <2> QED BY <1>1, <2>1
<1>5. u \in SaneTrackers
  BY <1>1, <1>2, <1>3, <1>4 DEF SaneTrackers
<1>6. ASSUME NEW i \in Ids, SessionOf(i) # new, SessionOf(i) = old \/ Marked(t, i)
      PROVE  Marked(u, i)
  <2>1. CASE SessionOf(i) = old
    <3>1. i \notin u.unseen
      BY <1>1, <1>2, <1>3, <1>6, <2>1
    <3>2. ~Present(u.rows[i])
      BY <1>1, <1>6, <2>1 DEF Present, Absent
    <3> QED BY <3>1, <3>2 DEF Marked
  <2>2. CASE SessionOf(i) # old
    <3>1. /\ i \in u.unseen <=> i \in t.unseen
          /\ i \in u.seeded <=> i \in t.seeded
          /\ u.rows[i] = t.rows[i]
      BY <1>1, <1>2, <1>3, <1>6, <2>2
    <3> QED BY <1>6, <2>2, <3>1 DEF Marked
  <2> QED BY <2>1, <2>2
<1>7. ASSUME Filed(t, new) = {}, NEW i \in Ids, SessionOf(i) = new, Marked(t, Under(old, i))
      PROVE  Marked(u, i)
  <2> DEFINE was == Under(old, i)
  <2>1. was \in Ids /\ SessionOf(was) = old
    BY UnderIsId
  <2>2. ~Present(t.rows[i]) /\ i \notin t.unseen /\ i \notin t.seeded
    BY <1>7 DEF Filed
  <2>3. /\ i \in u.unseen <=> was \in t.unseen
        /\ i \in u.seeded <=> was \in t.seeded
    BY <1>1, <1>2, <1>3, <1>7, <2>2
  <2>4. CASE hasMap
    <3>1. u.rows[i] = t.rows[was]
      BY <1>1, <1>7, <2>4
    <3> QED BY <1>7, <2>3, <3>1 DEF Marked
  <2>5. CASE ~hasMap
    <3>1. ~Present(t.rows[was]) /\ ~Present(u.rows[i])
      BY <1>1, <2>1, <2>2, <2>5
    <3> QED BY <1>7, <2>3, <3>1 DEF Marked
  <2> QED BY <2>4, <2>5
<1> QED BY <1>5, <1>6, <1>7

-----------------------------------------------------------------------------
(* The inductive invariant: everything but the tracker has its type, the     *)
(* tracker is sane, and the keys of every name that no rename reused are    *)
(* marked truly.                                                            *)
Frame ==
    /\ clock \in Times
    /\ names \in [Sessions -> {"free", "live", "ended"}]
    /\ event \in [report : Reports, applied : BOOLEAN] \cup {NoReport}
    /\ snapshot \in [report : Reports, applied : BOOLEAN,
                     pane : Panes \cup {NoPane}] \cup {NoReport}
    /\ pass \in [panes : SUBSET ListedPanes, todo : SUBSET ListedPanes] \cup {NoPass}
    /\ renaming \in (Sessions \X Sessions) \cup {NoRename}
    /\ reused \subseteq Sessions
    /\ seeding \in {"before", "holding", "done"}
    /\ budget \in [event : 0..MaxEvents, snapshot : 0..MaxSnapshots,
                   seed : 0..MaxSeeds, change : 0..MaxChanges]
Tracked == /\ tracker \in SaneTrackers
           /\ \A i \in Ids : SessionOf(i) \notin reused => Marked(tracker, i)
IInv == Frame /\ Tracked

(* The invariant gives the four properties the runs check.                  *)
LEMMA InvariantSuffices ==
  ASSUME IInv
  PROVE  /\ TypeOK
         /\ HibernatedHasNoPane
         /\ BoundMeansAlive
         /\ UnseenMeansFinished
<1>1. tracker \in SaneTrackers
  BY DEF IInv, Tracked
<1>2. \A i \in Ids : /\ tracker.rows[i] \in Rows
                     /\ tracker.rows[i].ts <= clock
                     /\ Bound(tracker.rows[i]) => Alive(tracker.rows[i])
                     /\ tracker.rows[i].status = "hibernated" =>
                           ~Bound(tracker.rows[i]) /\ ~Alive(tracker.rows[i])
  BY <1>1, RowFields DEF SaneRows
<1>3. tracker \in Trackers
  <2>1. SaneRows \subseteq Rows
    BY DEF SaneRows
  <2> QED BY <1>1, <2>1 DEF SaneTrackers, Trackers
<1>4. TypeOK
  BY <1>2, <1>3 DEF IInv, Frame, TypeOK
<1>5. HibernatedHasNoPane /\ BoundMeansAlive
  BY <1>2 DEF HibernatedHasNoPane, BoundMeansAlive, Row
<1>6. UnseenMeansFinished
  BY DEF UnseenMeansFinished, IInv, Tracked, Marked, Row
<1> QED BY <1>4, <1>5, <1>6

(* A method that keeps the tracker, with neither a rename nor time passing.  *)
LEMMA KeptIsTracked ==
  ASSUME IInv, Keeps(tracker, tracker'), clock' = clock, reused' = reused
  PROVE  Tracked'
<1>1. tracker' \in SaneTrackers
  BY DEF Keeps
<1>2. SaneTrackers' = SaneTrackers
  BY DEF SaneTrackers, SaneRows
<1>3. \A i \in Ids : SessionOf(i) \notin reused' => Marked(tracker, i)'
  BY DEF Keeps, IInv, Tracked, Marked
<1> QED BY <1>1, <1>2, <1>3 DEF Tracked

(* Doing nothing to the tracker keeps it.                                   *)
LEMMA UnchangedKeeps ==
  ASSUME IInv, tracker' = tracker
  PROVE  Keeps(tracker, tracker')
  BY DEF IInv, Tracked, Keeps

(* An input of any kind lowers the budget by one and no further than zero.  *)
LEMMA SpendTyped ==
  ASSUME Frame, NEW kind \in {"event", "snapshot", "seed", "change"}, Spend(kind)
  PROVE  budget' \in [event : 0..MaxEvents, snapshot : 0..MaxSnapshots,
                      seed : 0..MaxSeeds, change : 0..MaxChanges]
  BY TrackerAssumption DEF Frame, Spend

(* The server starts with an empty tracker.                                 *)
LEMMA InitInvariant == Init => IInv
<1> SUFFICES ASSUME Init PROVE IInv
  OBVIOUS
<1>1. Frame
  BY TrackerAssumption DEF Init, Frame, Times
<1>2. /\ tracker.rows = [i \in Ids |-> Absent]
      /\ tracker.unseen = {} /\ tracker.seeded = {}
      /\ tracker \in SaneTrackers
  BY <1>1, AbsentIsSane DEF Init, NewTracker, SaneTrackers, Frame
<1>3. \A i \in Ids : Marked(tracker, i)
  BY <1>2 DEF Marked, Absent, Present
<1> QED BY <1>1, <1>2, <1>3 DEF IInv, Tracked

(* The rows a pane shows are keys.                                          *)
LEMMA PaneRowsAreIds ==
  ASSUME NEW t, NEW s, NEW p
  PROVE  PaneRows(t, s, p) \in SUBSET Ids
  BY DEF PaneRows

(* Events, snapshots and seeds, at each of the points where they wait.      *)
LEMMA IngestionInvariant ==
  ASSUME IInv, Ingestion
  PROVE  IInv'
<1> USE DEF IInv
<1>0. clock \in Times /\ tracker \in SaneTrackers
  BY DEF Frame, Tracked
<1>1. ASSUME NEW report \in Reports, EventResolve(report) PROVE IInv'
  <2>1. Frame'
    BY <1>1, SpendTyped DEF EventResolve, Frame
  <2> QED BY <1>1, <2>1, UnchangedKeeps, KeptIsTracked DEF EventResolve
<1>2. ASSUME NEW report \in Reports, SnapshotCheck(report) PROVE IInv'
  <2>1. (IF report.pane # NoPane THEN report.pane ELSE tracker.rows[report.id].pane)
           \in Panes \cup {NoPane}
    <3>1. tracker.rows[report.id].pane \in Panes \cup {NoPane}
      BY <1>0, ReportFields, RowFields DEF Rows
    <3> QED BY <3>1, ReportFields
  <2>2. Frame'
    BY <1>2, <2>1, SpendTyped DEF SnapshotCheck, Frame
  <2> QED BY <1>2, <2>2, UnchangedKeeps, KeptIsTracked DEF SnapshotCheck
<1>3. ASSUME NEW report \in Reports, Seed(report) PROVE IInv'
  <2>1. Frame'
    BY <1>3, SpendTyped DEF Seed, Frame
  <2>2. Keeps(tracker, tracker')
    BY <1>0, <1>3, ApplySeedKeeps DEF Seed
  <2> QED BY <1>3, <2>1, <2>2, KeptIsTracked DEF Seed
<1>4. CASE EventApply
  <2>1. event \in [report : Reports, applied : BOOLEAN]
    BY <1>4 DEF EventApply, Frame
  <2>2. Frame'
    BY <1>4, <2>1 DEF EventApply, Update, Frame
  <2>3. Keeps(tracker, tracker')
    BY <1>0, <1>4, <2>1, ApplyEventKeeps DEF EventApply, Update
  <2> QED BY <1>4, <2>2, <2>3, KeptIsTracked DEF EventApply
<1>5. CASE EventSeen
  <2>1. Frame'
    BY <1>5 DEF EventSeen, Frame
  <2>2. Keeps(tracker, tracker')
    BY <1>0, <1>5, UnchangedKeeps, MarkSeenKeeps, PaneRowsAreIds DEF EventSeen, Update
  <2> QED BY <1>5, <2>1, <2>2, KeptIsTracked DEF EventSeen
<1>6. CASE SnapshotApply
  <2>1. snapshot \in [report : Reports, applied : BOOLEAN, pane : Panes \cup {NoPane}]
    BY <1>6 DEF SnapshotApply, Frame
  <2>2. Frame'
    BY <1>6, <2>1 DEF SnapshotApply, Update, Frame
  <2>3. Keeps(tracker, tracker')
    BY <1>0, <1>6, <2>1, ApplyEventKeeps DEF SnapshotApply, Update
  <2> QED BY <1>6, <2>2, <2>3, KeptIsTracked DEF SnapshotApply
<1>7. CASE SnapshotSeen
  <2>1. Frame'
    BY <1>7 DEF SnapshotSeen, Frame
  <2>2. Keeps(tracker, tracker')
    BY <1>0, <1>7, UnchangedKeeps, MarkSeenKeeps, PaneRowsAreIds DEF SnapshotSeen, Update
  <2> QED BY <1>7, <2>1, <2>2, KeptIsTracked DEF SnapshotSeen
<1>8. CASE SeedsBegin \/ SeedsEnd
  <2>1. Frame' /\ tracker' = tracker /\ clock' = clock /\ reused' = reused
    BY <1>8 DEF SeedsBegin, SeedsEnd, Frame
  <2> QED BY <2>1, UnchangedKeeps, KeptIsTracked
<1>9. ASSUME NEW a \in Agents, NEW thread \in Threads, NEW activity \in Times,
             ReleaseSeeds(a, thread, activity)
      PROVE  IInv'
  <2>1. Frame'
    BY <1>9 DEF ReleaseSeeds, Frame
  <2>2. Outlived(tracker, a, thread, activity) \in SUBSET Ids
    BY <1>0 DEF Outlived, SaneTrackers
  <2>3. Keeps(tracker, tracker')
    BY <1>0, <1>9, <2>2, DiscardKeeps DEF ReleaseSeeds, Update
  <2> QED BY <1>9, <2>1, <2>3, KeptIsTracked DEF ReleaseSeeds
<1> QED BY <1>1, <1>2, <1>3, <1>4, <1>5, <1>6, <1>7, <1>8, <1>9 DEF Ingestion

(* A presence pass, one listed pane after the other.                        *)
LEMMA PresenceInvariant ==
  ASSUME IInv, Presence
  PROVE  IInv'
<1> USE DEF IInv
<1>0. clock \in Times /\ tracker \in SaneTrackers
  BY DEF Frame, Tracked
<1>1. ASSUME NEW listed \in SUBSET Sessions, NEW panes \in SUBSET ListedPanes,
             PassBegin(listed, panes)
      PROVE  IInv'
  <2>1. Frame'
    BY <1>1 DEF PassBegin, Frame
  <2>2. Keeps(tracker, tracker')
    BY <1>0, <1>1, UnbindGoneKeeps DEF PassBegin, Update
  <2> QED BY <1>1, <2>1, <2>2, KeptIsTracked DEF PassBegin
<1>2. ASSUME NEW p \in ListedPanes, PassPane(p) PROVE IInv'
  <2>1. Frame'
    BY <1>2 DEF PassPane, Frame
  <2>2. Keeps(tracker, tracker')
    BY <1>0, <1>2, PlacePaneKeeps DEF PassPane
  <2> QED BY <1>2, <2>1, <2>2, KeptIsTracked DEF PassPane
<1>3. CASE PassEnd
  <2>1. Frame'
    BY <1>3 DEF PassEnd, Frame
  <2>2. PICK focused : tracker' = MarkSeen(tracker,
                           UNION {PaneRows(tracker, p.session, p.pane) : p \in focused})
    BY <1>3 DEF PassEnd
  <2>3. UNION {PaneRows(tracker, p.session, p.pane) : p \in focused} \in SUBSET Ids
    BY PaneRowsAreIds
  <2>4. Keeps(tracker, tracker')
    BY <1>0, <2>2, <2>3, MarkSeenKeeps
  <2> QED BY <1>3, <2>1, <2>4, KeptIsTracked DEF PassEnd
<1> QED BY <1>1, <1>2, <1>3 DEF Presence

(* What the user does: look, and start, end and rename sessions.            *)
LEMMA UserInvariant ==
  ASSUME IInv, User
  PROVE  IInv'
<1> USE DEF IInv
<1>0. clock \in Times /\ tracker \in SaneTrackers
  BY DEF Frame, Tracked
<1>1. ASSUME NEW s \in Sessions, NEW p \in Panes, SeePane(s, p) PROVE IInv'
  <2>1. Frame'
    BY <1>1 DEF SeePane, Frame
  <2>2. Keeps(tracker, tracker')
    BY <1>0, <1>1, MarkSeenKeeps, PaneRowsAreIds DEF SeePane, Update
  <2> QED BY <1>1, <2>1, <2>2, KeptIsTracked DEF SeePane
<1>2. ASSUME NEW s \in Sessions, NEW a \in Agents, NEW thread \in Threads \cup {NoThread},
             NEW p \in Panes \cup {NoPane}, SeeAgent(s, a, thread, p)
      PROVE  IInv'
  <2>1. Frame'
    BY <1>2 DEF SeeAgent, Frame
  <2>2. AgentRows(tracker, s, a, thread, p) \in SUBSET Ids
    BY DEF AgentRows, PaneRows, Ids
  <2>3. Keeps(tracker, tracker')
    BY <1>0, <1>2, <2>2, MarkSeenKeeps DEF SeeAgent, Update
  <2> QED BY <1>2, <2>1, <2>3, KeptIsTracked DEF SeeAgent
<1>3. ASSUME NEW s \in Sessions, SessionStarts(s) \/ SessionEnds(s) PROVE IInv'
  <2>1. Frame'
    BY <1>3, SpendTyped DEF SessionStarts, SessionEnds, Frame
  <2>2. tracker' = tracker /\ clock' = clock /\ reused' = reused
    BY <1>3 DEF SessionStarts, SessionEnds
  <2> QED BY <2>1, <2>2, UnchangedKeeps, KeptIsTracked
<1>4. ASSUME NEW old \in Sessions, NEW new \in Sessions, RenameSession(old, new) PROVE IInv'
  <2>1. Frame'
    BY <1>4, SpendTyped DEF RenameSession, Frame
  <2> QED BY <1>4, <2>1, UnchangedKeeps, KeptIsTracked DEF RenameSession
<1> QED BY <1>1, <1>2, <1>3, <1>4 DEF User

(* The references of a rename, which may file what they move over the        *)
(* entries of an ended session: from then on that name is reused.           *)
LEMMA RenameInvariant ==
  ASSUME IInv, RenameReferences
  PROVE  IInv'
<1> USE DEF IInv
<1>1. PICK old \in Sessions, new \in Sessions : renaming = <<old, new>>
  BY DEF RenameReferences, Frame
<1>2. PICK hasMap \in BOOLEAN :
         /\ (\E i \in Ids : SessionOf(i) = old /\ Present(tracker.rows[i])) => hasMap
         /\ tracker' = Rename(tracker, old, new, hasMap)
  BY <1>1 DEF RenameReferences, Update
<1>3. reused' = IF Filed(tracker, new) # {} \/ old \in reused
                THEN reused \cup {new} ELSE reused
  BY <1>1 DEF RenameReferences
<1>4. Frame'
  BY <1>1, <1>3 DEF RenameReferences, Frame
<1>5. clock \in Times /\ tracker \in SaneTrackers
  BY DEF Frame, Tracked
<1>6. /\ tracker' \in SaneTrackers
      /\ \A i \in Ids : SessionOf(i) # new /\ (SessionOf(i) = old \/ Marked(tracker, i))
                           => Marked(tracker', i)
      /\ Filed(tracker, new) = {} =>
            \A i \in Ids : SessionOf(i) = new /\ Marked(tracker, Under(old, i))
                              => Marked(tracker', i)
  BY <1>2, <1>5, RenameMarks
<1>7. SaneTrackers' = SaneTrackers
  BY DEF SaneTrackers, SaneRows, RenameReferences
<1>8. ASSUME NEW i \in Ids, SessionOf(i) \notin reused' PROVE Marked(tracker', i)
  <2>1. CASE SessionOf(i) = new
    <3>1. Filed(tracker, new) = {} /\ old \notin reused
      BY <1>3, <1>8, <2>1
    <3>2. Marked(tracker, Under(old, i))
      BY <3>1, UnderIsId DEF Tracked
    <3> QED BY <1>6, <2>1, <3>1, <3>2
  <2>2. CASE SessionOf(i) # new
    <3>1. SessionOf(i) \notin reused
      BY <1>3, <1>8
    <3> QED BY <1>6, <2>2, <3>1 DEF Tracked
  <2> QED BY <2>1, <2>2
<1>9. Tracked'
  BY <1>6, <1>7, <1>8 DEF Tracked, Marked
<1> QED BY <1>4, <1>9

(* Aging, hibernation, renames and the passing of time.                     *)
LEMMA HousekeepingInvariant ==
  ASSUME IInv, Housekeeping
  PROVE  IInv'
<1> USE DEF IInv
<1>0. clock \in Times /\ tracker \in SaneTrackers
  BY DEF Frame, Tracked
<1>1. CASE AgeRunning
  <2>1. Frame' /\ Keeps(tracker, tracker')
    BY <1>0, <1>1, PruneStuckKeeps DEF AgeRunning, Update, Frame
  <2> QED BY <1>1, <2>1, KeptIsTracked DEF AgeRunning
<1>2. CASE AgeFinished
  <2>1. Frame' /\ Keeps(tracker, tracker')
    BY <1>0, <1>2, PruneTerminalKeeps DEF AgeFinished, Update, Frame
  <2> QED BY <1>2, <2>1, KeptIsTracked DEF AgeFinished
<1>3. ASSUME NEW i \in Ids, Hibernate(i) PROVE IInv'
  <2>1. Frame' /\ Keeps(tracker, tracker')
    BY <1>0, <1>3, MarkHibernatedKeeps DEF Hibernate, Update, Frame
  <2> QED BY <1>3, <2>1, KeptIsTracked DEF Hibernate
<1>4. CASE Tick
  <2>1. Frame'
    BY <1>4, TrackerAssumption DEF Tick, Frame, Times
  <2>2. \A r : r \in SaneRows => r \in SaneRows'
    BY <1>0, <1>4, TrackerAssumption DEF Tick, SaneRows, Rows, Times
  <2>3. tracker' \in SaneTrackers'
    BY <1>0, <1>4, <2>2 DEF Tick, SaneTrackers
  <2>4. \A i \in Ids : SessionOf(i) \notin reused' => Marked(tracker, i)'
    BY <1>4 DEF Tick, Tracked, Marked
  <2> QED BY <2>1, <2>3, <2>4 DEF Tracked
<1> QED BY <1>1, <1>2, <1>3, <1>4, RenameInvariant DEF Housekeeping

(* Every step keeps the invariant.                                          *)
LEMMA NextInvariant == IInv /\ [Next]_vars => IInv'
<1> SUFFICES ASSUME IInv, [Next]_vars PROVE IInv'
  OBVIOUS
<1>1. CASE UNCHANGED vars
  <2>1. Frame' /\ tracker' = tracker /\ clock' = clock /\ reused' = reused
    BY <1>1 DEF vars, Frame, IInv
  <2> QED BY <2>1, UnchangedKeeps, KeptIsTracked DEF IInv
<1>2. CASE Next
  BY <1>2, IngestionInvariant, PresenceInvariant, UserInvariant, HousekeepingInvariant
  DEF Next
<1> QED BY <1>1, <1>2

(* The tracker stays sane and truly marked in every behaviour.              *)
THEOREM TrackerInvariant == Spec => []IInv
  BY InitInvariant, NextInvariant, PTL DEF Spec

-----------------------------------------------------------------------------
(* Every variable has its type, and no row is dated after the present.      *)
THEOREM TrackerTypeCorrect == Spec => []TypeOK
<1>1. IInv => TypeOK
  BY InvariantSuffices
<1> QED BY <1>1, TrackerInvariant, PTL

(* A row with a pane is alive, so presence finds it when the pane goes       *)
(* (apply_pane_presence unbinds rows that are alive, and no others).        *)
THEOREM BoundRowsAreAlive == Spec => []BoundMeansAlive
<1>1. IInv => BoundMeansAlive
  BY InvariantSuffices
<1> QED BY <1>1, TrackerInvariant, PTL

(* A hibernated row has no pane until its thread resumes (stamp_alive,       *)
(* apply_event): no listing out of date and no seed gives it one.           *)
THEOREM HibernatedRowsHaveNoPane == Spec => []HibernatedHasNoPane
<1>1. IInv => HibernatedHasNoPane
  BY InvariantSuffices
<1> QED BY <1>1, TrackerInvariant, PTL

(* The rows shown as unseen are those whose agents finished, and the set of  *)
(* unseen keys says the same, under every name no rename reused.            *)
THEOREM UnseenRowsFinished == Spec => []UnseenMeansFinished
<1>1. IInv => UnseenMeansFinished
  BY InvariantSuffices
<1> QED BY <1>1, TrackerInvariant, PTL

-----------------------------------------------------------------------------
(* What may never happen to an unseen row.  The methods that neither look   *)
(* nor report leave every unseen row there, and unseen.                     *)
UnseenIn(t, i) == Present(t.rows[i]) /\ i \in t.unseen

Stays(t, u) == \A i \in Ids : UnseenIn(t, i) /\ Marked(t, i) => UnseenIn(u, i)

(* A row that is marked truly and unseen has finished and is no seed.        *)
LEMMA UnseenIsNoSeed ==
  ASSUME NEW t, NEW i, UnseenIn(t, i), Marked(t, i)
  PROVE  i \notin t.seeded /\ t.rows[i].status \in Terminal
  BY DEF UnseenIn, Marked

(* A method that moves no unseen key and no status leaves them all.          *)
LEMMA SameStatusStays ==
  ASSUME NEW t, NEW u, u.unseen = t.unseen,
         \A i \in Ids : Present(t.rows[i]) => Present(u.rows[i])
  PROVE  Stays(t, u)
  BY DEF Stays, UnseenIn

LEMMA DiscardLeaves ==
  ASSUME NEW t \in SaneTrackers, NEW gone \in SUBSET Ids, NEW i \in Ids, i \notin gone
  PROVE  /\ Discard(t, gone).rows[i] = t.rows[i]
         /\ i \in Discard(t, gone).unseen <=> i \in t.unseen
  BY DEF Discard, SaneTrackers

(* Superseded and outlived rows are seeds, which are not unseen.             *)
LEMMA DiscardedSeedsStay ==
  ASSUME NEW t \in SaneTrackers, NEW gone \in SUBSET Ids, gone \subseteq t.seeded
  PROVE  Stays(t, Discard(t, gone))
  BY UnseenIsNoSeed, DiscardLeaves DEF UnseenIn, Stays

(* What a report does to an unseen row: it leaves it, it is of this agent and*)
(* says that it is not finished, or it is of the thread whose row absorbs   *)
(* this provisional one and has its name.                                   *)
Takes(t, u, e, i) ==
    \/ UnseenIn(u, i)
    \/ e.id = i /\ e.status \notin Terminal
    \/ /\ e.id \in Peers(i) /\ ThreadOf(i) = NoThread /\ t.rows[i].name # NoName
       /\ Present(u.rows[e.id]) /\ u.rows[e.id].name = t.rows[i].name

LEMMA InsertTakes ==
  ASSUME clock \in Times, NEW t \in SaneTrackers, NEW e \in DatedReports,
         NEW i \in Ids, UnseenIn(t, i)
  PROVE  Takes(t, Insert(t, e), e, i)
<1> DEFINE name == IF e.name # NoName THEN e.name ELSE t.rows[e.id].name
           provisional == {j \in Peers(e.id) :
                              /\ ThreadOf(j) = NoThread /\ Present(t.rows[j])
                              /\ name # NoName /\ t.rows[j].name = name}
           absorbed == IF provisional = {} THEN Absent
                       ELSE t.rows[CHOOSE j \in provisional : TRUE]
           row == Inherited(e, t.rows[e.id], absorbed)
           displaced == {j \in Peers(e.id) : /\ Bound(row) /\ t.rows[j].pane = row.pane
                                              /\ t.rows[j].ts <= e.ts}
           u == Insert(t, e)
<1>1. /\ e.id \in Ids
      /\ provisional \subseteq Ids
  BY ReportFields DEF DatedReports, Peers
<1>2. absorbed \in SaneRows
  BY <1>1, AbsentIsSane, ChosenMember, RowFields
<1>3. row.name = name /\ Present(row)
  <2>1. row.name = name
    BY DEF Inherited
  <2>2. Present(row)
    <3> HIDE DEF absorbed
    <3> QED BY <1>1, <1>2, RowFields, InheritedRow
  <2> QED BY <2>1, <2>2
<1>4. /\ u.rows = [j \in Ids |-> IF j = e.id THEN row
                                 ELSE IF j \in provisional THEN Absent
                                 ELSE IF j \in displaced THEN Unbound(t.rows[j])
                                 ELSE t.rows[j]]
      /\ u.unseen = (t.unseen \ (provisional \cup {e.id}))
                    \cup (IF e.status \in Terminal THEN {e.id} ELSE {})
  BY DEF Insert
<1>r. u.rows[e.id] = row
  BY <1>1, <1>4
<1> HIDE DEF row, displaced, u, absorbed
<1>5. CASE i = e.id
  <2>1. CASE e.status \in Terminal
    BY <1>3, <1>4, <1>5, <1>r, <2>1 DEF UnseenIn, Takes, u
  <2>2. CASE e.status \notin Terminal
    BY <1>5, <2>2 DEF Takes
  <2> QED BY <2>1, <2>2
<1>6. CASE i # e.id /\ i \in provisional
  <2>1. e.id \in Peers(i)
    BY <1>1, <1>6 DEF Peers
  <2>2. ThreadOf(i) = NoThread /\ t.rows[i].name = name /\ name # NoName
    BY <1>6
  <2>3. u.rows[e.id].name = name /\ Present(u.rows[e.id])
    BY <1>3, <1>r
  <2> QED BY <2>1, <2>2, <2>3 DEF Takes, u
<1>7. CASE i # e.id /\ i \notin provisional
  <2>1. u.rows[i].status = t.rows[i].status
    BY <1>4, <1>7, RowFields, UnboundRow
  <2>2. i \in u.unseen
    BY <1>4, <1>7 DEF UnseenIn
  <2> QED BY <2>1, <2>2 DEF UnseenIn, Present, Takes, u
<1> QED BY <1>5, <1>6, <1>7

(* apply_event supersedes seeds and no other row.                           *)
LEMMA ApplyEventTakes ==
  ASSUME clock \in Times, NEW t \in SaneTrackers, NEW report \in Reports,
         NEW i \in Ids, UnseenIn(t, i), Marked(t, i)
  PROVE  Takes(t, ApplyEvent(t, report), report, i)
<1> DEFINE e == [report EXCEPT !.ts = IF @ > clock THEN clock ELSE @]
           cleared == [t EXCEPT !.seeded = @ \ {e.id}]
           left == Discard(cleared, Superseded(t, e))
           renamed == [t EXCEPT !.rows[e.id].name = IF e.name # NoName THEN e.name ELSE @]
<1>1. e \in DatedReports
  BY DEF DatedReports, Reports, Times
<1>2. e.id \in Ids /\ e.id = report.id /\ e.status = report.status
  BY <1>1, ReportFields DEF DatedReports, Reports
<1>3. \/ ApplyEvent(t, report) = t
      \/ ApplyEvent(t, report) = renamed
      \/ ApplyEvent(t, report) = Insert(left, e)
  BY DEF ApplyEvent
<1> HIDE DEF e
<1>4. CASE ApplyEvent(t, report) = t
  BY <1>4 DEF Takes
<1>5. CASE ApplyEvent(t, report) = renamed
  <2>1. renamed.rows[i].status = t.rows[i].status /\ renamed.unseen = t.unseen
    BY <1>2, RowFields DEF SaneTrackers, Rows
  <2> HIDE DEF renamed
  <2> QED BY <1>5, <2>1 DEF UnseenIn, Present, Takes
<1>6. CASE ApplyEvent(t, report) = Insert(left, e)
  <2>1. cleared \in SaneTrackers /\ cleared.rows = t.rows /\ cleared.unseen = t.unseen
    BY DEF SaneTrackers
  <2>2. Superseded(t, e) \subseteq t.seeded /\ Superseded(t, e) \in SUBSET Ids
    BY DEF Superseded, Peers
  <2> HIDE DEF cleared
  <2>3. left \in SaneTrackers
    BY <2>1, <2>2, DiscardKeeps DEF Keeps
  <2>4. i \notin Superseded(t, e)
    BY <2>2, UnseenIsNoSeed
  <2>5. left.rows[i] = t.rows[i] /\ i \in left.unseen
    BY <2>1, <2>2, <2>4, DiscardLeaves DEF UnseenIn
  <2> HIDE DEF left
  <2>6. UnseenIn(left, i)
    BY <2>5 DEF UnseenIn
  <2>7. Takes(left, Insert(left, e), e, i)
    BY <1>1, <2>3, <2>6, InsertTakes
  <2> QED BY <1>2, <1>6, <2>5, <2>7 DEF Takes
<1> QED BY <1>3, <1>4, <1>5, <1>6

(* mark_pane_seen and mark_agent_seen take the marks of the rows they are    *)
(* about, mark_hibernated that of its row, and no others.                   *)
LEMMA MarkSeenStays ==
  ASSUME NEW t \in SaneTrackers, NEW seen \in SUBSET Ids,
         NEW i \in Ids, UnseenIn(t, i), i \notin seen
  PROVE  UnseenIn(MarkSeen(t, seen), i)
  BY DEF MarkSeen, SaneTrackers, UnseenIn

LEMMA MarkHibernatedStays ==
  ASSUME NEW t \in SaneTrackers, NEW j \in Ids, NEW i \in Ids, UnseenIn(t, i), i # j
  PROVE  UnseenIn(MarkHibernated(t, j), i)
  BY DEF MarkHibernated, SaneTrackers, UnseenIn

LEMMA ApplySeedStays ==
  ASSUME NEW t \in SaneTrackers, NEW report \in Reports
  PROVE  Stays(t, ApplySeed(t, report))
<1>1. report.id \in Ids /\ report.status # "absent"
  BY ReportFields
<1>2. CASE Conflicts(t, report) = {}
  <2>1. ASSUME NEW i \in Ids, Present(t.rows[i]) PROVE Present(ApplySeed(t, report).rows[i])
    BY <1>1, <1>2, <2>1 DEF ApplySeed, SaneTrackers, Present
  <2>2. ApplySeed(t, report).unseen = t.unseen
    BY <1>2 DEF ApplySeed, SaneTrackers
  <2> QED BY <2>1, <2>2, SameStatusStays
<1>3. CASE Conflicts(t, report) # {}
  BY <1>3, SameStatusStays DEF ApplySeed
<1> QED BY <1>2, <1>3

LEMMA UnbindGoneStays ==
  ASSUME NEW t \in SaneTrackers, NEW listed, NEW panes
  PROVE  Stays(t, UnbindGone(t, listed, panes))
<1>1. /\ \A i \in Ids : UnbindGone(t, listed, panes).rows[i] \in {t.rows[i], Unbound(t.rows[i])}
      /\ UnbindGone(t, listed, panes).unseen = t.unseen
  BY DEF UnbindGone, SaneTrackers
<1>2. \A i \in Ids : Unbound(t.rows[i]).status = t.rows[i].status
  BY RowFields, UnboundRow
<1> QED BY <1>1, <1>2, SameStatusStays DEF Present

LEMMA StampAliveStays ==
  ASSUME NEW t \in SaneTrackers, NEW i \in Ids, NEW pane
  PROVE  Stays(t, StampAlive(t, i, pane))
<1> DEFINE u == [t EXCEPT !.rows[i].pane = pane, !.rows[i].live = "alive"]
<1>1. u.unseen = t.unseen /\ \A j \in Ids : u.rows[j].status = t.rows[j].status
  BY RowFields DEF SaneTrackers, Rows
<1>2. StampAlive(t, i, pane) \in {t, u}
  BY DEF StampAlive
<1> HIDE DEF u
<1> QED BY <1>1, <1>2, SameStatusStays DEF Present

LEMMA PlacePaneStays ==
  ASSUME NEW t \in SaneTrackers, NEW p \in ListedPanes, NEW panes
  PROVE  Stays(t, PlacePane(t, p, panes))
<1>1. PlacePane(t, p, panes) = t \/ \E i \in Ids : PlacePane(t, p, panes) = StampAlive(t, i, p.pane)
  BY PlacedRow
<1>2. Stays(t, t)
  BY SameStatusStays
<1> QED BY <1>1, <1>2, StampAliveStays

(* The prunes pass over what is unseen: prune_stuck removes rows that run,   *)
(* prune_terminal those whose key is not unseen.                            *)
LEMMA PruneStuckStays ==
  ASSUME NEW t \in SaneTrackers
  PROVE  Stays(t, PruneStuck(t))
<1> DEFINE alive == {i \in Stuck(t) : Alive(t.rows[i])}
           kept  == [t EXCEPT !.rows = [i \in Ids |-> IF i \in alive
                                                      THEN [@[i] EXCEPT !.status = "stale"]
                                                      ELSE @[i]]]
<1>1. ASSUME NEW i \in Ids, UnseenIn(t, i), Marked(t, i)
      PROVE  UnseenIn(PruneStuck(t), i)
  <2>1. i \notin Stuck(t)
    BY <1>1, UnseenIsNoSeed DEF Stuck, Terminal
  <2>2. i \notin alive /\ i \notin Stuck(t) \ alive
    BY <2>1
  <2>3. kept.rows[i] = t.rows[i]
    <3> HIDE DEF alive
    <3> QED BY <2>2 DEF SaneTrackers
  <2>4. PruneStuck(t).rows[i] = kept.rows[i]
    BY <2>2 DEF PruneStuck, Discard
  <2>5. PruneStuck(t).unseen = t.unseen \ (Stuck(t) \ alive)
    BY DEF PruneStuck, Discard, SaneTrackers
  <2> QED BY <1>1, <2>2, <2>3, <2>4, <2>5 DEF UnseenIn
<1> QED BY <1>1 DEF Stays

LEMMA PruneTerminalStays ==
  ASSUME NEW t \in SaneTrackers
  PROVE  Stays(t, PruneTerminal(t))
<1>1. ASSUME NEW i \in Ids, UnseenIn(t, i)
      PROVE  PruneTerminal(t).rows[i] = t.rows[i] /\ PruneTerminal(t).unseen = t.unseen
  <2>1. i \notin Finished(t)
    BY <1>1 DEF Finished, UnseenIn
  <2> QED BY <2>1 DEF PruneTerminal, SaneTrackers
<1> QED BY <1>1 DEF UnseenIn, Stays

-----------------------------------------------------------------------------
(* What a step may do to an unseen row, as UnseenIsNotLost says.            *)
Rightly(i) == \/ UnseenIn(tracker', i) \/ UserLooks(i) \/ GoesOn(i) \/ Absorbed(i)
              \/ Hibernate(i) \/ CarriedAlong(i)

(* News that was applied waits to be seen only if it came with a pane.       *)
Placed == /\ event # NoReport /\ event.applied => event.report.pane # NoPane
          /\ snapshot # NoReport /\ snapshot.applied => snapshot.pane # NoPane

LEMMA NewsIsPlaced ==
  ASSUME IInv, Placed, [Next]_vars PROVE Placed'
<1>0. Frame
  BY DEF IInv
<1>1. CASE Ingestion
  <2>1. ASSUME NEW report \in Reports,
               EventResolve(report) \/ SnapshotCheck(report) \/ Seed(report)
        PROVE  Placed'
    BY <2>1 DEF EventResolve, SnapshotCheck, Seed, Placed
  <2>2. CASE EventApply \/ EventSeen
    BY <1>0, <2>2 DEF EventApply, EventSeen, Placed, Frame
  <2>3. CASE SnapshotApply \/ SnapshotSeen
    BY <1>0, <2>3 DEF SnapshotApply, SnapshotSeen, Placed, Frame
  <2>4. CASE SeedsBegin \/ SeedsEnd
    BY <2>4 DEF SeedsBegin, SeedsEnd, Placed
  <2>5. ASSUME NEW a \in Agents, NEW thread \in Threads, NEW activity \in Times,
               ReleaseSeeds(a, thread, activity)
        PROVE  Placed'
    BY <2>5 DEF ReleaseSeeds, Placed
  <2> QED BY <1>1, <2>1, <2>2, <2>3, <2>4, <2>5 DEF Ingestion
<1>2. CASE Presence
  BY <1>2 DEF Presence, PassBegin, PassPane, PassEnd, Placed
<1>3. CASE User
  BY <1>3 DEF User, SeePane, SeeAgent, SessionStarts, SessionEnds, RenameSession, Placed
<1>4. CASE Housekeeping
  BY <1>4 DEF Housekeeping, AgeRunning, AgeFinished, RenameReferences, Tick, Hibernate, Placed
<1>5. CASE UNCHANGED vars
  BY <1>5 DEF vars, Placed
<1> QED BY <1>1, <1>2, <1>3, <1>4, <1>5 DEF Next

LEMMA AppliedReport ==
  ASSUME NEW report \in Reports, Applied(report),
         tracker' = ApplyEvent(tracker, report), IInv,
         NEW i \in Ids, UnseenIn(tracker, i), Marked(tracker, i)
  PROVE  Rightly(i)
<1>1. clock \in Times /\ tracker \in SaneTrackers
  BY DEF IInv, Frame, Tracked
<1>2. Takes(tracker, tracker', report, i)
  BY <1>1, ApplyEventTakes
<1> QED BY <1>2 DEF Takes, Rightly, GoesOn, Absorbed, Row

(* The rows in a pane are those the user sees when he looks at it.          *)
LEMMA PaneLookedAt ==
  ASSUME NEW i \in Ids, NEW s, NEW p \in Panes, i \in PaneRows(tracker, s, p)
  PROVE  s = SessionOf(i) /\ Bound(Row(i)) /\ p = Row(i).pane
  BY TrackerAssumption DEF PaneRows, Bound, Row

LEMMA IngestionIsRight ==
  ASSUME IInv, Placed, Ingestion, NEW i \in Ids, UnseenIn(tracker, i), Marked(tracker, i)
  PROVE  Rightly(i)
<1>0. clock \in Times /\ tracker \in SaneTrackers /\ Frame
  BY DEF IInv, Frame, Tracked
<1>1. ASSUME tracker' = tracker PROVE Rightly(i)
  BY <1>1 DEF Rightly
<1>s. ASSUME Stays(tracker, tracker') PROVE Rightly(i)
  BY <1>s DEF Rightly, Stays
<1>2. ASSUME NEW report \in Reports,
             EventResolve(report) \/ SnapshotCheck(report) \/ Seed(report)
      PROVE  Rightly(i)
  BY <1>0, <1>1, <1>2, <1>s, ApplySeedStays DEF EventResolve, SnapshotCheck, Seed
<1>3. CASE EventApply
  <2>1. event.report \in Reports /\ tracker' = ApplyEvent(tracker, event.report)
    BY <1>0, <1>3 DEF EventApply, Frame, Update
  <2> QED BY <1>3, <2>1, AppliedReport DEF Applied
<1>4. CASE SnapshotApply
  <2>1. snapshot.report \in Reports /\ tracker' = ApplyEvent(tracker, snapshot.report)
    BY <1>0, <1>4 DEF SnapshotApply, Frame, Update
  <2> QED BY <1>4, <2>1, AppliedReport DEF Applied
<1>5. CASE EventSeen
  <2> DEFINE seen == PaneRows(tracker, SessionOf(event.report.id), event.report.pane)
  <2>1. \/ tracker' = tracker
        \/ tracker' = MarkSeen(tracker, seen)
    BY <1>5 DEF EventSeen, Update
  <2>2. event.report.pane # NoPane /\ event.report.pane \in Panes \cup {NoPane}
    BY <1>0, <1>5 DEF EventSeen, Frame, Reports, Placed
  <2>3. CASE i \in seen
    BY <1>5, <2>2, <2>3, PaneLookedAt DEF Rightly, UserLooks
  <2>4. CASE i \notin seen
    BY <1>0, <1>1, <2>1, <2>4, MarkSeenStays, PaneRowsAreIds DEF Rightly
  <2> QED BY <2>3, <2>4
<1>6. CASE SnapshotSeen
  <2> DEFINE seen == PaneRows(tracker, SessionOf(snapshot.report.id), snapshot.pane)
  <2>1. \/ tracker' = tracker
        \/ tracker' = MarkSeen(tracker, seen)
    BY <1>6 DEF SnapshotSeen, Update
  <2>2. snapshot.pane # NoPane /\ snapshot.pane \in Panes \cup {NoPane}
    BY <1>0, <1>6 DEF SnapshotSeen, Frame, Placed
  <2>3. CASE i \in seen
    BY <1>6, <2>2, <2>3, PaneLookedAt DEF Rightly, UserLooks
  <2>4. CASE i \notin seen
    BY <1>0, <1>1, <2>1, <2>4, MarkSeenStays, PaneRowsAreIds DEF Rightly
  <2> QED BY <2>3, <2>4
<1>7. CASE SeedsBegin \/ SeedsEnd
  BY <1>1, <1>7 DEF SeedsBegin, SeedsEnd
<1>8. ASSUME NEW a \in Agents, NEW thread \in Threads, NEW activity \in Times,
             ReleaseSeeds(a, thread, activity)
      PROVE  Rightly(i)
  <2>1. /\ Outlived(tracker, a, thread, activity) \subseteq tracker.seeded
        /\ Outlived(tracker, a, thread, activity) \in SUBSET Ids
    BY <1>0 DEF Outlived, SaneTrackers
  <2> QED BY <1>0, <1>8, <1>s, <2>1, DiscardedSeedsStay DEF ReleaseSeeds, Update
<1> QED BY <1>2, <1>3, <1>4, <1>5, <1>6, <1>7, <1>8 DEF Ingestion

LEMMA PresenceIsRight ==
  ASSUME IInv, Presence, NEW i \in Ids, UnseenIn(tracker, i), Marked(tracker, i)
  PROVE  Rightly(i)
<1>0. tracker \in SaneTrackers /\ Frame
  BY DEF IInv, Frame, Tracked
<1>s. ASSUME Stays(tracker, tracker') PROVE Rightly(i)
  BY <1>s DEF Rightly, Stays
<1>1. ASSUME NEW listed \in SUBSET Sessions, NEW panes \in SUBSET ListedPanes,
             PassBegin(listed, panes)
      PROVE  Rightly(i)
  BY <1>0, <1>1, <1>s, UnbindGoneStays DEF PassBegin, Update
<1>2. ASSUME NEW p \in ListedPanes, PassPane(p) PROVE Rightly(i)
  BY <1>0, <1>2, <1>s, PlacePaneStays DEF PassPane
<1>3. CASE PassEnd
  <2>1. PICK focused \in SUBSET pass.panes :
               tracker' = MarkSeen(tracker,
                             UNION {PaneRows(tracker, p.session, p.pane) : p \in focused})
    BY <1>3 DEF PassEnd
  <2> DEFINE seen == UNION {PaneRows(tracker, p.session, p.pane) : p \in focused}
  <2>2. seen \in SUBSET Ids
    BY PaneRowsAreIds
  <2>3. pass.panes \subseteq ListedPanes
    BY <1>0, <1>3 DEF PassEnd, Frame
  <2>4. CASE i \in seen
    <3>1. PICK p \in focused : i \in PaneRows(tracker, p.session, p.pane)
      BY <2>4
    <3>2. p \in pass.panes /\ p.pane \in Panes
      BY <2>3 DEF ListedPanes
    <3> QED BY <1>3, <3>1, <3>2, PaneLookedAt DEF Rightly, UserLooks
  <2>5. CASE i \notin seen
    BY <1>0, <2>1, <2>2, <2>5, MarkSeenStays DEF Rightly
  <2> QED BY <2>4, <2>5
<1> QED BY <1>1, <1>2, <1>3 DEF Presence

LEMMA UserIsRight ==
  ASSUME IInv, User, NEW i \in Ids, UnseenIn(tracker, i), Marked(tracker, i)
  PROVE  Rightly(i)
<1>0. tracker \in SaneTrackers
  BY DEF IInv, Tracked
<1>1. ASSUME NEW s \in Sessions, NEW p \in Panes, SeePane(s, p)
      PROVE  Rightly(i)
  <2>1. CASE i \in PaneRows(tracker, s, p)
    BY <1>1, <2>1, PaneLookedAt DEF Rightly, UserLooks
  <2>2. CASE i \notin PaneRows(tracker, s, p)
    BY <1>0, <1>1, <2>2, MarkSeenStays, PaneRowsAreIds DEF SeePane, Update, Rightly
  <2> QED BY <2>1, <2>2
<1>2. ASSUME NEW s \in Sessions, NEW a \in Agents, NEW thread \in Threads \cup {NoThread},
             NEW p \in Panes \cup {NoPane}, SeeAgent(s, a, thread, p)
      PROVE  Rightly(i)
  <2>1. AgentRows(tracker, s, a, thread, p) \in SUBSET Ids
    BY DEF AgentRows, PaneRows, Ids
  <2>2. CASE i \in AgentRows(tracker, s, a, thread, p)
    <3>1. /\ s = SessionOf(i) /\ a = AgentOf(i)
          /\ thread = ThreadOf(i) \/ p = Row(i).pane
      BY <2>2 DEF AgentRows, PaneRows, SessionOf, AgentOf, ThreadOf, Row
    <3> QED BY <1>2, <3>1 DEF Rightly, UserLooks
  <2>3. CASE i \notin AgentRows(tracker, s, a, thread, p)
    BY <1>0, <1>2, <2>1, <2>3, MarkSeenStays DEF SeeAgent, Update, Rightly
  <2> QED BY <2>2, <2>3
<1>3. ASSUME NEW s \in Sessions, NEW new \in Sessions,
             SessionStarts(s) \/ SessionEnds(s) \/ RenameSession(s, new)
      PROVE  Rightly(i)
  BY <1>3 DEF SessionStarts, SessionEnds, RenameSession, Rightly
<1> QED BY <1>1, <1>2, <1>3 DEF User

(* A rename takes the row and its key to the new name together.             *)
LEMMA RenameIsRight ==
  ASSUME IInv, RenameReferences, NEW i \in Ids, UnseenIn(tracker, i)
  PROVE  Rightly(i)
<1>1. PICK old \in Sessions, new \in Sessions : renaming = <<old, new>>
  BY DEF RenameReferences, Frame, IInv
<1>2. PICK hasMap \in BOOLEAN :
         /\ (\E k \in Ids : SessionOf(k) = old /\ Present(tracker.rows[k])) => hasMap
         /\ tracker' = Rename(tracker, old, new, hasMap)
  BY <1>1 DEF RenameReferences, Update
<1>3. renaming # NoRename /\ renaming' = NoRename
  BY DEF RenameReferences
<1>4. CASE SessionOf(i) \notin {old, new}
  <2>1. tracker'.rows[i] = tracker.rows[i] /\ i \in tracker'.unseen
    BY <1>2, <1>4 DEF Rename, Renamed, UnseenIn
  <2> QED BY <2>1 DEF UnseenIn, Rightly
<1>5. CASE SessionOf(i) = old /\ old # new
  <2> DEFINE j == <<new, AgentOf(i), ThreadOf(i)>>
  <2>1. j \in Ids /\ SessionOf(j) = new /\ AgentOf(j) = AgentOf(i) /\ ThreadOf(j) = ThreadOf(i)
    BY DEF Ids, SessionOf, AgentOf, ThreadOf
  <2>2. i = <<old, AgentOf(i), ThreadOf(i)>>
    BY <1>5 DEF Ids, SessionOf, AgentOf, ThreadOf
  <2> HIDE DEF j
  <2>3. hasMap
    BY <1>2, <1>5 DEF UnseenIn
  <2>4. tracker'.rows[j] = tracker.rows[i]
    BY <1>2, <2>1, <2>2, <2>3 DEF Rename
  <2>5. j \in tracker'.unseen
    BY <1>2, <2>1, <2>2 DEF Rename, Renamed, UnseenIn
  <2>6. Unseen(j)'
    BY <2>4, <2>5 DEF UnseenIn, Unseen, Row
  <2> QED BY <1>1, <1>3, <1>5, <2>1, <2>6 DEF j, Rightly, CarriedAlong
<1>6. CASE SessionOf(i) = new
  BY <1>1, <1>3, <1>6 DEF Rightly, CarriedAlong
<1> QED BY <1>4, <1>5, <1>6

LEMMA HousekeepingIsRight ==
  ASSUME IInv, Housekeeping, NEW i \in Ids, UnseenIn(tracker, i), Marked(tracker, i)
  PROVE  Rightly(i)
<1>0. tracker \in SaneTrackers
  BY DEF IInv, Tracked
<1>1. ASSUME NEW j \in Ids, Hibernate(j) PROVE Rightly(i)
  <2>1. CASE i = j
    BY <1>1, <2>1 DEF Rightly
  <2>2. CASE i # j
    BY <1>0, <1>1, <2>2, MarkHibernatedStays DEF Hibernate, Update, Rightly
  <2> QED BY <2>1, <2>2
<1>2. CASE AgeRunning \/ AgeFinished
  BY <1>0, <1>2, PruneStuckStays, PruneTerminalStays
     DEF AgeRunning, AgeFinished, Update, Stays, Rightly
<1>3. CASE RenameReferences
  BY <1>3, RenameIsRight
<1>4. CASE Tick
  BY <1>4 DEF Tick, Rightly
<1> QED BY <1>1, <1>2, <1>3, <1>4 DEF Housekeeping

(* A finished row the user has not looked at stays, and stays unseen, until  *)
(* he looks, its agent goes on, its idle process is stopped or a row of its *)
(* thread takes it over: pruning, superseding seeds, presence and the news  *)
(* of others leave both, and a rename takes both along, whatever is in      *)
(* flight.                                                                  *)
THEOREM UnseenRowsAreKept == Spec => UnseenIsNotLost
<1>1. IInv /\ Placed /\ [Next]_vars =>
        [\A i \in Ids : Unseen(i) /\ SessionOf(i) \notin reused =>
           Unseen(i)' \/ UserLooks(i) \/ GoesOn(i) \/ Absorbed(i) \/ Hibernate(i)
                     \/ CarriedAlong(i)]_vars
  <2> SUFFICES ASSUME IInv, Placed, Next, NEW i \in Ids, Unseen(i), SessionOf(i) \notin reused
               PROVE  Rightly(i)
    BY DEF Rightly, Unseen, UnseenIn, Row
  <2>1. UnseenIn(tracker, i) /\ Marked(tracker, i)
    BY DEF Unseen, UnseenIn, Row, IInv, Tracked
  <2> QED BY <2>1, IngestionIsRight, PresenceIsRight, UserIsRight, HousekeepingIsRight DEF Next
<1>2. Init => Placed
  BY DEF Init, Placed
<1>3. IInv /\ Placed /\ [Next]_vars => Placed'
  BY NewsIsPlaced
<1> QED BY <1>1, <1>2, <1>3, TrackerInvariant, PTL DEF Spec, UnseenIsNotLost

-----------------------------------------------------------------------------
(* The seeds are restored under the mutex, which a presence pass holds.     *)
Exclusive == pass # NoPass => seeding # "holding"

LEMMA PassIsExclusive ==
  ASSUME Exclusive, [Next]_vars PROVE Exclusive'
<1>1. CASE Ingestion
  <2>1. CASE SeedsBegin \/ SeedsEnd
    BY <2>1 DEF SeedsBegin, SeedsEnd, Unlocked, Exclusive
  <2>2. CASE ~SeedsBegin /\ ~SeedsEnd
    BY <1>1, <2>2 DEF Ingestion, EventResolve, SnapshotCheck, Seed, EventApply, EventSeen,
       SnapshotApply, SnapshotSeen, ReleaseSeeds, Exclusive
  <2> QED BY <2>1, <2>2
<1>2. CASE Presence
  BY <1>2 DEF Presence, PassBegin, PassPane, PassEnd, Update, Unlocked, Exclusive
<1>3. CASE User
  BY <1>3 DEF User, SeePane, SeeAgent, SessionStarts, SessionEnds, RenameSession, Exclusive
<1>4. CASE Housekeeping
  BY <1>4 DEF Housekeeping, AgeRunning, AgeFinished, RenameReferences, Tick, Hibernate, Exclusive
<1>5. CASE UNCHANGED vars
  BY <1>5 DEF vars, Exclusive
<1> QED BY <1>1, <1>2, <1>3, <1>4, <1>5 DEF Next

(* While a pass holds the mutex nothing else changes the tracker.           *)
LEMMA OnlyThePassActs ==
  ASSUME Exclusive, [Next]_vars, pass # NoPass
  PROVE  \/ tracker' = tracker
         \/ \E p \in ListedPanes : PassPane(p)
         \/ PassEnd
<1>1. ~Unlocked /\ seeding # "holding"
  BY DEF Unlocked, Exclusive
<1>2. CASE Ingestion
  BY <1>1, <1>2 DEF Ingestion, EventResolve, SnapshotCheck, Seed, EventApply, EventSeen,
     SnapshotApply, SnapshotSeen, SeedsBegin, SeedsEnd, ReleaseSeeds, Update
<1>3. CASE Presence
  BY <1>1, <1>3 DEF Presence, PassBegin, Update
<1>4. CASE User
  BY <1>1, <1>4 DEF User, SeePane, SeeAgent, SessionStarts, SessionEnds, RenameSession, Update
<1>5. CASE Housekeeping
  BY <1>1, <1>5 DEF Housekeeping, AgeRunning, AgeFinished, RenameReferences, Tick, Hibernate, Update
<1>6. CASE UNCHANGED vars
  BY <1>6 DEF vars
<1> QED BY <1>2, <1>3, <1>4, <1>5, <1>6 DEF Next

(* stamp_alive never moves a seed from the pane it has.                     *)
LEMMA StampingSparesSeeds ==
  ASSUME NEW t \in SaneTrackers, NEW i \in Ids, NEW k \in Ids, NEW pane \in Panes,
         i \in t.seeded, Bound(t.rows[i])
  PROVE  StampAlive(t, k, pane).rows[i].pane = t.rows[i].pane
<1>1. Alive(t.rows[i]) /\ t.rows[i].pane # NoPane /\ t.rows[i] \in Rows
  BY RowFields DEF SaneRows, Bound
<1>2. CASE k = i /\ t.rows[i].pane # pane
  BY <1>1, <1>2 DEF StampAlive
<1>3. CASE k = i /\ t.rows[i].pane = pane
  <2> DEFINE u == [t EXCEPT !.rows[k].pane = pane, !.rows[k].live = "alive"]
  <2>1. u.rows[i].pane = pane
    BY <1>1, <1>3 DEF SaneTrackers, Rows
  <2>2. StampAlive(t, k, pane) \in {t, u}
    BY DEF StampAlive
  <2> HIDE DEF u
  <2> QED BY <1>3, <2>1, <2>2
<1>4. CASE k # i
  BY <1>4 DEF StampAlive, SaneTrackers
<1> QED BY <1>2, <1>3, <1>4

(* A seed matched to a pane through its process stays in it through a        *)
(* presence pass: neither a title nor being the agent's only row moves it   *)
(* (stamp_alive), and nothing else touches the tracker while the pass       *)
(* holds the mutex.                                                         *)
THEOREM SeedsStayInTheirPane == Spec => SeedKeepsItsPane
<1>1. Init => Exclusive
  BY DEF Init, Exclusive
<1>2. Exclusive /\ [Next]_vars => Exclusive'
  BY PassIsExclusive
<1>3. IInv /\ Exclusive /\ [Next]_vars =>
        [\A i \in Ids : pass # NoPass /\ Seeded(i) /\ Bound(Row(i)) =>
           Row(i)'.pane = Row(i).pane]_vars
  <2> SUFFICES ASSUME IInv, Exclusive, [Next]_vars, NEW i \in Ids,
                      pass # NoPass, Seeded(i), Bound(Row(i))
               PROVE  Row(i)'.pane = Row(i).pane
    OBVIOUS
  <2>1. tracker \in SaneTrackers /\ i \in tracker.seeded /\ Bound(tracker.rows[i])
    BY DEF IInv, Tracked, Seeded, Row
  <2>2. CASE tracker' = tracker
    BY <2>2 DEF Row
  <2>3. ASSUME NEW p \in ListedPanes, PassPane(p) PROVE Row(i)'.pane = Row(i).pane
    <3>1. \/ tracker' = tracker
          \/ \E k \in Ids : tracker' = StampAlive(tracker, k, p.pane)
      BY <2>3, PlacedRow DEF PassPane
    <3>2. p.pane \in Panes
      BY DEF ListedPanes
    <3> QED BY <2>1, <3>1, <3>2, StampingSparesSeeds DEF Row
  <2>4. CASE PassEnd
    <3>1. PICK seen : tracker' = MarkSeen(tracker, seen)
      BY <2>4 DEF PassEnd
    <3>2. MarkSeen(tracker, seen).rows[i].pane = tracker.rows[i].pane
      BY <2>1, RowFields DEF MarkSeen, SaneTrackers, Rows
    <3> QED BY <3>1, <3>2 DEF Row
  <2> QED BY <2>2, <2>3, <2>4, OnlyThePassActs
<1> QED BY <1>1, <1>2, <1>3, TrackerInvariant, PTL DEF Spec, SeedKeepsItsPane
=============================================================================
