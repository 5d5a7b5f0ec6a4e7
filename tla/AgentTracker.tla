---------------------------- MODULE AgentTracker ----------------------------
(***************************************************************************)
(* The rows the sidebar shows for the agents of every session, and which   *)
(* of them finished without the user having looked (packages/runtime-rs/   *)
(* src/tracker.rs, with the ingestion of apps/server-rs/src/lib.rs).       *)
(*                                                                         *)
(* Every method of the tracker runs under one mutex, so it is one step on  *)
(* the record `tracker`.  What feeds it is not: an event posted by an      *)
(* agent resolves its session, a watcher snapshot resolves its session and *)
(* compares timestamps, a presence pass lists the panes, all before they   *)
(* take the mutex, and renames, other events and hibernation run between.  *)
(*                                                                         *)
(* Statuses the tracker never tells apart are one: tool-running is         *)
(* "running", error and interrupted are "done".  Prompts, the sparkline's  *)
(* timestamps and the synthetic pane rows, which nothing creates any more, *)
(* are left out, and so are the methods nothing calls.                     *)
(***************************************************************************)
EXTENDS Naturals, Sequences

CONSTANTS Sessions, Agents, Threads, Panes, Names,
          NoThread, NoPane, NoName, NoReport, NoRename, NoPass,
          Logged,          \* agents whose snapshots carry their log's mtime (Amp)
          Reported,        \* the statuses agents report
          Settle,          \* HIBERNATE_SETTLE_MS
          StuckAfter,      \* STUCK_RUNNING_TIMEOUT_MS
          PruneAfter,      \* TERMINAL_PRUNE_MS
          IdleAfter,       \* autoHibernate.idleAfterMs
          MaxTime,         \* bound: the clock
          MaxEvents,       \* bounds: posted events, watcher snapshots, seeds,
          MaxSnapshots,    \* and sessions that start, end or are renamed
          MaxSeeds, MaxChanges

Statuses == {"idle", "running", "waiting", "done", "stale", "hibernated"}
Lives    == {"none", "alive", "exited"}
Times    == 0..MaxTime

ASSUME TrackerAssumption ==
    /\ NoThread \notin Threads /\ NoPane \notin Panes /\ NoName \notin Names
    /\ Logged \subseteq Agents
    /\ Reported \subseteq {"idle", "running", "waiting", "done", "stale"}
    /\ {Settle, StuckAfter, PruneAfter, IdleAfter, MaxTime} \subseteq Nat
    /\ {MaxEvents, MaxSnapshots, MaxSeeds, MaxChanges} \subseteq Nat

(* The instance key `session\0agent:thread`; without a thread the generic   *)
(* row `session\0agent`.                                                    *)
Ids == Sessions \X Agents \X (Threads \cup {NoThread})
SessionOf(i) == i[1]
AgentOf(i)   == i[2]
ThreadOf(i)  == i[3]
Peers(i) == {j \in Ids : j # i /\ SessionOf(j) = SessionOf(i) /\ AgentOf(j) = AgentOf(i)}

Rows == [status : Statuses \cup {"absent"}, ts : Times, name : Names \cup {NoName},
         pane : Panes \cup {NoPane}, live : Lives, unseen : BOOLEAN]
Absent == [status |-> "absent", ts |-> 0, name |-> NoName, pane |-> NoPane,
           live |-> "none", unseen |-> FALSE]

(* `unseen_instances` and `seeded_instances` are sets of keys beside the     *)
(* rows: nothing ties a key to a row.                                       *)
Trackers == [rows : [Ids -> Rows], unseen : SUBSET Ids, seeded : SUBSET Ids]

Reports == [id : Ids, status : Reported, ts : Times, name : Names \cup {NoName},
            pane : Panes \cup {NoPane}]

(* A pane of a presence listing: an agent runs in it, with a title or not.  *)
ListedPanes == [session : Sessions, agent : Agents, pane : Panes,
                title : Names \cup {NoName}]

Terminal     == {"done"}
Prunable     == Terminal \cup {"stale"}
Hibernatable == {"idle"} \cup Terminal
Resuming     == {"running", "waiting"}
Seedable     == Terminal \cup {"stale"}

Present(row) == row.status # "absent"
Alive(row)   == row.live = "alive"
Bound(row)   == row.pane # NoPane
Unbound_KeepsPane(row) == [row EXCEPT !.live = "exited"]
Unbound(row) == [row EXCEPT !.pane = NoPane, !.live = "exited"]

VARIABLES
    clock,     \* now_ms
    names,     \* whether a session has this name, had it until it ended, or not
    tracker,   \* the AgentTracker
    event,     \* the posted event that is being ingested, its session resolved
    snapshot,  \* the watcher snapshot that is being applied
    pass,      \* the presence pass that holds the tracker's mutex
    renaming,  \* the rename whose references are still to follow
    reused,    \* names a rename took over while entries were filed under them
    seeding,   \* whether the watcher loop has restored the seeds
    budget     \* inputs of each kind that may still come

vars == <<clock, names, tracker, event, snapshot, pass, renaming, reused, seeding,
          budget>>

NewTracker == [rows |-> [i \in Ids |-> Absent], unseen |-> {}, seeded |-> {}]

-----------------------------------------------------------------------------
(* Methods of AgentTracker, on a tracker t.                                 *)

(* remove_instance, for a set of rows.                                      *)
Discard(t, gone) ==
    [rows   |-> [i \in Ids |-> IF i \in gone THEN Absent ELSE t.rows[i]],
     unseen |-> t.unseen \ gone,
     seeded |-> t.seeded \ gone]

(* A report shortly after hibernation that does not resume the thread is a   *)
(* side effect of stopping the agent.                                       *)
Settling(t, e) ==
    LET prev == t.rows[e.id]
    IN /\ prev.status = "hibernated"
       /\ e.status \notin Resuming
       /\ e.ts <= prev.ts + Settle

(* restates_seed: the first rescan of the file a seed came from.            *)
Restates(t, e) ==
    LET seed == t.rows[e.id]
    IN e.id \in t.seeded /\ Present(seed) /\ seed.status = e.status /\ e.ts <= seed.ts

(* supersede_seeds: seeds of the agent a live event replaces.               *)
Superseded(t, e) ==
    {j \in Peers(e.id) \cap t.seeded :
        /\ Present(t.rows[j]) /\ t.rows[j].status # "hibernated"
        /\ e.pane = NoPane \/ ~Bound(t.rows[j]) \/ t.rows[j].pane = e.pane}

(* The row a report leaves: what the report omits comes from the row it      *)
(* replaces, then from the provisional row it absorbs.                      *)
Inherited(e, prev, provisional) ==
    LET here == [pane |-> e.pane, live |-> IF e.pane = NoPane THEN "none" ELSE "alive"]
        kept == IF Bound(prev) THEN prev ELSE Absent
    IN [status |-> e.status, ts |-> e.ts,
        name |-> IF e.name # NoName THEN e.name ELSE prev.name,
        pane |-> IF here.pane # NoPane THEN here.pane
                 ELSE IF kept.pane # NoPane THEN kept.pane ELSE provisional.pane,
        live |-> IF here.live # "none" THEN here.live
                 ELSE IF kept.live # "none" THEN kept.live ELSE provisional.live,
        unseen |-> e.status \in Terminal]

(* The rest of apply_event: absorb the provisional row without a thread that *)
(* carries the same name, and unbind the agent's other threads from the pane.*)
Insert(t, e) ==
    LET name == IF e.name # NoName THEN e.name ELSE t.rows[e.id].name
        provisional == {j \in Peers(e.id) :
                           /\ ThreadOf(j) = NoThread /\ Present(t.rows[j])
                           /\ name # NoName /\ t.rows[j].name = name}
        absorbed == IF provisional = {} THEN Absent
                    ELSE t.rows[CHOOSE j \in provisional : TRUE]
        row == Inherited(e, t.rows[e.id], absorbed)
        displaced == {j \in Peers(e.id) : /\ Bound(row) /\ t.rows[j].pane = row.pane
                                           /\ t.rows[j].ts <= e.ts}
    IN [rows   |-> [j \in Ids |-> IF j = e.id THEN row
                                  ELSE IF j \in provisional THEN Absent
                                  ELSE IF j \in displaced THEN Unbound(t.rows[j])
                                  ELSE t.rows[j]],
        unseen |-> (t.unseen \ (provisional \cup {e.id}))
                   \cup (IF e.status \in Terminal THEN {e.id} ELSE {}),
        seeded |-> t.seeded]

(* apply_event; a timestamp from the future is the time it is now.          *)
ApplyEvent(t, report) ==
    LET e == [report EXCEPT !.ts = IF @ > clock THEN clock ELSE @]
    IN IF Settling(t, e) THEN t
       ELSE IF Restates(t, e)
       THEN [t EXCEPT !.rows[e.id].name = IF e.name # NoName THEN e.name ELSE @]
       ELSE Insert(Discard([t EXCEPT !.seeded = @ \ {e.id}], Superseded(t, e)), e)

(* apply_seed_event: a seed never replaces a row nor takes a held pane.     *)
Conflicts(t, report) ==
    {j \in Ids : /\ SessionOf(j) = SessionOf(report.id) /\ Present(t.rows[j])
                 /\ \/ j = report.id
                    \/ report.pane # NoPane /\ t.rows[j].pane = report.pane
                    \/ report.pane = NoPane /\ AgentOf(j) = AgentOf(report.id)}

ApplySeed(t, report) ==
    IF Conflicts(t, report) # {} THEN t
    ELSE [t EXCEPT !.rows[report.id] =
                      [status |-> report.status, name |-> report.name,
                       ts |-> IF report.ts > clock THEN clock ELSE report.ts,
                       pane |-> report.pane,
                       live |-> IF report.pane = NoPane THEN "none" ELSE "alive",
                       unseen |-> FALSE],
                   !.seeded = @ \cup {report.id}]

(* release_seeds_with_newer_activity                                        *)
Outlived(t, agent, thread, activity) ==
    {j \in t.seeded :
        /\ AgentOf(j) = agent /\ ThreadOf(j) = thread /\ Present(t.rows[j])
        /\ activity > t.rows[j].ts + (IF t.rows[j].status = "hibernated"
                                      THEN Settle ELSE 0)}

(* mark_pane_seen and mark_agent_seen, on the rows they find.               *)
MarkSeen(t, seen) ==
    [t EXCEPT !.rows = [i \in Ids |-> IF i \in seen THEN [@[i] EXCEPT !.unseen = FALSE]
                                      ELSE @[i]],
              !.unseen = @ \ seen]

PaneRows(t, s, p) == {i \in Ids : SessionOf(i) = s /\ t.rows[i].pane = p}

(* mark_agent_seen: the thread's row, the agent's rows in the pane, and       *)
(* without either the generic row.                                          *)
AgentRows(t, s, a, thread, p) ==
    LET exact == {<<s, a, thread>>} \cap {i \in Ids : thread # NoThread}
        inPane == {i \in PaneRows(t, s, p) : p # NoPane /\ AgentOf(i) = a}
        found  == {i \in exact \cup inPane : Present(t.rows[i])}
    IN IF found = {} /\ thread = NoThread
       THEN {<<s, a, NoThread>>} \cap {i \in Ids : Present(t.rows[i])}
       ELSE found

Renamed_Forgotten(old, new, ids) == ids

(* rename_session: the old name's map replaces the new name's, which keeps   *)
(* its rows only when the old name has no map; keys move one by one, and     *)
(* those already under the new name stay.                                   *)
Renamed(old, new, ids) ==
    {i \in ids : SessionOf(i) # old}
        \cup {i \in Ids : SessionOf(i) = new /\ <<old, AgentOf(i), ThreadOf(i)>> \in ids}

Rename(t, old, new, hasMap) ==
    [rows |-> [i \in Ids |-> IF ~hasMap \/ SessionOf(i) \notin {old, new} THEN t.rows[i]
                             ELSE IF SessionOf(i) = new
                             THEN t.rows[<<old, AgentOf(i), ThreadOf(i)>>]
                             ELSE Absent],
     unseen |-> Renamed(old, new, t.unseen),
     seeded |-> Renamed(old, new, t.seeded)]

Stuck(t) == {i \in Ids : t.rows[i].status = "running" /\ clock > t.rows[i].ts + StuckAfter}

PruneStuck_KeepsDead(t) ==
    [t EXCEPT !.rows = [i \in Ids |-> IF i \in Stuck(t) /\ Alive(@[i])
                                      THEN [@[i] EXCEPT !.status = "stale"] ELSE @[i]]]

(* prune_stuck: a running row without news is stale if its agent is alive,   *)
(* and gone otherwise.                                                      *)
PruneStuck(t) ==
    LET alive == {i \in Stuck(t) : Alive(t.rows[i])}
        kept  == [t EXCEPT !.rows = [i \in Ids |-> IF i \in alive
                                                   THEN [@[i] EXCEPT !.status = "stale"]
                                                   ELSE @[i]]]
    IN Discard(kept, Stuck(t) \ alive)

Finished_Unseen(t) == {i \in Ids : /\ t.rows[i].status \in Prunable /\ ~Alive(t.rows[i])
                                   /\ clock > t.rows[i].ts + PruneAfter}

(* prune_terminal                                                           *)
Finished(t) == {i \in Ids : /\ t.rows[i].status \in Prunable /\ i \notin t.unseen
                            /\ ~Alive(t.rows[i])
                            /\ clock > t.rows[i].ts + PruneAfter}
PruneTerminal(t) ==
    [t EXCEPT !.rows = [i \in Ids |-> IF i \in Finished(t) THEN Absent ELSE @[i]],
              !.seeded = @ \ Finished(t)]

(* find_hibernation_candidates; the sessions being viewed are external.     *)
Quiet(row) == row.status \in Hibernatable /\ clock > row.ts + IdleAfter
Candidates(t) ==
    LET busy == {i \in Ids : /\ Present(t.rows[i]) /\ ~Quiet(t.rows[i])
                             /\ t.rows[i].status # "hibernated"}
        unplaced == {i \in busy : ~Bound(t.rows[i]) /\ t.rows[i].live # "exited"}
    IN {i \in Ids :
          /\ Quiet(t.rows[i]) /\ Alive(t.rows[i]) /\ Bound(t.rows[i])
          /\ \A j \in busy : t.rows[j].pane # t.rows[i].pane
          /\ unplaced \cap (Peers(i) \cup {i}) = {}}

MarkHibernated(t, i) ==
    [t EXCEPT !.rows[i] = [Unbound(@) EXCEPT !.status = "hibernated", !.ts = clock,
                                             !.unseen = FALSE],
              !.unseen = @ \ {i}]

(* apply_pane_presence, first half: rows whose pane is no longer listed.    *)
UnbindGone(t, listed, panes) ==
    [t EXCEPT !.rows = [i \in Ids |->
        IF /\ SessionOf(i) \in listed /\ Alive(@[i]) /\ Bound(@[i])
           /\ ~\E p \in panes : p.session = SessionOf(i) /\ p.pane = @[i].pane
        THEN Unbound(@[i]) ELSE @[i]]]

StampAlive_Resumes(t, i, pane) ==
    IF Alive(t.rows[i]) /\ t.rows[i].pane \notin {NoPane, pane} /\ i \in t.seeded THEN t
    ELSE [t EXCEPT !.rows[i].pane = pane, !.rows[i].live = "alive"]

StampAlive_MovesSeeds(t, i, pane) ==
    IF t.rows[i].status = "hibernated" THEN t
    ELSE [t EXCEPT !.rows[i].pane = pane, !.rows[i].live = "alive"]

(* stamp_alive: only an event resumes a hibernated row, and a seed that was  *)
(* matched to its pane through its process is not moved.                    *)
StampAlive(t, i, pane) ==
    IF \/ t.rows[i].status = "hibernated"
       \/ /\ Alive(t.rows[i]) /\ t.rows[i].pane \notin {NoPane, pane}
          /\ i \in t.seeded
    THEN t
    ELSE [t EXCEPT !.rows[i].pane = pane, !.rows[i].live = "alive"]

(* Second half, one pane: the row its title names, else the agent's only     *)
(* row, unless the title contradicts it or another listed pane claims it.   *)
Fits(row, p, panes) ==
    LET peers == {q \in panes : q.session = p.session}
    IN IF p.title # NoName THEN row.name \in {NoName, p.title}
       ELSE /\ row.name # NoName =>
                  ~\E q \in peers : q.agent = p.agent /\ q.title = row.name
            /\ Alive(row) /\ Bound(row) /\ row.pane # p.pane =>
                  ~\E q \in peers : q.pane = row.pane

PlacePane(t, p, panes) ==
    LET mine  == {i \in Ids : /\ SessionOf(i) = p.session /\ AgentOf(i) = p.agent
                              /\ Present(t.rows[i])}
        named == {i \in mine : p.title # NoName /\ t.rows[i].name = p.title}
        watched == {i \in mine : t.rows[i].status # "hibernated"}
        only  == IF \E i \in mine : named = {i} THEN named
                 ELSE {i \in watched : watched = {i} /\ Fits(t.rows[i], p, panes)}
    IN IF only = {} THEN t ELSE StampAlive(t, CHOOSE i \in only : TRUE, p.pane)

-----------------------------------------------------------------------------
Live   == {s \in Sessions : names[s] = "live"}
Filed(t, s) == {i \in Ids : SessionOf(i) = s
                           /\ (Present(t.rows[i]) \/ i \in t.unseen \cup t.seeded)}
Unlocked == pass = NoPass /\ seeding # "holding"   \* the tracker's mutex is free

TypeOK ==
    /\ clock \in Times
    /\ names \in [Sessions -> {"free", "live", "ended"}]
    /\ tracker \in Trackers
    /\ \A i \in Ids : tracker.rows[i].ts <= clock
    /\ event \in [report : Reports, applied : BOOLEAN] \cup {NoReport}
    /\ snapshot \in [report : Reports, applied : BOOLEAN,
                     pane : Panes \cup {NoPane}] \cup {NoReport}
    /\ pass \in [panes : SUBSET ListedPanes, todo : SUBSET ListedPanes] \cup {NoPass}
    /\ renaming \in (Sessions \X Sessions) \cup {NoRename}
    /\ reused \subseteq Sessions
    /\ seeding \in {"before", "holding", "done"}
    /\ budget \in [event : 0..MaxEvents, snapshot : 0..MaxSnapshots,
                   seed : 0..MaxSeeds, change : 0..MaxChanges]

Init ==
    /\ clock = 0
    /\ names \in [Sessions -> {"free", "live"}]
    /\ tracker = NewTracker
    /\ event = NoReport /\ snapshot = NoReport
    /\ pass = NoPass /\ renaming = NoRename
    /\ reused = {} /\ seeding = "before" 
    /\ budget = [event |-> MaxEvents, snapshot |-> MaxSnapshots,
                 seed |-> MaxSeeds, change |-> MaxChanges]

Update(t) == Unlocked /\ tracker' = t
Spend(kind) == budget[kind] > 0 /\ budget' = [budget EXCEPT ![kind] = @ - 1]

(* POST /api/agent-event, one at a time under the ingestion lock: resolve    *)
(* the session among those that exist now, apply, and count an event of the *)
(* pane the user is looking at as seen.                                     *)
EventResolve(report) ==
    /\ event = NoReport /\ Spend("event")
    /\ SessionOf(report.id) \in Live
    /\ event' = [report |-> report, applied |-> FALSE]
    /\ UNCHANGED <<clock, names, tracker, snapshot, pass, renaming, reused, seeding>>

EventApply ==
    /\ event # NoReport /\ ~event.applied
    /\ Update(ApplyEvent(tracker, event.report))
    /\ event' = IF event.report.pane = NoPane THEN NoReport
                ELSE [event EXCEPT !.applied = TRUE]
    /\ UNCHANGED <<clock, names, snapshot, pass, renaming, reused, seeding,
                   budget>>

EventSeen ==
    /\ event # NoReport /\ event.applied
    /\ \/ tracker' = tracker        \* no client shows the pane
       \/ LET r == event.report
          IN Update(MarkSeen(tracker, PaneRows(tracker, SessionOf(r.id), r.pane)))
    /\ event' = NoReport
    /\ UNCHANGED <<clock, names, snapshot, pass, renaming, reused, seeding,
                   budget>>

(* The watcher loop applies one snapshot of an agent's files at a time.  It  *)
(* drops an Amp snapshot older than any row of the thread, and releases the *)
(* mutex before it applies the others.                                      *)
NewerRow(report) ==
    \E i \in Ids : /\ AgentOf(i) = AgentOf(report.id) /\ ThreadOf(i) = ThreadOf(report.id)
                   /\ Present(tracker.rows[i]) /\ tracker.rows[i].ts > report.ts

SnapshotCheck(report) ==
    /\ Unlocked /\ seeding = "done" /\ snapshot = NoReport /\ Spend("snapshot")
    /\ SessionOf(report.id) \in Live
    /\ ThreadOf(report.id) # NoThread /\ report.status # "idle"
    /\ ~(AgentOf(report.id) \in Logged /\ NewerRow(report))
    /\ snapshot' = [report |-> report, applied |-> FALSE,
                    pane |-> IF report.pane # NoPane THEN report.pane
                             ELSE tracker.rows[report.id].pane]
    /\ UNCHANGED <<clock, names, tracker, event, pass, renaming, reused, seeding>>

SnapshotApply ==
    /\ snapshot # NoReport /\ ~snapshot.applied
    /\ Update(ApplyEvent(tracker, snapshot.report))
    /\ snapshot' = IF snapshot.pane = NoPane THEN NoReport
                   ELSE [snapshot EXCEPT !.applied = TRUE]
    /\ UNCHANGED <<clock, names, event, pass, renaming, reused, seeding,
                   budget>>

SnapshotSeen ==
    /\ snapshot # NoReport /\ snapshot.applied
    /\ \/ tracker' = tracker
       \/ LET s == SessionOf(snapshot.report.id)
          IN Update(MarkSeen(tracker, PaneRows(tracker, s, snapshot.pane)))
    /\ snapshot' = NoReport
    /\ UNCHANGED <<clock, names, event, pass, renaming, reused, seeding,
                   budget>>

(* seed_agents_from_durable_state, when the watcher loop starts: every seed  *)
(* under one hold of the mutex.                                             *)
SeedsBegin ==
    /\ Unlocked /\ seeding = "before"
    /\ seeding' = "holding"
    /\ UNCHANGED <<clock, names, tracker, event, snapshot, pass, renaming, reused,
                   budget>>

Seed(report) ==
    /\ seeding = "holding" /\ Spend("seed")
    /\ ThreadOf(report.id) # NoThread /\ report.status \in Seedable
    /\ tracker' = ApplySeed(tracker, report)
    /\ UNCHANGED <<clock, names, event, snapshot, pass, renaming, reused, seeding>>

SeedsEnd ==
    /\ seeding = "holding"
    /\ seeding' = "done"
    /\ UNCHANGED <<clock, names, tracker, event, snapshot, pass, renaming, reused,
                   budget>>

(* release_seeds_for_activity, for one observation of a scan.               *)
ReleaseSeeds(agent, thread, activity) ==
    /\ seeding = "done" /\ activity <= clock
    /\ Outlived(tracker, agent, thread, activity) # {}
    /\ Update(Discard(tracker, Outlived(tracker, agent, thread, activity)))
    /\ UNCHANGED <<clock, names, event, snapshot, pass, renaming, reused, seeding,
                   budget>>

(* The user focuses a pane (/focus), or picks an agent in the sidebar        *)
(* (focus-agent-pane, which repeats the call with the pane it resolved).    *)
SeePane(s, p) ==
    /\ PaneRows(tracker, s, p) # {}
    /\ Update(MarkSeen(tracker, PaneRows(tracker, s, p)))
    /\ UNCHANGED <<clock, names, event, snapshot, pass, renaming, reused, seeding,
                   budget>>

SeeAgent(s, a, thread, p) ==
    /\ AgentRows(tracker, s, a, thread, p) # {}
    /\ Update(MarkSeen(tracker, AgentRows(tracker, s, a, thread, p)))
    /\ UNCHANGED <<clock, names, event, snapshot, pass, renaming, reused, seeding,
                   budget>>

(* The watcher loop ages rows before each scan, snapshot_json before each    *)
(* broadcast.                                                               *)
AgeRunning ==
    /\ seeding = "done" /\ Stuck(tracker) # {}
    /\ Update(PruneStuck(tracker))
    /\ UNCHANGED <<clock, names, event, snapshot, pass, renaming, reused, seeding,
                   budget>>

AgeFinished ==
    /\ Finished(tracker) # {}
    /\ Update(PruneTerminal(tracker))
    /\ UNCHANGED <<clock, names, event, snapshot, pass, renaming, reused, seeding,
                   budget>>

(* The end of hibernate_idle_agent_panes: the process of a candidate was     *)
(* stopped, and under the mutex it still is a candidate.                    *)
Hibernate(i) ==
    /\ i \in Candidates(tracker)
    /\ Update(MarkHibernated(tracker, i))
    /\ UNCHANGED <<clock, names, event, snapshot, pass, renaming, reused, seeding,
                   budget>>

(* sync_agent_pane_presence: apply a listing, whole, under the mutex.  It    *)
(* was taken before, so it may be out of date: any listing is possible.     *)
PassBegin(listed, panes) ==
    /\ \A p \in panes : p.session \in listed
    /\ \A p, q \in panes : p.pane = q.pane => p = q
    /\ Update(UnbindGone(tracker, listed, panes))
    /\ pass' = [panes |-> panes, todo |-> panes]
    /\ UNCHANGED <<clock, names, event, snapshot, renaming, reused, seeding, budget>>

PassPane(p) ==
    /\ pass # NoPass /\ p \in pass.todo
    /\ tracker' = PlacePane(tracker, p, pass.panes)
    /\ pass' = [pass EXCEPT !.todo = @ \ {p}]
    /\ UNCHANGED <<clock, names, event, snapshot, renaming, reused, seeding, budget>>

PassEnd ==
    /\ pass # NoPass /\ pass.todo = {}
    /\ \E focused \in SUBSET pass.panes :     \* at most one pane of a session
          /\ \A p, q \in focused : p.session = q.session => p = q
          /\ tracker' = MarkSeen(tracker, UNION {PaneRows(tracker, p.session, p.pane) :
                                                    p \in focused})
    /\ pass' = NoPass
    /\ UNCHANGED <<clock, names, event, snapshot, renaming, reused, seeding, budget>>

-----------------------------------------------------------------------------
(* Sessions and time.                                                       *)

SessionStarts(s) ==
    /\ s \notin Live /\ Spend("change")
    /\ names' = [names EXCEPT ![s] = "live"]
    /\ UNCHANGED <<clock, tracker, event, snapshot, pass, renaming, reused, seeding>>

SessionEnds(s) ==
    /\ s \in Live /\ Spend("change")
    /\ names' = [names EXCEPT ![s] = "ended"]
    /\ UNCHANGED <<clock, tracker, event, snapshot, pass, renaming, reused, seeding>>

(* rename-session: tmux renames to a name that is free, then the references  *)
(* follow.                                                                  *)
RenameSession(old, new) ==
    /\ renaming = NoRename /\ Spend("change")
    /\ old \in Live /\ new \notin Live
    /\ names' = [names EXCEPT ![old] = "free", ![new] = "live"]
    /\ renaming' = <<old, new>>
    /\ UNCHANGED <<clock, tracker, event, snapshot, pass, reused, seeding>>

RenameReferences ==
    /\ renaming # NoRename
    /\ LET old == renaming[1]
           new == renaming[2]
       IN /\ \E hasMap \in BOOLEAN :
                /\ (\E i \in Ids : SessionOf(i) = old /\ Present(tracker.rows[i])) => hasMap
                /\ Update(Rename(tracker, old, new, hasMap))
          /\ reused' = IF Filed(tracker, new) # {} \/ old \in reused
                       THEN reused \cup {new} ELSE reused
    /\ renaming' = NoRename
    /\ UNCHANGED <<clock, names, event, snapshot, pass, seeding, budget>>

Tick ==
    /\ clock < MaxTime
    /\ clock' = clock + 1
    /\ UNCHANGED <<names, tracker, event, snapshot, pass, renaming, reused, seeding,
                   budget>>

-----------------------------------------------------------------------------
Ingestion ==
    \/ \E report \in Reports : EventResolve(report) \/ SnapshotCheck(report) \/ Seed(report)
    \/ EventApply \/ EventSeen \/ SnapshotApply \/ SnapshotSeen
    \/ SeedsBegin \/ SeedsEnd
    \/ \E a \in Agents, thread \in Threads, activity \in Times :
          ReleaseSeeds(a, thread, activity)

Presence ==
    \/ \E listed \in SUBSET Sessions, panes \in SUBSET ListedPanes :
          PassBegin(listed, panes)
    \/ \E p \in ListedPanes : PassPane(p)
    \/ PassEnd

User ==
    \E s \in Sessions :
       \/ \E p \in Panes : SeePane(s, p)
       \/ \E a \in Agents, thread \in Threads \cup {NoThread}, p \in Panes \cup {NoPane} :
             SeeAgent(s, a, thread, p)
       \/ SessionStarts(s) \/ SessionEnds(s)
       \/ \E new \in Sessions : RenameSession(s, new)

Housekeeping == AgeRunning \/ AgeFinished \/ RenameReferences \/ Tick
                \/ \E i \in Ids : Hibernate(i)

Next == Ingestion \/ Presence \/ User \/ Housekeeping

(* The watcher loop restores the seeds and ages running rows as long as the   *)
(* server runs: a presence pass lists the panes of tmux before it takes the *)
(* mutex, so the loop finds it free again and again.  A pass ends, and time *)
(* passes.                                                                  *)
Fairness == /\ SF_vars(SeedsBegin) /\ WF_vars(SeedsEnd) /\ SF_vars(AgeRunning)
            /\ WF_vars(\E p \in ListedPanes : PassPane(p)) /\ WF_vars(PassEnd)
            /\ WF_vars(Tick)

Spec == Init /\ [][Next]_vars
FairSpec == Spec /\ Fairness

-----------------------------------------------------------------------------
(* Safety                                                                   *)
Row(i)    == tracker.rows[i]
Unseen(i) == Present(Row(i)) /\ i \in tracker.unseen
Seeded(i) == Present(Row(i)) /\ i \in tracker.seeded

(* A row shown as unseen is one whose agent finished, and the row and the    *)
(* set of unseen keys agree, whatever report, pass, prune or hibernation     *)
(* came between; seeds are quiet (CONTRACTS.md:143).  The exception are rows *)
(* that came under a name with entries of an ended session.                 *)
UnseenMeansFinished ==
    \A i \in Ids : SessionOf(i) \notin reused /\ Present(Row(i)) =>
        /\ i \in tracker.unseen <=> Row(i).unseen
        /\ i \in tracker.unseen => Row(i).status \in Terminal
        /\ i \in tracker.seeded => ~Row(i).unseen

(* A hibernated row has no pane until its own thread resumes: neither titles *)
(* that outlive the stopped process nor seeds give it one (stamp_alive).    *)
HibernatedHasNoPane ==
    \A i \in Ids : Row(i).status = "hibernated" => ~Bound(Row(i)) /\ ~Alive(Row(i))

(* A row with a pane is alive: presence only unbinds rows that are alive, so *)
(* a pane on any other row would stay there after the pane is gone.         *)
BoundMeansAlive == \A i \in Ids : Bound(Row(i)) => Alive(Row(i))

(* The ways an unseen mark may go.  The user looks at the agent: at its pane,*)
(* while news of it or a presence pass comes in, or by picking it.          *)
UserLooks(i) ==
    LET At(s, p) == s = SessionOf(i) /\ Bound(Row(i)) /\ p = Row(i).pane
    IN \/ \E s \in Sessions, p \in Panes : At(s, p) /\ SeePane(s, p)
       \/ \E thread \in Threads \cup {NoThread}, p \in Panes \cup {NoPane} :
              /\ thread = ThreadOf(i) \/ p = Row(i).pane
              /\ SeeAgent(SessionOf(i), AgentOf(i), thread, p)
       \/ EventSeen /\ At(SessionOf(event.report.id), event.report.pane)
       \/ SnapshotSeen /\ At(SessionOf(snapshot.report.id), snapshot.pane)
       \/ PassEnd /\ \E p \in pass.panes : At(p.session, p.pane)

(* A report of a thread is applied: of this one, which is not finished, or of*)
(* another of the agent, whose row absorbs this provisional one.            *)
Applied(report) == \/ EventApply /\ report = event.report
                   \/ SnapshotApply /\ report = snapshot.report

GoesOn(i) == \E report \in Reports : /\ Applied(report) /\ report.id = i
                                     /\ report.status \notin Terminal

Absorbed(i) == \E report \in Reports :
                  /\ Applied(report) /\ report.id \in Peers(i)
                  /\ ThreadOf(i) = NoThread /\ Row(i).name # NoName
                  /\ Present(Row(report.id)') /\ Row(report.id)'.name = Row(i).name

(* A rename takes row and mark along, and drops what was filed under the name*)
(* it takes over.                                                           *)
CarriedAlong(i) ==
    /\ renaming # NoRename /\ renaming' = NoRename
    /\ \/ /\ SessionOf(i) = renaming[1]
          /\ \E j \in Ids : /\ j = <<renaming[2], AgentOf(i), ThreadOf(i)>>
                            /\ Unseen(j)'
       \/ SessionOf(i) = renaming[2]

(* What finished without the user looking stays there and stays marked until *)
(* he looks, the agent goes on, or its idle process is stopped              *)
(* (mark_hibernated takes the mark): pruning, superseded seeds, presence,   *)
(* news of other threads and renames leave both, whatever is in flight.     *)
UnseenIsNotLost ==
    [][\A i \in Ids : Unseen(i) /\ SessionOf(i) \notin reused =>
         Unseen(i)' \/ UserLooks(i) \/ GoesOn(i) \/ Absorbed(i) \/ Hibernate(i)
                   \/ CarriedAlong(i)]_vars

(* A seed matched to a pane through its process leaves it only when the pane *)
(* is gone or a live event says so: titles do not move it.                  *)
SeedKeepsItsPane ==
    [][\A i \in Ids : pass # NoPass /\ Seeded(i) /\ Bound(Row(i)) =>
         Row(i)'.pane = Row(i).pane]_vars

(* A running row does not show running for ever: news of it arrives, or it   *)
(* becomes stale or goes (prune_stuck), as soon as the clock gets past it.  *)
RunningEnds ==
    \A i \in Ids, t \in Times :
        LET Running == Row(i).status = "running" /\ Row(i).ts = t
        IN t + StuckAfter < MaxTime => (Running ~> ~Running)
=============================================================================
