---------------------------- MODULE AgentWatchers ----------------------------
(***************************************************************************)
(* How the server learns from the files agents write what they are doing:  *)
(* the seeding at startup, the polls after it, the status read from a file *)
(* and the place a thread is shown at.                                     *)
(*                                                                         *)
(* A thread belongs to the one session of its directory, or, where its log *)
(* names no directory that tells, to the pane its writer's process runs    *)
(* in.  Finding that pane takes one reading of the process table and many  *)
(* of tmux; what they found is remembered for as long as tmux looks the    *)
(* same.  Agents write, start and exit, panes move and tmux or ps fail     *)
(* between any two readings.                                               *)
(*                                                                         *)
(* What else the tracker makes of a report is in AgentTracker.  Titles,    *)
(* prompts and the encoded directories of Claude Code are left out; no     *)
(* scan reaches its limit of files.                                        *)
(***************************************************************************)
EXTENDS Naturals

CONSTANTS
    Threads, Panes, Pids,
    Sessions,      \* The tmux sessions and
    Dirs, DirOf,   \* the directory of each
    Within,        \* <<inner, outer>>: one directory is below the other
    Worlds,        \* What files, processes and panes may be at startup
    Entries,       \* What agents write
    NoDir, NoPid, NoPane, Unborn, NoSession, NoRow, NoFile, NoSnapshot, NoLayout,
    Wait,          \* TOOL_USE_WAIT_MS
    Stuck,         \* STUCK_MS
    Recent,        \* AGENT_WATCHER_RECENT_MS
    Oldest,        \* Bound: how old files are at startup
    MaxTime,       \* Bound: the clock
    MaxEvents      \* Bound: what agents, users and plugins do, and readings that fail

Kinds == {"amp", "claude-code", "codex", "pi", "droid", "opencode"}
Statuses == {"idle", "running", "tool-running", "waiting", "done", "error", "interrupted",
             "stale"}
PaneStates == [session : Sessions, agent : {"amp", "none"}]
Quiet == {"done", "error", "interrupted", "stale"}
Files == [kind : Kinds, mtime : 0..Oldest, status : Statuses, tool : BOOLEAN,
          pid : Pids \cup {NoPid}, dir : Dirs]

ASSUME WatchersAssumption ==
    /\ DirOf \in [Sessions -> Dirs \ {NoDir}]
    /\ Worlds \subseteq [files : [Threads -> Files], old : [Threads -> Files \cup {NoFile}],
                         procs : [Pids -> Panes \cup {NoPane, Unborn}],
                         panes : [Panes -> PaneStates]]
    /\ \A w \in Worlds, t \in Threads :
           /\ w.files[t].kind # "amp" => w.files[t].pid = NoPid
           /\ w.files[t].pid # NoPid => w.procs[w.files[t].pid] # Unborn
           /\ w.old[t] # NoFile => /\ w.files[t].kind = "amp" /\ w.old[t].kind = "amp"
                                  /\ w.old[t].pid = NoPid
    /\ NoPid \notin Pids /\ {NoPane, Unborn} \cap Panes = {} /\ NoPane # Unborn
    /\ NoSession \notin Sessions /\ NoLayout \notin [Panes -> PaneStates]
    /\ {Wait, Stuck, Recent, Oldest, MaxTime, MaxEvents} \subseteq Nat
    /\ Oldest <= MaxTime

VARIABLES
    clock,
    files,     \* Thread -> what its file says
    old,       \* Thread -> what an old Amp thread file says, which nothing writes any more
    procs,     \* Pid -> the pane an Amp process runs in, NoPane once it has exited,
               \* Unborn before it starts
    panes,     \* Pane -> [session, agent], the agent its title or command names
    rows,      \* <<session, thread>> -> the tracker's row
    poll,      \* What the loop has read in this poll
    cache,     \* AgentPaneRouteCache
    seen,      \* Thread -> the snapshot applied last
    budget

world == <<clock, files, old, procs, panes>>
vars == <<world, rows, poll, cache, seen, budget>>

------------------------------------------------------------------------------
(* What a file says.                                                        *)

(* What an entry says of its agent: <<entry, status>>; other entries say    *)
(* nothing.                                                                 *)
Runs(entries) == entries \X {"running"}
AmpSays    == {<<"work", "running">>, <<"tool", "tool-running">>, <<"ask", "waiting">>,
               <<"end", "done">>, <<"fail", "error">>}
ClaudeSays == Runs({"prompt", "work", "tool", "result"})
              \cup {<<"end", "done">>, <<"abort", "interrupted">>}
CodexSays  == Runs({"prompt", "work", "tool", "result"})
              \cup {<<"end", "done">>, <<"abort", "interrupted">>}
PiSays     == Runs({"prompt", "tool", "result"})
              \cup {<<"work", "waiting">>, <<"end", "done">>, <<"fail", "error">>,
                    <<"abort", "interrupted">>}
DroidSays  == Runs({"prompt", "result"})
              \cup {<<"work", "done">>, <<"tool", "done">>, <<"ask", "waiting">>, <<"end", "done">>}
OpenCodeSays == Runs({"prompt", "tool", "work"})
                \cup {<<"end", "done">>, <<"fail", "error">>, <<"abort", "interrupted">>}
Says(kind) == CASE kind = "amp"         -> AmpSays
                [] kind = "claude-code" -> ClaudeSays
                [] kind = "codex"       -> CodexSays
                [] kind = "pi"          -> PiSays
                [] kind = "droid"       -> DroidSays
                [] kind = "opencode"    -> OpenCodeSays
Tells(kind, entry) == {status \in Statuses : <<entry, status>> \in Says(kind)}

(* Codex forgets a tool call with the next entry that has a status, Claude  *)
(* Code with any entry.                                                     *)
Forgets(kind, entry) == kind = "claude-code" \/ (kind = "codex" /\ Tells(kind, entry) # {})

(* The status after one more entry: the last that says something.  OpenCode *)
(* is asked for its last message only.                                      *)
StatusAfter(f, entry) ==
    IF Tells(f.kind, entry) # {} THEN CHOOSE status \in Tells(f.kind, entry) : TRUE
    ELSE IF f.kind = "opencode" THEN "idle" ELSE f.status

(* A file after one more entry, and whether it leaves a tool call open.     *)
Appended(f, entry) ==
    [f EXCEPT !.status = StatusAfter(f, entry),
              !.tool = IF Forgets(f.kind, entry) THEN entry = "tool" ELSE @]

(* Who runs and has written nothing for long is gone, and before that an    *)
(* unanswered tool call waits for the user.  Amp's files are believed.      *)
StatusAt(f, mtime, now) ==
    LET quietFor == IF now > mtime THEN now - mtime ELSE 0
    IN  IF f.kind = "amp" \/ f.status # "running" THEN f.status
        ELSE IF quietFor >= Stuck THEN "stale"
        ELSE IF f.kind \in {"claude-code", "codex"} /\ f.tool /\ quietFor >= Wait THEN "waiting"
        ELSE "running"

(* An Amp log without a state has no snapshot.                              *)
Snapshot(f, mtime, now) ==
    IF f.kind = "amp" /\ f.status = "idle" THEN NoSnapshot
    ELSE [status |-> StatusAt(f, mtime, now), ts |-> mtime]

(* What is read of a file whose mtime was read before.                      *)
Observed(t, f, mtime, now) ==
    [thread |-> t, kind |-> f.kind, mtime |-> mtime, pid |-> f.pid, dir |-> f.dir,
     snapshot |-> Snapshot(f, mtime, now)]

(* An old thread file and a log of one thread: the newer that can be read.  *)
Merged(legacy, log) ==
    IF log.snapshot # NoSnapshot /\ log.mtime > legacy.mtime THEN log
    ELSE [legacy EXCEPT !.mtime = IF log.mtime > @ THEN log.mtime ELSE @, !.pid = log.pid]

(* The sessions of a directory: those that have it, or else those above or  *)
(* below it.                                                                *)
Matches(dir) ==
    LET same == {s \in Sessions : DirOf[s] = dir}
    IN  IF same # {} THEN same
        ELSE {s \in Sessions : {<<dir, DirOf[s]>>, <<DirOf[s], dir>>} \cap Within # {}}

(* A directory tells the session if just one matches.                       *)
SessionOfDir(dir) ==
    IF \E s \in Sessions : Matches(dir) = {s} THEN CHOOSE s \in Sessions : Matches(dir) = {s}
    ELSE NoSession

------------------------------------------------------------------------------
(* Polls.  The seeding at startup reads in the same way.                    *)

Running(pid) == procs[pid] \in Panes

(* The fingerprint of tmux: everything that list-panes shows.               *)
Layout == panes

(* What is found is added to what was known, and replaces it.               *)
Nothing == [pid \in {} |-> NoRow]
Over(f, g) == [pid \in DOMAIN f \cup DOMAIN g |-> IF pid \in DOMAIN f THEN f[pid] ELSE g[pid]]

Asleep == [pc |-> "asleep", seeding |-> FALSE, now |-> 0, mtimes |-> [t \in Threads |-> 0],
           unread |-> {}, obs |-> {}, astray |-> {}, table |-> [pid \in Pids |-> NoPane],
           unlisted |-> {}, found |-> Nothing, lost |-> FALSE]
NoRoutes(layout) == [layout |-> layout, routes |-> Nothing, sure |-> TRUE]

Fails(ok) == IF ok THEN UNCHANGED budget
             ELSE budget > 0 /\ budget' = budget - 1

(* The seeding looks at files of any age, but not into OpenCode's database. *)
InWindow(f, now) ==
    /\ f # NoFile
    /\ IF poll.seeding THEN f.kind # "opencode" ELSE now <= f.mtime + Recent

(* The mtimes are read first, of the files in the window.                   *)
BeginScan ==
    /\ poll.pc \in {"asleep", "starting"}
    /\ poll' = [poll EXCEPT !.pc = "reading", !.now = clock,
                            !.mtimes = [t \in Threads |-> files[t].mtime],
                            !.unread = {t \in Threads : \/ InWindow(files[t], clock)
                                                        \/ InWindow(old[t], clock)}]
    /\ UNCHANGED <<world, rows, cache, seen, budget>>

(* One file after the other, one session after the other.                   *)
First(set) == CHOOSE x \in set : TRUE

ReadFile ==
    LET t      == First(poll.unread)
        legacy == Observed(t, old[t], old[t].mtime, poll.now)
        log    == Observed(t, files[t], poll.mtimes[t], poll.now)
        listed == poll.seeding \/ poll.now <= poll.mtimes[t] + Recent
    IN  /\ poll.pc = "reading" /\ poll.unread # {}
        /\ poll' = [poll EXCEPT
               !.unread = @ \ {t}, !.mtimes[t] = 0,
               !.obs = @ \cup {IF ~InWindow(old[t], poll.now) THEN log
                               ELSE IF listed THEN Merged(legacy, log) ELSE legacy}]
        /\ UNCHANGED <<world, rows, cache, seen, budget>>

(* Rows that were seeded go once their file shows newer activity.           *)
ReleaseSeeds ==
    /\ poll.pc = "reading" /\ poll.unread = {} /\ ~poll.seeding
    /\ rows' = [k \in Sessions \X Threads |->
           IF rows[k] # NoRow /\ rows[k].seeded
              /\ \E o \in poll.obs : /\ o.thread = k[2] /\ o.kind # "opencode"
                                    /\ o.mtime > rows[k].ts
           THEN NoRow ELSE rows[k]]
    /\ poll' = [poll EXCEPT !.pc = "released"]
    /\ UNCHANGED <<world, cache, seen, budget>>

(* Whose directory, if any, does not tell: also when no session is listed.  *)
FindAstray(ok) ==
    LET written == {o \in poll.obs : /\ o.pid # NoPid /\ o.snapshot # NoSnapshot
                                     /\ o.snapshot.status # "idle"}
        astray  == {o.thread : o \in {o \in written : SessionOfDir(o.dir) = NoSession \/ ~ok}}
    IN  /\ poll.pc = "released"
        /\ ok \/ \E o \in written : o.dir # NoDir
        /\ Fails(ok)
        /\ poll' = [poll EXCEPT !.astray = astray,
                                !.pc = IF astray = {} THEN "applying" ELSE "astray"]
        /\ UNCHANGED <<world, rows, cache, seen>>

Wanted == {o.pid : o \in {o \in poll.obs : o.thread \in poll.astray}}

(* What is remembered of another layout, or of none, is forgotten.          *)
CacheFor_Retagged(ok) == [cache EXCEPT !.layout = IF ok THEN Layout ELSE NoLayout]
CacheFor(ok) == IF ok /\ cache.layout = Layout THEN cache
                ELSE NoRoutes(IF ok THEN Layout ELSE NoLayout)
CheckCache(ok) ==
    /\ poll.pc = "astray"
    /\ Fails(ok)
    /\ cache' = CacheFor(ok)
    /\ poll' = [poll EXCEPT !.pc = IF Wanted \subseteq DOMAIN cache'.routes
                                   THEN "applying" ELSE "table"]
    /\ UNCHANGED <<world, rows, seen>>

(* ps, before the panes.  The seeding reads it if any file has a pid.       *)
ReadTable(ok) ==
    LET table == [pid \in Pids |-> IF Running(pid) THEN procs[pid] ELSE NoPane]
        read  == [poll EXCEPT !.pc = "listing", !.table = table, !.unlisted = Sessions]
    IN  /\ \/ poll.pc = "table"
           \/ /\ poll.pc = "reading" /\ poll.unread = {} /\ poll.seeding
              /\ \E o \in poll.obs : o.pid # NoPid
        /\ Fails(ok)
        /\ poll' = IF ok THEN read
                   ELSE [poll EXCEPT !.pc = IF poll.seeding THEN "seeding" ELSE "applying"]
        /\ UNCHANGED <<world, rows, cache, seen>>

(* The agent panes of one session, with the Amp processes in each.          *)
ListPanes(ok) ==
    LET s      == First(poll.unlisted)
        here   == {pid \in Pids : /\ poll.table[pid] # NoPane
                                  /\ panes[poll.table[pid]] = [session |-> s, agent |-> "amp"]}
        places == [pid \in here |-> [session |-> s, pane |-> poll.table[pid]]]
    IN  /\ poll.pc = "listing" /\ poll.unlisted # {}
        /\ Fails(ok)
        /\ poll' = [poll EXCEPT
               !.unlisted = @ \ {s}, !.lost = @ \/ ~ok,
               !.found = IF ok THEN Over(places, @) ELSE @]
        /\ UNCHANGED <<world, rows, cache, seen>>

(* Who was not found is remembered as well, as running nowhere.             *)
RememberRoutes ==
    /\ poll.pc = "listing" /\ poll.unlisted = {}
    /\ cache' = IF poll.seeding THEN cache
                ELSE [cache EXCEPT !.routes = Over(poll.found, Over([pid \in Wanted |-> NoRow], @)),
                                   !.sure = @ /\ ~poll.lost]
    /\ poll' = IF poll.seeding THEN [poll EXCEPT !.pc = "seeding", !.table = Asleep.table]
               ELSE [poll EXCEPT !.pc = "applying", !.table = Asleep.table, !.found = Nothing,
                                 !.lost = FALSE]
    /\ UNCHANGED <<world, rows, seen, budget>>

(* A snapshot goes to the pane its process was found in, or else to the     *)
(* session of its directory; with neither it is not remembered as seen.  An *)
(* Amp snapshot yields to a newer row in any session.                       *)
Route(o) == IF o.thread \in poll.astray /\ o.pid \in DOMAIN cache.routes
            THEN cache.routes[o.pid] ELSE NoRow
Newer(o) == \E s \in Sessions : /\ rows[<<s, o.thread>>] # NoRow
                               /\ rows[<<s, o.thread>>].ts > o.snapshot.ts

(* A report without a pane keeps the row's.  One that says nothing new of a *)
(* seed leaves it; any other replaces the seeds of its agent that are not   *)
(* in another pane, and the agent's other threads are no longer in its pane. *)
Restates(key, report) ==
    /\ rows[key] # NoRow /\ rows[key].seeded
    /\ rows[key].status = report.status /\ report.ts <= rows[key].ts
Reported(key, report) ==
    LET others == {k \in {key[1]} \X {t \in Threads : files[t].kind = files[key[2]].kind} :
                      k # key /\ rows[k] # NoRow}
        pane   == IF report.pane # NoPane \/ rows[key] = NoRow THEN report.pane
                  ELSE rows[key].pane
        seeds  == {k \in others : /\ rows[k].seeded
                                  /\ report.pane # NoPane => rows[k].pane \in {NoPane, report.pane}}
        left   == {k \in others : pane # NoPane /\ rows[k].pane = pane /\ rows[k].ts <= report.ts}
    IN  IF Restates(key, report) THEN rows
        ELSE [k \in DOMAIN rows |-> IF k = key THEN [report EXCEPT !.pane = pane]
                                    ELSE IF k \in seeds THEN NoRow
                                    ELSE IF k \in left THEN [rows[k] EXCEPT !.pane = NoPane]
                                    ELSE rows[k]]

IsNews_ByStatus(o, live) ==
    seen[o.thread] # NoRow => seen[o.thread].status # live.status
IsNews(o, live) == seen[o.thread] # live

ApplySnapshot(ok) ==
    LET o       == First(poll.obs)
        route   == Route(o)
        live    == [status |-> o.snapshot.status, ts |-> o.snapshot.ts, dir |-> o.dir,
                    route |-> route]
        fresh   == o.snapshot # NoSnapshot /\ o.snapshot.status # "idle" /\ IsNews(o, live)
        session == IF route # NoRow THEN route.session
                   ELSE IF ok THEN SessionOfDir(o.dir) ELSE NoSession
        applies == fresh /\ session # NoSession /\ (o.kind = "amp" => ~Newer(o))
        report  == [status |-> o.snapshot.status, ts |-> o.snapshot.ts, seeded |-> FALSE,
                    pane |-> IF route # NoRow THEN route.pane ELSE NoPane]
    IN  /\ poll.pc = "applying" /\ poll.obs # {}
        /\ ok \/ (fresh /\ route = NoRow /\ o.dir # NoDir)
        /\ Fails(ok)
        /\ rows' = IF applies THEN Reported(<<session, o.thread>>, report) ELSE rows
        /\ seen' = IF applies THEN [seen EXCEPT ![o.thread] = live] ELSE seen
        /\ poll' = [poll EXCEPT !.obs = @ \ {o}]
        /\ UNCHANGED <<world, cache>>

EndPoll ==
    /\ poll.pc = "applying" /\ poll.obs = {}
    /\ poll' = Asleep
    /\ UNCHANGED <<world, rows, cache, seen, budget>>

------------------------------------------------------------------------------
(* The seeding.                                                             *)

(* Where an observation counts: at the pane of its process, in the session  *)
(* of its directory, or anywhere; with a process in no pane nowhere.        *)
Anywhere == [session |-> NoSession, pane |-> NoPane]
Placed(o) == o.pid = NoPid \/ o.pid \in DOMAIN poll.found
PlaceOf(o, ok) ==
    IF o.pid # NoPid THEN poll.found[o.pid]
    ELSE [session |-> IF ok THEN SessionOfDir(o.dir) ELSE NoSession, pane |-> NoPane]

Latest(times) == CHOOSE n \in times : \A m \in times : m <= n

(* What of its agent is placed where it is, and what could be activity      *)
(* there: without a pane also what is placed in the session or anywhere.    *)
At(o, placed, ok) == {p \in placed : p.kind = o.kind /\ PlaceOf(p, ok) = PlaceOf(o, ok)}
Near_SamePlace(o, placed, ok) == At(o, placed, ok)
Near(o, placed, ok) ==
    IF PlaceOf(o, ok).pane # NoPane THEN At(o, placed, ok)
    ELSE {p \in placed : /\ p.kind = o.kind
                         /\ \/ PlaceOf(p, ok) = Anywhere
                            \/ PlaceOf(p, ok).session = PlaceOf(o, ok).session}

(* One seed for each agent and place: its newest thread, if that is quiet,  *)
(* dated by whatever could be that agent's activity.                        *)
Seeds(observations, ok) ==
    LET placed == {o \in observations : Placed(o)}
        newest(o) == LET at == At(o, placed, ok)
                     IN  o = CHOOSE p \in at : \A q \in at : q.mtime <= p.mtime
    IN  {[thread |-> o.thread, kind |-> o.kind, place |-> PlaceOf(o, ok),
          status |-> o.snapshot.status,
          ts |-> Latest({p.mtime : p \in Near(o, placed, ok)})] :
            o \in {o \in placed : /\ PlaceOf(o, ok) # Anywhere /\ newest(o)
                                  /\ o.snapshot # NoSnapshot /\ o.snapshot.status \in Quiet}}

Seeded(set, current) ==
    LET taken(s) ==
            \/ current[<<s.place.session, s.thread>>] # NoRow
            \/ \E t \in Threads :
                   /\ current[<<s.place.session, t>>] # NoRow
                   /\ IF s.place.pane # NoPane
                      THEN current[<<s.place.session, t>>].pane = s.place.pane
                      ELSE files[t].kind = s.kind
        free == {s \in set : ~taken(s)}
        seedOf(k) == CHOOSE s \in free : <<s.place.session, s.thread>> = k
    IN  [k \in Sessions \X Threads |->
            IF \E s \in free : <<s.place.session, s.thread>> = k
            THEN [status |-> seedOf(k).status, ts |-> seedOf(k).ts, seeded |-> TRUE,
                  pane |-> seedOf(k).place.pane]
            ELSE current[k]]

(* Those in a pane first, which the others yield to.                        *)
ApplySeeds(ok) ==
    LET seeds == Seeds(poll.obs, ok)
        bound == {s \in seeds : s.place.pane # NoPane}
    IN  /\ poll.seeding
        /\ \/ poll.pc = "seeding"
           \/ poll.pc = "reading" /\ poll.unread = {} /\ \A o \in poll.obs : o.pid = NoPid
        /\ ok \/ \E o \in poll.obs : o.dir # NoDir
        /\ Fails(ok)
        /\ rows' = Seeded(seeds \ bound, Seeded(bound, rows))
        /\ poll' = Asleep
        /\ UNCHANGED <<world, cache, seen>>

------------------------------------------------------------------------------
(* The world.                                                               *)

Moves == budget > 0 /\ budget' = budget - 1 /\ UNCHANGED <<rows, seen>>

(* Rows that a plugin posted are not written about in the same instant.     *)
Write(t, entry, dir) ==
    /\ Moves
    /\ \A s \in Sessions : rows[<<s, t>>] # NoRow => rows[<<s, t>>].ts < clock
    /\ \E pid \in IF files[t].kind = "amp" THEN {p \in Pids : Running(p)} ELSE {NoPid} :
           files' = [files EXCEPT ![t] = [Appended(@, entry) EXCEPT
                        !.mtime = clock, !.pid = pid, !.dir = dir]]
    /\ dir = files[t].dir \/ files[t].kind = "amp"
    /\ UNCHANGED <<clock, old, procs, panes, poll, cache>>

(* An agent starts or exits.  No pid is used twice.                         *)
Start(pid, p) ==
    /\ Moves
    /\ procs[pid] = Unborn
    /\ procs' = [procs EXCEPT ![pid] = p]
    /\ UNCHANGED <<clock, files, old, panes, poll, cache>>

Exit(pid) ==
    /\ Moves
    /\ Running(pid)
    /\ procs' = [procs EXCEPT ![pid] = NoPane]
    /\ UNCHANGED <<clock, files, old, panes, poll, cache>>

(* A pane gets another title, or moves to another session.  History: what a *)
(* poll finds while that happens may be of neither layout.                  *)
ChangePane(p, pane) ==
    /\ Moves
    /\ panes[p] # pane
    /\ panes' = [panes EXCEPT ![p] = pane]
    /\ poll' = [poll EXCEPT !.lost = @ \/ (poll.pc \in {"table", "listing"} /\ ~poll.seeding)]
    /\ UNCHANGED <<clock, files, old, procs, cache>>

(* A plugin reports the end of a turn before the file shows it.             *)
Post(s, t) ==
    /\ budget > 0 /\ budget' = budget - 1
    /\ clock > files[t].mtime
    /\ rows' = Reported(<<s, t>>, [status |-> "done", ts |-> clock, seeded |-> FALSE,
                                   pane |-> NoPane])
    /\ UNCHANGED <<world, poll, cache, seen>>

Tick ==
    /\ clock < MaxTime
    /\ clock' = clock + 1
    /\ UNCHANGED <<files, old, procs, panes, rows, poll, cache, seen, budget>>

------------------------------------------------------------------------------
Init ==
    /\ clock = Oldest
    /\ \E w \in Worlds : /\ files = w.files /\ old = w.old
                         /\ procs = w.procs /\ panes = w.panes
    /\ rows = [k \in Sessions \X Threads |-> NoRow]
    /\ poll = [Asleep EXCEPT !.pc = "starting", !.seeding = TRUE]
    /\ cache = NoRoutes(NoLayout)
    /\ seen = [t \in Threads |-> NoRow]
    /\ budget = MaxEvents

PollStep ==
    \/ BeginScan \/ ReadFile \/ ReleaseSeeds \/ RememberRoutes \/ EndPoll
    \/ \E ok \in BOOLEAN : \/ FindAstray(ok) \/ CheckCache(ok) \/ ReadTable(ok)
                           \/ ListPanes(ok) \/ ApplySnapshot(ok) \/ ApplySeeds(ok)

Next ==
    \/ PollStep \/ Tick
    \/ \E t \in Threads : \/ \E e \in Entries, dir \in {w.files[t].dir : w \in Worlds} :
                                 Write(t, e, dir)
                          \/ \E s \in Sessions : Post(s, t)
    \/ \E pid \in Pids : Exit(pid) \/ \E p \in Panes : Start(pid, p)
    \/ \E p \in Panes, s \in Sessions, a \in {"amp", "none"} :
           ChangePane(p, [session |-> s, agent |-> a])

Spec == Init /\ [][Next]_vars

(* The loop polls as long as the server runs.                               *)
FairSpec == Spec /\ WF_vars(PollStep)

------------------------------------------------------------------------------
(* Properties.                                                              *)

Times     == 0..MaxTime
Written   == [kind : Kinds, mtime : Times, status : Statuses, tool : BOOLEAN,
              pid : Pids \cup {NoPid}, dir : Dirs]
Snapshots == [status : Statuses, ts : Times] \cup {NoSnapshot}
Observations == [thread : Threads, kind : Kinds, mtime : Times, pid : Pids \cup {NoPid},
                 dir : Dirs, snapshot : Snapshots]
Places    == [session : Sessions, pane : Panes]
Rows      == [status : Statuses, ts : Times, seeded : BOOLEAN, pane : Panes \cup {NoPane}]
Lives     == [status : Statuses, ts : Times, dir : Dirs, route : Places \cup {NoRow}]
Partial(S) == UNION {[pids -> S] : pids \in SUBSET Pids}
Polls     == [pc : {"asleep", "starting", "reading", "released", "astray", "table", "listing",
                    "seeding", "applying"},
              seeding : BOOLEAN, now : Times, mtimes : [Threads -> Times],
              unread : SUBSET Threads, obs : SUBSET Observations, astray : SUBSET Threads,
              table : [Pids -> Panes \cup {NoPane}], unlisted : SUBSET Sessions,
              found : Partial(Places), lost : BOOLEAN]
Caches    == [layout : [Panes -> PaneStates] \cup {NoLayout},
              routes : Partial(Places \cup {NoRow}), sure : BOOLEAN]

TypeOK ==
    /\ clock \in Times
    /\ files \in [Threads -> Written] /\ old \in [Threads -> Written \cup {NoFile}]
    /\ procs \in [Pids -> Panes \cup {NoPane, Unborn}] /\ panes \in [Panes -> PaneStates]
    /\ rows \in [Sessions \X Threads -> Rows \cup {NoRow}]
    /\ poll \in Polls /\ cache \in Caches
    /\ seen \in [Threads -> Lives \cup {NoRow}]
    /\ budget \in 0..MaxEvents

(* What is remembered of an Amp process is where it runs as long as tmux    *)
(* looks the same, unless a listing failed or the layout changed while it   *)
(* was made: a thread is not shown in a pane its agent does not run in, nor *)
(* missing while its agent runs in a pane that is known as Amp's.           *)
(* route_unattributed_observations takes the fingerprint first.             *)
PlaceNow(pid) ==
    IF ~Running(pid) \/ panes[procs[pid]].agent # "amp" THEN NoRow
    ELSE [session |-> panes[procs[pid]].session, pane |-> procs[pid]]
RoutesAreTrue ==
    cache.layout = Layout /\ cache.sure =>
        \A pid \in DOMAIN cache.routes :
            Running(pid) => cache.routes[pid] = PlaceNow(pid)

(* A seed never claims an agent has been idle for longer than any activity  *)
(* that could be its own shows: none of the pane, and without a pane none   *)
(* of the session nor of unknown place (seed_agent_watcher_observations).   *)
MayBeOf(o, s) ==
    /\ o.kind = s.kind
    /\ IF o.pid # NoPid
       THEN /\ o.pid \in DOMAIN poll.found /\ poll.found[o.pid].session = s.session
            /\ s.pane # NoPane => poll.found[o.pid].pane = s.pane
       ELSE s.pane = NoPane /\ SessionOfDir(o.dir) \in {s.session, NoSession}
SeedsAreNotOlder ==
    [][\A s \in Sessions, t \in Threads :
          rows[<<s, t>>] = NoRow /\ rows'[<<s, t>>] # NoRow /\ rows'[<<s, t>>].seeded =>
              \A o \in poll.obs :
                  MayBeOf(o, [kind |-> files[t].kind, session |-> s, pane |-> rows'[<<s, t>>].pane])
                      => o.mtime <= rows'[<<s, t>>].ts]_vars

(* A thread whose file is recent and whose place is known ends up shown     *)
(* there as its file says, whatever failed before, unless newer news of it  *)
(* was posted, or its seed was given up for another thread's news:          *)
(* AgentWatcherPoll::run remembers only what it could apply.                *)
(* Of two files of one thread, the newer that can be read.                  *)
Current(t) ==
    IF old[t] # NoFile /\ clock <= old[t].mtime + Recent
       /\ (files[t].mtime <= old[t].mtime \/ files[t].status = "idle")
    THEN [old[t] EXCEPT !.pid = files[t].pid] ELSE files[t]
StatusNow(t) == StatusAt(Current(t), Current(t).mtime, clock)
SessionNow(t) ==
    IF SessionOfDir(Current(t).dir) # NoSession THEN SessionOfDir(Current(t).dir)
    ELSE IF Current(t).pid = NoPid \/ PlaceNow(Current(t).pid) = NoRow THEN NoSession
    ELSE PlaceNow(Current(t).pid).session
Due(t) ==
    /\ clock <= Current(t).mtime + Recent
    /\ StatusNow(t) # "idle" /\ SessionNow(t) # NoSession
    /\ \A s \in Sessions : rows[<<s, t>>] # NoRow => rows[<<s, t>>].ts <= Current(t).mtime
    /\ seen[t] # NoRow => \E s \in Sessions : rows[<<s, t>>] # NoRow
    /\ cache.sure
ShownAsWritten(t) ==
    \E s \in Sessions : /\ s = SessionNow(t) /\ rows[<<s, t>>] # NoRow
                        /\ rows[<<s, t>>].status = StatusNow(t)
                        /\ rows[<<s, t>>].ts = Current(t).mtime
FilesAreShown == \A t \in Threads : <>[]Due(t) => []<>ShownAsWritten(t)
=============================================================================
