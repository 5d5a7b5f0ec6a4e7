# opensessions: a TLA+ model

opensessions keeps a sidebar in every tmux window that lists the tmux sessions and the coding
agents running in them. A Rust server, one per tmux server, decides where sidebars exist and what
they show; every sidebar is a client process in a tmux pane, connected by websocket. This directory
models the parts of the system where interleavings, crashes and late messages decide whether it is
correct, checks them with TLC and proves the most important results with TLAPS.

Paths below are relative to the repository; paths without a directory are in `apps/server-rs/src/`
(`lib.rs`, `main.rs`) or `packages/runtime-rs/src/` (the others).

## Inventory

| Component | State | Operations | What is hard | What makes it correct |
|---|---|---|---|---|
| `SidebarCoordinator` (`packages/runtime-rs/src/sidebar_coordinator.rs`) | visible, hidden by the user, lifecycle, warmup deadline | begin warmup, ready, acknowledge, hide, close, tick | called from requests, the timer and the shutdown in any order | closing is final; hidden stays hidden |
| Sidebar operations (`apps/server-rs/src/lib.rs`: toggle, ensure, identify-pane, pane-exited, startup, cleanup) | tmux panes, hooks, the option `@opensessions_sidebar_visible` | one per request | several tmux commands each, shutdown and crashes between any two | one sidebar per window; the recorded choice is what a restart restores |
| `AgentTracker` (`packages/runtime-rs/src/tracker.rs`) | rows per session and agent thread, unseen keys, seeded keys | apply event or seed, presence, seen, prune, rename, hibernate | three sources of reports, titles, listings out of date | unseen stays until the user looks and is never shown for an agent that runs; a hibernated row stays so |
| Ingestion (`lib.rs`: agent events, watcher loop, presence passes, focus) | resolved sessions, fingerprints, pane routes | resolve, then apply under the mutex, then mark seen | the world changes between resolving and applying | newer news wins; rows follow their session |
| Auto-hibernation (`lib.rs`, `hibernate.rs`) | planned targets, processes | plan, SIGTERM, wait, SIGKILL, mark | the user returns during the grace period | a process in use is never stopped |
| Identity (`lib.rs`: pid and token files) | two files and a lock | publish, repair, remove | two generations at once, crashes between the files | an old generation never cleans up a new one |
| Server lifecycle (`lib.rs`, `main.rs`) | phases, background loops | start, announce, drain, clean up | shutdown during startup | it ends, and leaves nothing behind |
| State broadcast (`lib.rs`) | latest state, broadcast channel of 16 | publish, subscribe, lag, coalesce | old snapshots after new ones, slow clients | clients end up with the newest state |
| Client settings (`lib.rs`, `sidebar-core-rs/src/app.rs`) | settings revision, optimistic values | set, confirm, apply | snapshots older than a change | a change is not undone by older state |
| Session order (`session_order.rs`) | order, hidden names, a file | sync, move, hide, rename | failed listings | order survives |
| Remain-on-exit (`tmux_provider.rs`, `tmux_scripting.rs`) | forced option, saved value, dead panes | force, restore, sweep | crashes between two options; two sweepers | the user's own value comes back |
| Width repair (`lib.rs`) | pending count, notification | request, take, repair | requests during a repair; drags | no request is lost |
| Agent watchers and parsers (`agent_watchers.rs`, `lib.rs`) | files of six agents, the process table, remembered routes, what was applied last | seed, scan, place, apply | files, processes and panes change between any two readings, each of which may fail | a thread is shown where its agent runs; nothing written stays unshown |
| Sidebar client (`packages/sidebar-core-rs/src`, `apps/tui-rs`) | list, focus, modal, pending switch | keys, clicks, messages | another sidebar or tmux changes what the focus is on | the focus is on something displayed |
| Connections (`lib.rs`) | permits per kind of connection | admit, refuse, count | watching tools hold connections for hours | sidebars keep their places |
| Start lock (`server-common.sh`) | a lock file with its owner | acquire, break, release | several waiters break one stale lock | one launcher at a time |
| tmux commands, git, ports, configuration, rendering, plugins | files, terminals | input and output | formats | left to unit tests |

How they interact: requests arrive by HTTP (the hooks the server installs in tmux, launcher scripts,
agents' plugins) and by websocket (sidebars). Requests that touch tmux run one at a time under the
*state-operation lock*, in arrival order, on a blocking pool; posted agent events run one at a time
under the *ingestion lock* beside them; background loops (watchers, tmux poll, lifecycle timer,
hibernation, width repair) run under neither. The coordinator and the tracker each have a mutex held
for one method call. What survives a server process is in tmux: panes, hooks, options.

## Modules

Every component has a module with its state, `Init`, one action per operation or step, `Next` and
its properties. An operator named `Definition_Defect` is what a plausible bug would make of
`Definition`: with it in place the property that `PROJECT.json` names beside it fails, so none of
the properties holds by the shape of the model. Nothing else refers to these operators.

| Module | Models | Uses |
|---|---|---|
| `SidebarCoordinator` | the coordinator's methods, as operators on its record | |
| `SidebarChoice` | the abstract promise: the user's choice is recorded before a sidebar appears and taken back after the last one went, and hidden stays hidden | |
| `SidebarVisibility` | requests, startup, timer, shutdown, cleanup and crashes of server generations | extends `SidebarCoordinator`, implements `SidebarChoice` (`INSTANCE ... WITH`) |
| `AgentTracker` | the tracker's methods, and ingestion, presence, focus, aging and renames around its mutex | |
| `AgentHibernation` | the passes that stop quiet agents, against users, agents and the kernel | |
| `AgentWatchers` | what the files of agents say, the seeding, the polls, and how threads are placed | |
| `GenerationRegistry` | the abstract promise: one generation serves at a time, and only tmux or nobody takes hooks away | |
| `ServerGenerations` | port, pid and token files, identity lock, startup, drain and cleanup of several processes | implements `GenerationRegistry` (`INSTANCE ... WITH`) |
| `ConnectionLimits` | the arithmetic of the connection limits, as operators | |
| `StateBroadcast` | snapshots, the broadcast channel and its cache, connections, admission, shutdown | |
| `SessionOrder` | the session order store, as operators | |
| `SidebarApp` | the client's `App`: every key, click and message, as operators | |
| `SidebarClients` | several sidebars and their server | extends `SidebarApp`, `SessionOrder` |
| `RemainOnExit` | the forced option, its saved value and dead panes of one window | |
| `WidthRepair` | the fixed width, the coalescing repairs, hooks and drags | |
| `MC...` | definitions of the constants of a run, symmetry | extend their module |
| `...Proofs` | the inductive invariant and the theorems (`SidebarPanesProofs`: of `SidebarVisibility` and `WidthRepair`, which share the sidebar panes) | extend their module, TLAPS |

### SidebarChoice and SidebarVisibility

`SidebarChoice` is what the user may rely on, whichever generation serves: `shown` windows, the
recorded `choice` and the `life` of a generation. `SidebarVisibility` maps to it (`ImplementsChoice`)
with the windows whose pane is a sidebar's, the tmux option, and the phase of the server and of its
coordinator.

State: `windows` that exist, the sidebar pane of each in `panes`, the installed `hooks`, the recorded
`preference` (the tmux option), the `coordinator` of the running generation, the phase of the
`server`, the `queue` of accepted requests, the operation `op` that holds the state-operation lock,
and how the last generation ended.

An operation is a program: `op.pc` is the next tmux command or the next hold of the coordinator's
mutex. `ToggleCheck`, `ToggleList`, `ToggleKill`, `ToggleHide`, `ToggleRecordOff` are the hide half
of `toggle_sidebar`, `ToggleWarm`, `ToggleRecordOn`, `Spawn` its show half; `EnsureCheck`,
`EnsureList`, `EnsureWarm`, `Spawn` are `ensure_sidebar` and `ensure_all_sidebars`, which startup
and `identify-pane` also call. Everything else interleaves between two steps: user and tmux events
enqueue requests, `LifecycleTick` and `PollSweep` are background loops, `BeginShutdown` is
`announce_once`, `CleanupHooks` and `CleanupSidebars` are `cleanup_owned_generation`, which a generation
that lost its identity leaves out (`SkipCleanup`), `EndGeneration` is the return of `start_server`, and
`Crash` ends the process anywhere and leaves what tmux holds.

- A sidebar pane is `starting` (spawned, its client not connected), `connected`, `leaving` (its
  server is gone), or `dead` (kept by `remain-on-exit`).
- A window whose last content pane exits takes its sidebar along in one step (`CloseWindow`): tmux
  runs the orphan pipeline of the `pane-exited` hook by itself.
- `remain-on-exit` and widths have modules of their own; focus is not state here.
- A tmux command on a window that exists succeeds, and tmux is there at cleanup.
- One generation acts on tmux at a time; `ServerGenerations` is about two. After `EndGeneration` the
  process may linger for its watcher thread (`Exit` there): it does nothing any more, and a successor
  may have the port.
- The deadline of a warmup is only whether one is set: it may expire at any time.

### AgentTracker

`tracker` is the record behind the mutex: a row per instance key, the set of unseen keys and the set
of seeded keys, which the code keeps beside the rows and so does the model. Every method is an
operator on it (`ApplyEvent`, `ApplySeed`, `Rename`, `PruneStuck`, ...); an action applies one. The
other variables are what is in flight around the mutex: an event resolved but not applied, a
snapshot checked but not applied, the presence pass in progress, a rename whose references have not
followed, and what names the sessions have.

- A pass holds the mutex over several steps (`PassBegin`, `PassPane` once per listed pane in any
  order, `PassEnd`); nothing else changes the tracker meanwhile (`Unlocked`). Its listing is
  arbitrary: it was taken before the mutex, and panes change.
- Whether a client shows a pane is arbitrary wherever the code asks tmux.
- Fetching the existing row and comparing timestamps (`SnapshotCheck`) is one step; applying is
  another, as in the code.
- Statuses no method distinguishes are one; prompts, the sparkline's timestamps, fingerprints that
  suppress repeated snapshots, and synthetic pane rows, which nothing creates any more, are left out.
- Renames made in tmux behind the server's back are not followed by the code and not modelled.
- `UnseenIsNotLost` names what may take the mark of an unseen row: the user's look, news of its agent, a
  named thread that absorbs a provisional row, and hibernation (`mark_hibernated` clears it although
  nobody looked). A rename takes row and mark along.
- `reused` is a history variable: names a rename took over while entries were filed under them.
  What the tracker promises of unseen rows does not hold for them (see *What the models show*), so
  the properties except them by name.

### AgentHibernation

A pass of the auto-hibernation loop is a program in `stage`: read what is looked at, take the
candidates under the mutex, read the process table and the logs, plan each candidate
(`PlanCandidate`), read the table again, send SIGTERM (`Terminate`), wait, read it a third time,
re-check once and send SIGKILL to survivors (`ViewSurvivors`, `Recheck`, `Escalate`), mark the rows
(`hibernate_idle_agent_panes`, `terminate_agent_processes_if`). The variables beside it are what the pass
has read, `signals` and `woken` are history. Between any two steps users look elsewhere, agents
report, wake, start, exit and leave their children to init, presence passes bind rows, and every
reading of the process table may fail.

- The agent is Amp, whose log names its process; the other agents go through the same code without
  the two checks of the log.
- Processes are told apart by their command line. A pid may be recycled by another command line, but
  not by the same one within a pass, nor between a reading of the table and the signals sent from it
  (the guard of `Starts`): the code cannot see either.
- Quiet is one state of a row: the threshold has passed or it has not.

### GenerationRegistry and ServerGenerations

`GenerationRegistry` is what the rest of the system assumes: at most one generation serves, hooks
appear only in a tmux that runs, and they go only while nobody serves or with tmux.
`ServerGenerations` maps to it with `serving` the process that serves (`ImplementsRegistry`).

A process (`gen[s]`) is a startup task, a liveness watcher, an identity task and a main task, each
with its program counter. The port is the mutual exclusion; the identity lock (`lock`) serialises
publication, repair and cleanup (`publish_identity_locked`, `repair_identity_if_missing`,
`cleanup_owned_generation`), where each file is written or removed in a step of its own. The
environment crashes processes, removes files (`FileVanishes`), stops and starts tmux, and runs the
plugin's upgrade (`opensessions.tmux`), which kills a process and then removes the pid file without
the lock.

- The runtime of a server has one thread. While the identity task writes the files no other task of
  the process runs (`RuntimeFree`); blocking threads go on.
- Every tick of the identity task takes the lock on that thread before it looks at the files, and would
  stall the server if another process kept it. None does: a cleanup keeps the lock only after it found
  its own identity published, so nobody else serves, and one that finds another's only reads two files
  (`TicksNeverWait`, proved). So `BeginRepair` has no state of waiting, and a tick that finds the files
  in place is a step that changes nothing.
- Tasks of one process that a signal wakes run before its 120 ms drain ends (`EndDrain`). A signal that
  comes while the runtime stands still is heard later (`Terminate`).
- What requests do meanwhile is `SidebarVisibility`.

### StateBroadcast and ConnectionLimits

A snapshot is the number of changes it shows. `inbox` holds what each receiver of the broadcast
channel has not read: a send keeps the newest `Capacity` messages and notes a lag. Building and
sending are two steps of every task (`Publish` is the second), the cache is a receiver like the
connections, a connection subscribes, takes the cached state and then loops (`Connects`, `LoopsOnce`),
holding back all but the latest snapshot in `pending`. The refresher takes coalesced requests, and its
snapshot may fail. A switch is announced with an activation and followed by a request; an
`/ensure-sidebar` hook announces an activation and nothing else (`Ensures`).
Admission is by two permits. A shutdown is requested, signalled, announced to the clients and
drained.

- `late` clients subscribed after a send the cache had not stored yet: they miss that state until the
  next broadcast. `warned` connections can be reached by the shutdown channel only. Both are
  exempted by name.
- `after` counts the activations since the last snapshot, `dropped` is the change that a failed snapshot
  of the refresher was to show; both are history. `EveryoneCatchesUp` speaks of fewer activations than
  the channel holds, `RefreshIsNotLost` of changes that were not dropped.
- A client is admitted and subscribed in one step (`Connects`), although the code checks the
  announcement in between; one that is let in just before it and subscribes after it is told nothing.
- The cache stores nothing once a shutdown is queued; a startup snapshot that fails leaves early
  clients waiting for the next broadcast.
- `ConnectionLimits` is the arithmetic that gives the limits their values; `MCStateBroadcast` assumes
  its bounds of the limits it uses.

### SidebarApp, SessionOrder and SidebarClients

`SidebarApp` is `App` as a record and every method as an operator on it: navigation, modals,
filters, groups, optimistic settings, every server message. `SessionOrder` is the store. In
`SidebarClients` each sidebar runs an `App` at one end of a websocket; the server handles a command
in one step under the state-operation lock, but what it broadcasts follows after the lock is
released (`ServerPublishes`), background loops build snapshots without the lock (`due`, `built`),
and hooks of tmux arrive when they arrive (`hooks`). `held` is the debounced width. Of the commands about
agents, killing broadcasts nothing, focusing only when a row became seen, and dismissing has no arm in
the server.

- `seen` is history: the newest revision of the settings and the session that was current in what
  each sidebar read last. Snapshots overtake each other (see *What the models show*), so what is
  settled can only be asked of a sidebar that has read the latest.
- The user of one sidebar is one sequence of keys and clicks, with what opens in between.
- Layout, scrolling, colours and external programs are left out; sizes are small numbers.
- The server follows hooks in the order they arrive, and a sidebar is identified once (a rename
  between its resolution and its answer is not followed by the code either).

### RemainOnExit

One window with content panes and sidebar panes: a pane is unborn, alive, dead with a status, or
gone. `own` and `global` are the user's values of `remain-on-exit`, `option` what is set, `saved`
the option that holds the user's value while `on` is forced. `proc` are the operation, the lifecycle
task, the poll sweep and the two hook scripts, each a program over tmux commands
(`ensure_window_remain_on_exit`, `restore_window_remain_on_exit`, `dead_pane_cleanup`, the pane-died
script).

- The scripts of two pane-died hooks run one after the other.
- `/pane-exited` requests may arrive any time after an exit; a window that closes ends the behaviour.
- The poll sweeps only when the fingerprint of tmux changed (`changed`).
- `blind` is history: a cleanup looked between the forcing and the saving, so nobody restores.
- Panes the hook's own kill-window takes without listing them are exempted in `OnlyRemovablePanesGo`.

### WidthRepair

`bar` is the width of each sidebar pane, `configured` the coordinator's width, `hint` and `marker`
the options the scripts read. `pending` and `permit` are `SidebarWidthRepairScheduler`: requests
coalesce into a count and a stored notification. The repair loop and the operation under the lock
are programs in `proc`; a repair lists the panes and resizes them in up to three attempts. Every
resize makes tmux run a hook (`HookRuns`), which posts a repair of that pane (`Serves`). A drag sets
a marker, resizes and reports (`DragStep`).

- `untold` is history: windows whose repair was skipped for a drag, or whose post was lost.
- One drag at a time; two that overlap would clear each other's marker. The report runs after the
  first motion of the mouse.
- Windows are wide enough for the sidebar; the widths of content panes are left out.

### AgentWatchers

`files` is what the transcript or log of each thread says last, `old` an Amp thread file of an
earlier version, `procs` the pane each Amp process runs in, `panes` session and agent of every pane.
`poll` is the reading in progress: modification times, then observations file by file, then, for
Amp threads the directory does not place, the fingerprint of tmux, the process table and one listing
per session (`route_unattributed_observations`), and then the applying. `cache` is
`AgentPaneRouteCache`, `seen` the snapshot applied last for each thread. The first poll seeds.

- Titles, prompts, and the encoded directory names of Claude Code are left out; no scan reaches its
  limit of 32 files; pids are not reused.
- `cache.sure` and `poll.lost` are history: a listing failed, or the layout changed during the
  listings and back. What is remembered then may be wrong until tmux looks different (see below).
- What the tracker makes of a report beyond the row that it leaves is `AgentTracker`.

## Runs

| Run | Asks | Bounds |
|---|---|---|
| `SidebarVisibility` | hidden means no sidebar, and only a toggle undoes a hide; the user's choice is implemented, also across crashes; late operations are inert; one sidebar per window; clean exits remove hooks; shutdowns complete; a recorded choice is restored | 2 windows, 1 waiting request, 2 generations |
| `AgentTrackerRenames` | unseen means finished; an unseen row and its mark are not lost; a running row ends | 2 session names, 1 thread, 1 pane, a snapshot, a seed, 2 starts, ends or renames, 2 instants |
| `AgentTrackerPresence` | hibernated rows have no pane; seeds keep their pane | 1 session, 2 threads and the threadless row, 2 panes, 1 title, an event, a seed; symmetric |
| `AgentHibernation` | only captured processes are signalled; who wakes is spared; marked means stopped; quiet agents are stopped | 2 panes, 2 threads, 2 agents and a helper, 2 moves, 1 failed reading |
| `AgentHibernationUnread` | expected to fail: marked means stopped, also when `ps` fails | the same |
| `ServerGenerations` | a pid comes with its token; an exit leaves no identity; the registry is implemented; identities are repaired; no server without tmux; a shutdown frees the port | 2 processes, 1 lost file, 1 outage, 1 upgrade, 2 of them in all |
| `SidebarClients` | the focus is displayed; a settled switch is cleared; a reorder moves nothing else | 2 sidebars, 3 sessions of 4 names, 2 of them in a worktree group, 1 key or click with its modal, 1 change in tmux, 1 background task |
| `SidebarClientsSettings` | changes are confirmed and everybody agrees on the settings | 2 sidebars, 3 widths and heights, 2 keys, 1 switch |
| `RemainOnExit` | what is saved is the user's; only removable panes go; dead panes go | 2 content panes, a sidebar, 4 beginnings of exits, operations, polls, crashes or restarts |
| `WidthRepair` | no request is lost; widths converge; repairs come to rest | 2 windows, 2 widths, 2 moves |
| `AgentWatchers` | remembered routes are true; seeds are not older than what they stand beside; what is written is shown | 2 threads, 2 panes, 2 sessions, 1 process, 2 instants, 2 events, 4 initial states |
| `StateBroadcast` | everyone catches up; no change goes unannounced; the quit reaches everyone; sidebars are admitted | 1 sidebar and 1 passive client, a channel of 2, limits 2 and 1, 2 events, 1 failed snapshot |

Why the bounds are enough.

- *SidebarVisibility*: two windows are one that an operation visits while another is opened, closed
  or served; nothing compares more than two. One request waits while one runs through a shutdown;
  more only wait longer. Two generations are what one leaves and the next adopts.
- *AgentTracker*: rows interact in pairs (displacing, absorbing, sharing a title or a pane), so two
  threads, or two sessions, and two panes show each interaction. Every report is arbitrary and a
  later one overwrites an earlier one. Snapshots against renames and events against panes are two
  runs because one with both takes too long; the methods they share are the same operators.
  Thresholds are 0: what matters is whether one has passed, and both cases occur.
- *AgentHibernation*: two targets show that one stands or falls without the other, a helper that
  processes are captured and orphaned; two moves are one before and one during the pass, or a move
  and its undoing.
- *ServerGenerations*: a process and its successor; a third meets the same files. The inductive
  invariant of the proofs was checked with three processes as well.
- *SidebarClients*: one key opens every modal and its confirmation; two keys before the first is
  acknowledged are what settings need. Two sidebars are the one that acts and the one that stays
  behind.
- *StateBroadcast*: a channel of two loses messages after two sends, as one of 16 does after 16.
  Separate bounds of two changes and one shutdown passed as well (9 million states).
- *RemainOnExit*: four beginnings are an exit, an operation, a crash and a restart in any order. The
  values `off` and unset of the window passed too.
- *WidthRepair*: two moves are a drag and a repair, or two requests that coalesce.
- *AgentWatchers*: a thread the directory places and one only its process does; two events are one
  during a poll and one after it, or a failed reading and its repetition.

The runs whose cfg says `CHECK_DEADLOCK FALSE` have bounds on the environment, or a process that
ends; when they are used up nothing is obliged to happen. `AgentHibernation` never stops, and its
run checks deadlock.

Fairness is stated where a liveness property needs it, and only of what the code's own scheduling
owes:

- *SidebarVisibility*: the step of the operation that holds the lock (the blocking pool runs what it
  was given), taking the next request (the lock is FIFO), the lifecycle loop, and the steps of
  `start_server` from the drain to its return. When the process is gone is not claimed:
  `ShutdownCompletes` ends with the return.
- *AgentTracker*: the watcher loop restores seeds and ages rows as long as the server runs. A
  presence pass lists tmux before it takes the mutex, so the mutex is free again and again, and the
  loop, which waits for it, gets it: strong fairness. A pass ends, and time passes: weak fairness.
- *AgentHibernation*: the timer fires for ever, and what a pass runs returns.
- *ServerGenerations*: a process that runs keeps running its tasks and threads, and tmux answers
  the commands of a cleanup.
- *RemainOnExit*: tmux answers every command and runs its hooks, and the poll loop keeps polling.
- *WidthRepair*: the repair loop, the lock, tmux's hooks and scripts.
- *AgentWatchers*: the loop polls as long as the server runs.

Users, agents, windows, crashes and failures owe nothing.

## What the models show

**Marked agents may run** (`hibernate.rs:282`; run `AgentHibernationUnread`). A reading of the process
table that fails after the grace period is an empty table: no captured process is found in it, every
target counts as stopped, and the rows are marked hibernated although nothing was killed. The outcome
promises "Every captured process exited or was SIGKILLed" (`hibernate.rs:66`), and elsewhere the same
empty table "means `ps` failed, which proves nothing" (`lib.rs:1122`).

The following were met while modelling. Each is a behaviour of the model; the properties above are
stated so that they exclude it, and no run is about it.

Sidebars and generations:

- An operation past its check for closing goes on and may spawn after the cleanup has listed the
  panes, so a clean exit can leave a sidebar (`lib.rs:2776`; `docs/explanation/sidebar-behavior.md:49`
  says it must not).
- A tmux that restarts between two probes keeps the old generation, without hooks (`lib.rs:3223`,
  `sidebar-behavior.md:62`).
- The upgrade in `opensessions.tmux` kills the server and removes its pid file without the lock: the
  old process then skips its cleanup and leaves its hooks and its token. The same `rm -f` may remove
  the successor's pid file, which the identity task puts back (`IdentityIsRepaired`).
- A shutdown signalled between the start of the background tasks and the watcher's subscription is
  missed: the process listens no more but lives until tmux is gone.
- A predecessor whose startup is slow may install hooks after its successor's whole life.

Rows of agents:

- A posted event resolves its session before the mutex; a rename in between leaves the row under a
  name no session has (`lib.rs:2336`, `lib.rs:1830`).
- A rename onto a name an ended session left replaces the rows but merges the unseen keys
  (`tracker.rs:186`, `tracker.rs:1214`).
- The comparison of timestamps and the application of a watcher's snapshot are two holds of the mutex,
  with a call of tmux in between: an event that arrives there is overwritten by an older snapshot
  (`lib.rs:2431`, against the comment at 2425).
- A thread whose seed was superseded by another thread's event, after its own snapshot was applied, is
  not shown again until its file changes; an old Amp thread file that is newer and cannot be read hides
  the log beside it.
- When `ps` works but a tmux listing fails, a running Amp process is remembered as one without a pane
  for as long as tmux looks the same, although the comment at `lib.rs:1122` takes a missing pid for one
  that has exited. A layout that changes during the listings and back does the same.

Hibernation:

- A busy thread of the same process filed under another session and without a pane is looked for when
  planning (`busy_unplaced_amp_pids`), not at the re-check (`docs/reference/configuration.md:43`).
- SIGTERM is not taken back from an agent that wakes in the grace period. Agents that were killed but
  whose row changed meanwhile are left to the next presence pass.

Panes and widths:

- A poll sweep or a pane-died script that restores between the forcing and the saving of a new spawn
  leaves the option forced and the user's value unsaved; so does a crash between the two
  (`tmux_provider.rs:451`, `sidebar-behavior.md:216`, `lib.rs:2252`).
- The hook's `kill-window` is guarded by nothing, the sweep's by a count of panes: a pane that came
  after the listing goes too. The cleanup restores the option but leaves dead panes.
- A repair that listed its panes before a drag set its marker undoes the drag in its second or third
  attempt (`sidebar-behavior.md:106`). One skipped while the marker was set is not repeated when the
  report finds the width unchanged, or its post is lost (`lib.rs:2572`). In a window too narrow for the
  width, each repair's resizing asks for the next.

Clients:

- Snapshots are published in the order their building ends, so an older list can be shown last until
  the next broadcast (`lib.rs:5327`, `sidebar-behavior.md:32`).
- So a sidebar may have read a snapshot of a newer revision and show an older one's sessions, or still
  wait for a switch that the last snapshot it read does not show: `SettledSwitchIsCleared` and
  `SettingsSettle` are of sidebars that have `seen` the last.
- A reorder past a collapsed group goes past its members one at a time
  (`docs/reference/features-and-keybindings.md:66`).
- A channel full of activations from `/ensure-sidebar` hooks pushes the last snapshot out of a slow
  receiver's queue, and a receiver that lagged is sent nothing again (`lib.rs:5375`): it shows the older
  list until the next broadcast. A refresh whose snapshot fails is not repeated (`lib.rs:4800`).
- The server has no arm for the `dismiss-agent` that `d` sends from the agents panel, and
  `AgentTracker::dismiss` has no caller: the agent stays in the list (`lib.rs:2020`, against
  `docs/reference/features-and-keybindings.md:70`).
- A client that lags can lose the request to identify itself again.
- Unchecked, but seen: hooks of two quick switches that arrive reversed; a sidebar identified across a
  rename; the theme picker's Escape restoring a theme another sidebar has replaced meanwhile.

## Proofs

Every theorem is proved for all values of the constants its module's assumption allows. The
assumptions say that placeholders are not members of the sets they stand outside of, that bounds are
naturals, and:

- `SidebarAssumption`: there is a window;
- `TrackerAssumption`: agents report neither "hibernated" nor a missing status;
- `LaunchedAssumption`: at first every pane has at most one agent;
- `BroadcastAssumption`: the channel holds at least two messages, and the passive limit is below the
  limit of all websockets, which `StateBroadcastProofs` proves of the limits computed;
- `PanesAssumption`: finite panes, at least one of them a content pane;
- `WatchersAssumption`: every session has a directory; at startup only Amp's files record a process,
  one that has started, and an old thread file is of an Amp thread and records none;
- `WidthsAssumption`: there is a width;
- `SidebarsAssumption`: the homes of sidebars, the first sessions and what is typed are names, there is
  a session, and one of the background tasks is the refresher.

| Module | Theorem | States |
|---|---|---|
| `SidebarPanesProofs` | `InvariantHolds`, `TypeCorrect` | `[]IInv`, `[]TypeOK` |
| | `RestartKeepsSidebars` | `[]SidebarsImplyRecordedOn` |
| | `RecordedChoice` | `[]RecordedChoiceAgrees` |
| | `HiddenStaysHidden` | `[]HiddenMeansNoSidebar` |
| | `HideIsTheUsers` | `OnlyToggleUndoesHide` |
| | `NoSecondSidebar` | `[]OneSidebarPerWindow` |
| | `HooksRemoved` | `[]CleanExitRemovesHooks` |
| | `ClosingStays` | `ClosingIsTerminal` |
| | `LateOperationsAreInert` | `LateOperationsChangeNothing` |
| | `ChoiceIsImplemented` | `ImplementsChoice` |
| | `WidthsTypeCorrect` | `[]WidthTypeOK` |
| | `NoRequestIsLost` | `[]RequestIsNotLost` |
| `AgentTrackerProofs` | `TrackerInvariant`, `TrackerTypeCorrect` | `[]IInv`, `[]TypeOK` |
| | `BoundRowsAreAlive` | `[]BoundMeansAlive` |
| | `HibernatedRowsHaveNoPane` | `[]HibernatedHasNoPane` |
| | `UnseenRowsFinished` | `[]UnseenMeansFinished` |
| | `UnseenRowsAreKept` | `UnseenIsNotLost` |
| | `SeedsStayInTheirPane` | `SeedKeepsItsPane` |
| `AgentHibernationProofs` | `Invariance`, `TypeCorrect` | `[]IInv`, `[]TypeOK` |
| | `SignalsAreAimed` | `[]OnlyCapturedAreSignalled` |
| | `InUseIsSpared` | `WokenIsSpared` |
| | `MarkedIsGone` | `HibernatedMeansStopped` |
| `ServerGenerationsProofs` | `InvariantHolds`, `TypeCorrect` | `[]IInv`, `[]TypeOK` |
| | `HooksAreKept` | `[]ServingKeepsHooks` |
| | `PidAndToken` | `[]PidComesWithToken` |
| | `ExitIsClean` | `[]ExitLeavesNoIdentity` |
| | `TicksDoNotWait` | `[]TicksNeverWait` |
| | `Refinement` | `ImplementsRegistry` |
| `StateBroadcastProofs` | `Invariance`, `TypeCorrect` | `[]IInv`, `[]TypeOK` |
| | `NoChangeIsLost` | `[]RefreshIsNotLost` |
| | `ShutdownIsHeard` | `[]QuitReachesEveryone` |
| | `SidebarsComeFirst` | `SidebarsAreAdmitted` |
| | `LatestReachesEveryone` | `[]EveryoneCatchesUp` |
| | `FdLimitIsBounded`, `ConfiguredIsBounded` | `ConnectionLimits` leaves HTTP, sidebars and passive clients their places |
| `AgentWatchersProofs` | `TypeCorrect` | `[]TypeOK` |
| | `RoutesStayTrue` | `[]RoutesAreTrue` |
| | `SeedsAreCurrent` | `SeedsAreNotOlder` |
| `RemainOnExitProofs` | `TypeCorrect` | `[]TypeOK` |
| | `OwnValueIsKept` | `[]SavedIsOwn` |
| | `OnlyMarkedPanesGo` | `OnlyRemovablePanesGo` |
| `SidebarClientsProofs` | `Inductive` | `[]IInv` |
| | `FocusReturns` | `[]FocusIsDisplayed` |
| | `SwitchesSettle` | `[]SettledSwitchIsCleared` |
| | `SettingsAreReconciled` | `[]SettingsSettle` |

The arguments. Hardly a property is inductive; each `IInv` says what makes it so, and was checked
with TLC before it was proved. One lemma per action, or per part of `IInv`, shows that it is kept.

- **SidebarVisibility.** A sidebar implies a recorded "on" only because an operation that is about to
  spawn has recorded it, and one that is about to record "off" has killed every pane. `Program` says
  which steps an operation can be at, `Label` that the coordinator's fields agree, `Phase` how phases,
  closing, startup and hooks go together, `Listing` what a listing still guarantees (nobody else
  spawns while its operation holds the lock), `Choice` at which steps the option may lag behind the
  panes and the coordinator. The refinement rests on the last two: a pane that appears has its choice
  recorded (`SpawnAppears`), and at the two commands of a hide no pane is left. A step that only
  removes panes is a step of the promise (`Vanishing`), and a coordinator that hides nothing new shows
  again or leaves it alone (`Unhiding`), which are all its methods but hiding and closing.
- **AgentTracker.** `UnseenMeansFinished` says nothing of keys without a row, and a seed could put a
  row under an unseen key left behind: `Marked` adds that no unseen key lacks a row, which
  `apply_seed_event` relies on without checking. Each method has one lemma: it `Keeps` the tracker
  sane and every marked key marked, whatever its arguments; a step then only has to name its method.
  The rename is apart: it moves marks to another key, and `reused` records where they may be false.
  That marks are kept rests on seeds never being unseen, so superseding seeds loses none, and on each
  method clearing the mark only of the rows its caller may speak for (a look, news, an absorbed row);
  which of these a step was is read off its action (`Rightly`). That
  seeds keep their pane on the pass and the seeding excluding each other under the mutex.
- **AgentHibernation.** What is signalled was captured because nothing starts with the same command
  line between a reading and its signals (`NothingStarted`), and what is captured for one target is of
  no other because a pane has one agent (`OneAgent`, `CapturedFromTable`). Who woke is spared because
  the one re-check, after the grace period, sees what was in use at its end and still is
  (`WokenIsSeen`). Marked is gone because a target counts as stopped only when a reading that did not
  fail shows none of its captured processes, or they were killed (`StoppedAreGone`).
- **ServerGenerations.** The argument is about who writes the token file. Only the process that holds
  the port publishes or repairs, so once it serves the token file holds its token or nothing; a process
  that cleans up found its own token there under the lock, so nobody serves, and nobody begins to
  while it keeps the lock. The refinement follows: a step of the processes is a step of the registry
  or leaves it alone.
- **StateBroadcast.** Of a change nobody was told of somebody still knows (`SomebodyKnows`); who was
  connected at a shutdown has the signal as long as it listens (`WarnedWillHear`). Everyone catches up
  because a full queue loses only its oldest messages: with fewer activations behind it than the queue
  holds, the last snapshot is still in it, or was taken from it (`CInv`).
- **AgentWatchers.** A route is remembered only if tmux looked the same from the fingerprint to the
  last listing; then each listing decides for good about the processes in the panes of its session,
  and a process missing from the table has exited, since it wrote before it was looked for
  (`AllBorn`, `Listing`). So what is remembered stays true while tmux looks the same (`RoutesHold`):
  a process only exits, and a new one has no route yet. Seeds are made in one step, and each is dated
  by the latest time in a set that holds whatever could be its own activity, also with a failed
  listing of sessions, which leaves more of it in no known place and never less.
- **RemainOnExit.** What a process read and holds is the user's own value (`Captured`), so what is
  saved and restored is too, under any interleaving. Which panes go rests on it: a process decides by
  that value, and a pane found dead stays dead until it goes, so what was marked for removal may still
  go (`DInv`).
- **SidebarClients.** Nothing that is promised once all is quiet is inductive: while messages travel,
  foci, switches and settings are all wrong now and then. `Follows` says of one sidebar and its
  connection what is still on its way to put them right. A bad focus has a snapshot coming
  (`FocusFollows`). A pending switch has its command, an activation or a refresh before it
  (`SwitchFollows`, `Refreshing`). A change of a setting is held back, sent or acknowledged, and an
  acknowledgement comes before every snapshot of its revision, so what the sidebar has read of the
  last revision is what it shows (`IntentsFollow`, `AcksLead`, `Current`). Keys are summed up in what
  any of them may do to an app (`KeyResult`); each message has a lemma of its own. A step of the others
  leaves a sidebar alone (`Aside`, `Bystander`) or moves a message along its connection (`Moved`).
- **WidthRepair.** A request is counted before it notifies, the notification is stored, and the loop,
  once it has taken it, looks at the count before it waits again.

Only model-checked:

- liveness under fairness (`ShutdownCompletes`, `ChoiceIsRestored`, `RunningEnds`, `QuietAgentsStop`,
  `IdentityIsRepaired`, `NoTmuxNoServer`, `ShutdownFreesPort`, `DeadPanesGo`, `WidthsConverge`,
  `RepairsSettle`, `FilesAreShown`): liveness and `ENABLED` are beyond the prover;
- `ReorderKeepsOthers`: that the rows keep their order through `SelectSeq` and the folds over a list
  of sessions is an induction over that list. For the same reason the `TypeOK` of `SidebarClients`,
  by which no name comes twice, was checked with TLC on the bounds of its runs and is no theorem;
  `IInv` does without it.

Every other safety property that a passing run checks is a theorem.

## Not modelled

- **Start lock** (`server-common.sh:203`): a shell script that starts the server; several launchers may
  find the same stale lock and break it while a faster one holds it again. The server does not read it,
  and a second server is refused the port (`BindRefused`).
- **Watch plan** (`watch_plan.rs`): which directories to watch; the server polls only.
- **tmux provider and scripting**: building and running commands; their effect is in the modules.
- **Metadata store and Pi registry**: sequential maps with time limits behind one mutex each.
- **Git, ports and portless**: run commands and parse their output.
- **Configuration and debug log**: file input and output.
- **LifecycleOperation**: nothing in the server or the client uses it.
- **Sidebar rendering**: draws what `SidebarApp` holds; clicks reach the model as the row they hit.
- **Plugins and extensions**: what they post is an arbitrary report in `AgentTracker`.
- Of the **protocol**, statuses, settings and message kinds are modelled where a property reads them;
  of **connections**, admission and stages, not the parsing of requests or the comparison of tokens;
  of the **server's other loops**, what the modules need.

## Plan

1. The start lock, as a protocol of launchers.
2. Renames made in tmux behind the server's back, and what the references to a session make of them.
