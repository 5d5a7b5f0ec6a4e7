------------------------- MODULE ServerGenerations --------------------------
(***************************************************************************)
(* The server processes of one tmux server, and which of them owns it.     *)
(*                                                                         *)
(* A generation binds the port, publishes a token file and then a pid file *)
(* under the identity lock, installs the tmux hooks and watches the tmux   *)
(* socket.  Told to stop, it announces the shutdown, drains, gives the     *)
(* port up and only then cleans up, so the next generation may start while *)
(* it still removes hooks and files.  The lock and the ownership check are *)
(* what keeps it from removing its successor's.                            *)
(*                                                                         *)
(* A generation is one process and runs once.  Crashes may happen at any   *)
(* step and release the port and the lock.  Files in /tmp may vanish, tmux *)
(* may stop and come back, and the plugin may kill the published process   *)
(* and remove its pid file after an update.  What startup and the cleanup  *)
(* do to the sidebars is in SidebarVisibility.                             *)
(***************************************************************************)
EXTENDS Naturals

CONSTANTS Servers,      \* the server processes that may be started
          NoServer,     \* nobody: a free port or lock, a missing file
          MaxTampers,   \* bound: files that vanish, writes that fail
          MaxOutages,   \* bound: times tmux stops
          MaxUpgrades,  \* bound: times the plugin finds another version running
          MaxDisturbances  \* bound: all of these together

ASSUME GenerationAssumption ==
    /\ NoServer \notin Servers
    /\ MaxTampers \in Nat
    /\ MaxOutages \in Nat
    /\ MaxUpgrades \in Nat
    /\ MaxDisturbances \in Nat

VARIABLES
    gen,        \* the state of each server process
    port,       \* the process that listens on the port
    lock,       \* the process that holds the identity lock
    pidFile,    \* the process the pid file names
    tokenFile,  \* the process whose token the token file holds
    hooks,      \* the hooks are installed in tmux
    tmux,       \* tmux accepts connections
    plugin,     \* the plugin killed a process and has not removed the file yet
    tampers, outages, upgrades

files  == <<pidFile, tokenFile>>
bounds == <<tampers, outages, upgrades>>
vars == <<gen, port, lock, pidFile, tokenFile, hooks, tmux, plugin, tampers,
          outages, upgrades>>

Bounded == tampers + outages + upgrades < MaxDisturbances

Phases == {"new", "bound", "publishing", "tokened",      \* start_server
           "serving", "draining",                        \* run_accept_loop
           "waiting", "unhooking", "removing", "removingToken",
           "leaving", "exited", "failed", "crashed"}
Missed == 2      \* MISSING_TMUX_POLLS_BEFORE_SHUTDOWN

(* One process: its main task; the startup task; the identity task (token   *)
(* and pid: it is writing that file); the socket watcher, a blocking thread *)
(* (told: the signal waits in its receiver), with the probes it missed in a *)
(* row; whether the shutdown was signalled and announced; and whether the   *)
(* hooks of this tmux server were installed by it.                          *)
Generations == [pc        : Phases,
                startup   : {"none", "hooks", "snapshot", "done"},
                identity  : {"off", "running", "token", "pid"},
                watcher   : {"none", "starting", "watching", "told", "done"},
                misses    : 0..Missed,
                signalled : BOOLEAN,
                announced : BOOLEAN,
                installed : BOOLEAN]

NewGeneration == [pc |-> "new", startup |-> "none", identity |-> "off",
                  watcher |-> "none", misses |-> 0, signalled |-> FALSE,
                  announced |-> FALSE, installed |-> FALSE]

ServerOrNone == Servers \cup {NoServer}

TypeOK ==
    /\ gen \in [Servers -> Generations]
    /\ port \in ServerOrNone /\ lock \in ServerOrNone
    /\ pidFile \in ServerOrNone /\ tokenFile \in ServerOrNone
    /\ hooks \in BOOLEAN /\ tmux \in BOOLEAN /\ plugin \in BOOLEAN
    /\ tampers \in 0..MaxTampers
    /\ outages \in 0..MaxOutages
    /\ upgrades \in 0..MaxUpgrades

Init ==
    /\ gen = [s \in Servers |-> NewGeneration]
    /\ port = NoServer /\ lock = NoServer
    /\ pidFile = NoServer /\ tokenFile = NoServer
    /\ hooks = FALSE /\ tmux = TRUE /\ plugin = FALSE
    /\ tampers = 0 /\ outages = 0 /\ upgrades = 0

Serves(s) == gen[s].pc \in {"serving", "draining"}

(* The runtime has one thread: while the identity task writes the files, no *)
(* other task of that process takes a step.  Blocking threads do.           *)
RuntimeFree(s) == gen[s].identity \in {"off", "running"}

Becomes(s, g) == gen' = [gen EXCEPT ![s] = g]
Goto(s, pc)   == Becomes(s, [gen[s] EXCEPT !.pc = pc])

-----------------------------------------------------------------------------
(* Starting                                                                 *)

BindPort(s) ==
    /\ gen[s].pc = "new"
    /\ port = NoServer
    /\ port' = s
    /\ Goto(s, "bound")
    /\ UNCHANGED <<lock, files, hooks, tmux, plugin, bounds>>

BindRefused(s) ==
    /\ gen[s].pc = "new"
    /\ port # NoServer
    /\ Goto(s, "failed")
    /\ UNCHANGED <<port, lock, files, hooks, tmux, plugin, bounds>>

LockForPublish(s) ==
    /\ gen[s].pc = "bound"
    /\ lock = NoServer
    /\ lock' = s
    /\ Goto(s, "publishing")
    /\ UNCHANGED <<port, files, hooks, tmux, plugin, bounds>>

PublishToken_PidFirst(s) ==
    /\ gen[s].pc = "publishing"
    /\ pidFile' = s
    /\ Goto(s, "tokened")
    /\ UNCHANGED <<port, lock, tokenFile, hooks, tmux, plugin, bounds>>

(* publish_identity_locked: the token first, the pid last.                  *)
PublishToken(s) ==
    /\ gen[s].pc = "publishing"
    /\ tokenFile' = s
    /\ Goto(s, "tokened")
    /\ UNCHANGED <<port, lock, pidFile, hooks, tmux, plugin, bounds>>

PublishPid(s) ==
    /\ gen[s].pc = "tokened"
    /\ pidFile' = s
    /\ lock' = NoServer
    /\ Becomes(s, [gen[s] EXCEPT !.pc = "serving", !.startup = "hooks",
                                !.identity = "running"])
    /\ UNCHANGED <<port, tokenFile, hooks, tmux, plugin, bounds>>

(* The pid file cannot be written: the token goes and the start fails.      *)
PublishFails(s) ==
    /\ gen[s].pc = "tokened"
    /\ tampers < MaxTampers /\ Bounded
    /\ tampers' = tampers + 1
    /\ tokenFile' = NoServer
    /\ lock' = NoServer
    /\ port' = NoServer
    /\ Goto(s, "failed")
    /\ UNCHANGED <<pidFile, hooks, tmux, plugin, outages, upgrades>>

(* initialize_state_source: the hooks are installed on the blocking pool.   *)
InstallHooks(s) ==
    /\ gen[s].startup = "hooks"
    /\ hooks' = (hooks \/ tmux)
    /\ Becomes(s, [gen[s] EXCEPT !.startup = "snapshot", !.installed = tmux])
    /\ UNCHANGED <<port, lock, files, tmux, plugin, bounds>>

(* The announcement is checked before the snapshot is built and before it   *)
(* is published; only then do the background tasks start.                   *)
FinishStartup(s) ==
    /\ gen[s].startup = "snapshot"
    /\ RuntimeFree(s)
    /\ Becomes(s, [gen[s] EXCEPT !.startup = "done",
                             !.watcher = IF gen[s].announced THEN "none"
                                                             ELSE "starting"])
    /\ UNCHANGED <<port, lock, files, hooks, tmux, plugin, bounds>>

-----------------------------------------------------------------------------
(* The identity task                                                        *)

Owns(s) == pidFile = s /\ tokenFile = s
Foreign(s) == pidFile \notin {s, NoServer} \/ tokenFile \notin {s, NoServer}

MayRepair_OnlyBothMissing(s) == pidFile = NoServer /\ tokenFile = NoServer

MayRepair(s) == ~Owns(s) /\ ~Foreign(s)

(* Every tick takes the lock before it looks at the files, on the thread of *)
(* the runtime; one that finds nothing to do changes nothing.  It does not  *)
(* have to wait (TicksNeverWait).                                           *)
BeginRepair(s) ==
    /\ gen[s].identity = "running"
    /\ lock = NoServer
    /\ MayRepair(s)
    /\ lock' = s
    /\ Becomes(s, [gen[s] EXCEPT !.identity = "token"])
    /\ UNCHANGED <<port, files, hooks, tmux, plugin, bounds>>

RepairToken(s) ==
    /\ gen[s].identity = "token"
    /\ tokenFile' = s
    /\ Becomes(s, [gen[s] EXCEPT !.identity = "pid"])
    /\ UNCHANGED <<port, lock, pidFile, hooks, tmux, plugin, bounds>>

RepairPid(s) ==
    /\ gen[s].identity = "pid"
    /\ pidFile' = s
    /\ lock' = NoServer
    /\ Becomes(s, [gen[s] EXCEPT !.identity = "running"])
    /\ UNCHANGED <<port, tokenFile, hooks, tmux, plugin, bounds>>

RepairFails(s) ==
    /\ gen[s].identity = "pid"
    /\ tampers < MaxTampers /\ Bounded
    /\ tampers' = tampers + 1
    /\ tokenFile' = NoServer
    /\ lock' = NoServer
    /\ Becomes(s, [gen[s] EXCEPT !.identity = "running"])
    /\ UNCHANGED <<port, pidFile, hooks, tmux, plugin, outages, upgrades>>

IdentityHears(s) ==
    /\ gen[s].identity = "running"
    /\ gen[s].signalled
    /\ Becomes(s, [gen[s] EXCEPT !.identity = "off"])
    /\ UNCHANGED <<port, lock, files, hooks, tmux, plugin, bounds>>

-----------------------------------------------------------------------------
(* The tmux socket watcher                                                  *)

(* A receiver sees only what is sent after it subscribed.                   *)
WatcherSubscribes(s) ==
    /\ gen[s].watcher = "starting"
    /\ Becomes(s, [gen[s] EXCEPT !.watcher = "watching"])
    /\ UNCHANGED <<port, lock, files, hooks, tmux, plugin, bounds>>

Signalled(g) ==
    [g EXCEPT !.signalled = TRUE,
              !.watcher = IF @ = "watching" THEN "told" ELSE @]

Probed_KeepsWatching(g) ==
    IF tmux THEN [g EXCEPT !.misses = 0]
    ELSE [g EXCEPT !.misses = IF @ = Missed THEN @ ELSE @ + 1]
(* One probe: an answer resets the count, the second miss in a row sends    *)
(* the shutdown and ends the watcher.                                       *)
Probed(g) ==
    IF tmux THEN [g EXCEPT !.misses = 0]
    ELSE IF g.misses + 1 < Missed THEN [g EXCEPT !.misses = @ + 1]
    ELSE [g EXCEPT !.misses = Missed, !.signalled = TRUE, !.watcher = "done"]

WatcherProbes(s) ==
    /\ gen[s].watcher = "watching"
    /\ Becomes(s, Probed(gen[s]))
    /\ UNCHANGED <<port, lock, files, hooks, tmux, plugin, bounds>>

WatcherHears(s) ==
    /\ gen[s].watcher = "told"
    /\ Becomes(s, [gen[s] EXCEPT !.watcher = "done"])
    /\ UNCHANGED <<port, lock, files, hooks, tmux, plugin, bounds>>

-----------------------------------------------------------------------------
(* Stopping                                                                 *)

(* SIGTERM or ctrl-c: main sends the signal.                                *)
Terminate(s) ==
    /\ Serves(s)
    /\ RuntimeFree(s)
    /\ Becomes(s, Signalled(gen[s]))
    /\ UNCHANGED <<port, lock, files, hooks, tmux, plugin, bounds>>

(* /quit, a sidebar's quit, or a listener that failed: request_shutdown.    *)
RequestShutdown(s) ==
    /\ Serves(s)
    /\ RuntimeFree(s)
    /\ Becomes(s, [Signalled(gen[s]) EXCEPT !.announced = TRUE])
    /\ UNCHANGED <<port, lock, files, hooks, tmux, plugin, bounds>>

BeginDrain(s) ==
    /\ gen[s].pc = "serving"
    /\ gen[s].signalled
    /\ RuntimeFree(s)
    /\ Becomes(s, [gen[s] EXCEPT !.pc = "draining", !.announced = TRUE])
    /\ UNCHANGED <<port, lock, files, hooks, tmux, plugin, bounds>>

EndDrain_KeepsPort(s) ==
    /\ gen[s].pc = "draining"
    /\ gen[s].identity = "off"
    /\ Goto(s, "waiting")
    /\ UNCHANGED <<port, lock, files, hooks, tmux, plugin, bounds>>

(* The drain is a timer; every task the signal woke runs before it is up,   *)
(* so the identity task is gone.  Returning drops the listener.             *)
EndDrain(s) ==
    /\ gen[s].pc = "draining"
    /\ gen[s].identity = "off"
    /\ port' = NoServer
    /\ Goto(s, "waiting")
    /\ UNCHANGED <<lock, files, hooks, tmux, plugin, bounds>>

MayCleanUp_Always(s) == TRUE

MayCleanUp(s) == Owns(s)

(* cleanup_owned_generation, once the startup task has ended.  The lock     *)
(* stays taken from the check to the last removal.                          *)
BeginCleanup(s) ==
    /\ gen[s].pc = "waiting"
    /\ gen[s].startup = "done"
    /\ lock = NoServer
    /\ MayCleanUp(s)
    /\ lock' = s
    /\ Goto(s, IF tmux THEN "unhooking" ELSE "removing")
    /\ UNCHANGED <<port, files, hooks, tmux, plugin, bounds>>

SkipCleanup(s) ==
    /\ gen[s].pc = "waiting"
    /\ gen[s].startup = "done"
    /\ lock = NoServer
    /\ ~MayCleanUp(s)
    /\ Goto(s, "leaving")
    /\ UNCHANGED <<port, lock, files, hooks, tmux, plugin, bounds>>

RemoveHooks(s) ==
    /\ gen[s].pc = "unhooking"
    /\ hooks' = FALSE
    /\ Goto(s, "removing")
    /\ UNCHANGED <<port, lock, files, tmux, plugin, bounds>>

RemovePid(s) ==
    /\ gen[s].pc = "removing"
    /\ pidFile' = NoServer
    /\ Goto(s, "removingToken")
    /\ UNCHANGED <<port, lock, tokenFile, hooks, tmux, plugin, bounds>>

RemoveToken_Keeps(s) ==
    /\ gen[s].pc = "removingToken"
    /\ lock' = NoServer
    /\ Goto(s, "leaving")
    /\ UNCHANGED <<port, files, hooks, tmux, plugin, bounds>>

RemoveToken(s) ==
    /\ gen[s].pc = "removingToken"
    /\ tokenFile' = NoServer
    /\ lock' = NoServer
    /\ Goto(s, "leaving")
    /\ UNCHANGED <<port, pidFile, hooks, tmux, plugin, bounds>>

(* main returns; dropping the runtime waits for the blocking threads that   *)
(* run and forgets those that have not begun.                               *)
Exit(s) ==
    /\ gen[s].pc = "leaving"
    /\ gen[s].watcher \in {"none", "starting", "done"}
    /\ Becomes(s, [gen[s] EXCEPT !.pc = "exited", !.watcher = "done"])
    /\ UNCHANGED <<port, lock, files, hooks, tmux, plugin, bounds>>

-----------------------------------------------------------------------------
(* Faults and the environment                                               *)

Free(resource, s) == IF resource = s THEN NoServer ELSE resource

Crash(s) ==
    /\ gen[s].pc \notin {"new", "exited", "failed", "crashed"}
    /\ Becomes(s, [NewGeneration EXCEPT !.pc = "crashed"])
    /\ port' = Free(port, s)
    /\ lock' = Free(lock, s)
    /\ UNCHANGED <<files, hooks, tmux, plugin, bounds>>

(* Something clears a file out of /tmp.                                     *)
FileVanishes ==
    /\ tampers < MaxTampers /\ Bounded
    /\ tampers' = tampers + 1
    /\ \/ pidFile # NoServer /\ pidFile' = NoServer /\ UNCHANGED tokenFile
       \/ tokenFile # NoServer /\ tokenFile' = NoServer /\ UNCHANGED pidFile
    /\ UNCHANGED <<gen, port, lock, hooks, tmux, plugin, outages, upgrades>>

(* opensessions.tmux after an update: kill the published process, then      *)
(* remove the pid file, whatever it holds by then.  (A signal that comes    *)
(* while the runtime stands still is heard later: Terminate.)               *)
UpgradeKills ==
    /\ ~plugin
    /\ upgrades < MaxUpgrades /\ Bounded
    /\ pidFile # NoServer
    /\ upgrades' = upgrades + 1
    /\ plugin' = TRUE
    /\ IF Serves(pidFile) /\ RuntimeFree(pidFile)
       THEN Becomes(pidFile, Signalled(gen[pidFile])) ELSE UNCHANGED gen
    /\ UNCHANGED <<port, lock, files, hooks, tmux, tampers, outages>>

UpgradeRemoves ==
    /\ plugin
    /\ plugin' = FALSE
    /\ pidFile' = NoServer
    /\ UNCHANGED <<gen, port, lock, tokenFile, hooks, tmux, bounds>>

(* The hooks are global options of tmux and go with it.                     *)
TmuxStops ==
    /\ tmux
    /\ outages < MaxOutages /\ Bounded
    /\ outages' = outages + 1
    /\ tmux' = FALSE
    /\ hooks' = FALSE
    /\ gen' = [s \in Servers |-> [gen[s] EXCEPT !.installed = FALSE]]
    /\ UNCHANGED <<port, lock, files, plugin, tampers, upgrades>>

TmuxStarts ==
    /\ ~tmux
    /\ tmux' = TRUE
    /\ UNCHANGED <<gen, port, lock, files, hooks, plugin, bounds>>

-----------------------------------------------------------------------------

Starting(s) == \/ LockForPublish(s) \/ PublishToken(s) \/ PublishPid(s)
               \/ InstallHooks(s) \/ FinishStartup(s)
Identity(s) == \/ BeginRepair(s) \/ RepairToken(s) \/ RepairPid(s)
               \/ IdentityHears(s)
Watcher(s)  == WatcherSubscribes(s) \/ WatcherProbes(s) \/ WatcherHears(s)
Stopping(s) == \/ BeginDrain(s) \/ EndDrain(s) \/ BeginCleanup(s)
               \/ SkipCleanup(s) \/ RemoveHooks(s) \/ RemovePid(s)
               \/ RemoveToken(s) \/ Exit(s)

ServerStep(s) == Starting(s) \/ Identity(s) \/ Watcher(s) \/ Stopping(s)

Environment(s) == \/ BindPort(s) \/ BindRefused(s)
                  \/ Terminate(s) \/ RequestShutdown(s)
                  \/ PublishFails(s) \/ RepairFails(s) \/ Crash(s)

Next == \/ \E s \in Servers : ServerStep(s) \/ Environment(s)
        \/ FileVanishes \/ UpgradeKills \/ UpgradeRemoves
        \/ TmuxStops \/ TmuxStarts

(* A process that runs keeps running its tasks and threads; nobody has to   *)
(* start, stop or disturb one.  A watcher that only confirms what it knew   *)
(* changes nothing, so it cannot starve the others.                         *)
Fairness == \A s \in Servers : WF_vars(ServerStep(s))

Spec == Init /\ [][Next]_vars
FairSpec == Spec /\ Fairness

-----------------------------------------------------------------------------
(* Safety                                                                   *)

(* No generation loses its hooks while it serves, unless tmux itself went:  *)
(* an exiting predecessor neither unsets them nor slips in between check    *)
(* and cleanup (the comment on cleanup_owned_generation).                   *)
ServingKeepsHooks ==
    \A s \in Servers : Serves(s) /\ gen[s].installed => hooks

(* Whoever finds the pid of the generation that holds the port finds its    *)
(* token beside it, unless somebody removed it (the comment in              *)
(* publish_identity_locked).                                                *)
PidComesWithToken ==
    \A s \in Servers :
        pidFile = s /\ port = s /\ tampers = 0 => tokenFile = s

(* A generation that exits in order leaves no file that names it, so the    *)
(* plugin never kills a process that took its pid.                          *)
Orderly == /\ tampers = 0 /\ upgrades = 0
           /\ \A s \in Servers : gen[s].pc # "crashed"
ExitLeavesNoIdentity ==
    Orderly => \A s \in Servers :
                   gen[s].pc = "exited" => pidFile # s /\ tokenFile # s

(* The generations implement the registry, the one that serves being the    *)
(* one that holds the port and has published itself: one at a time, and the *)
(* hooks go only with tmux or while none serves.                            *)
Serving == IF port # NoServer /\ Serves(port) THEN port ELSE NoServer
Registry == INSTANCE GenerationRegistry WITH serving <- Serving
ImplementsRegistry == Registry!Spec

-----------------------------------------------------------------------------
(* Liveness                                                                 *)

(* A generation that serves is found again after its files vanished, or it  *)
(* has been told to stop.                                                   *)
IdentityIsRepaired ==
    \A s \in Servers :
        gen[s].pc = "serving" ~> (Owns(s) \/ gen[s].pc # "serving")

(* When tmux is gone for good, so is every generation.                      *)
Alive(s) == gen[s].pc \notin {"new", "exited", "failed", "crashed"}
NoTmuxNoServer ==
    <>[]~tmux => <>[](\A s \in Servers : ~Alive(s))

(* A generation that serves never waits for the lock, which would stall its *)
(* accept loop and its drain (repair_identity_if_missing, on the thread of  *)
(* the runtime): a cleanup that keeps it for long found that nobody else    *)
(* had published (the comment on cleanup_owned_generation).                 *)
TicksNeverWait ==
    \A s \in Servers : gen[s].identity # "off" => lock \in {NoServer, s}

(* A shutdown frees the port, whatever the startup, a repair, a cleanup or  *)
(* the threads of this or another generation are doing.                     *)
ShutdownFreesPort ==
    \A s \in Servers : gen[s].signalled ~> port # s
=============================================================================
