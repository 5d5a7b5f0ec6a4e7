------------------------- MODULE SidebarVisibility -------------------------
(***************************************************************************)
(* Who shows and hides the sidebars of one tmux server.                    *)
(*                                                                         *)
(* Every tmux window should hold one sidebar pane while the user has the   *)
(* sidebar shown, and none while it is hidden.  The server decides from    *)
(* the SidebarCoordinator of its generation; the user's last choice lives  *)
(* in a tmux global option, so that the next generation restores it.       *)
(*                                                                         *)
(* Requests (toggle, the ensure hooks, a sidebar client's identify-pane,   *)
(* pane-exited) run one at a time under the state-operation lock, on the   *)
(* blocking pool, in arrival order; startup holds the same lock.  The      *)
(* shutdown announcement and the lifecycle timer do not take it: they run  *)
(* between any two steps of a request, because a request gives the         *)
(* coordinator's mutex up between its check and its effects.  A crash may  *)
(* happen anywhere; the panes, the hooks and the option survive it in      *)
(* tmux.                                                                   *)
(*                                                                         *)
(* A tmux command on a window that exists succeeds, and the tmux server    *)
(* itself outlives the server generations (see README).                    *)
(***************************************************************************)
EXTENDS SidebarCoordinator, Naturals, Sequences, FiniteSets

CONSTANTS Windows,        \* the tmux windows that may exist
          NoWindow,       \* the window of a request that names none
          MaxQueue,       \* bound: requests waiting for the state-operation lock
          MaxGenerations  \* bound: server generations started

ASSUME SidebarAssumption ==
    /\ Windows # {}
    /\ NoWindow \notin Windows
    /\ MaxQueue \in Nat \ {0}
    /\ MaxGenerations \in Nat \ {0}

VARIABLES
    windows,      \* the windows that exist
    panes,        \* what sidebar pane each window holds
    hooks,        \* the tmux hooks are installed
    preference,   \* @opensessions_sidebar_visible, a tmux global option
    coordinator,  \* the SidebarCoordinator of the running generation
    server,       \* the phase of the server process
    queue,        \* requests waiting for the state-operation lock, FIFO
    op,           \* the operation that holds the lock
    generation,   \* generations started so far
    exit          \* how the last generation ended

vars == <<windows, panes, hooks, preference, coordinator, server, queue, op,
          generation, exit>>

PaneStates  == {"none", "starting", "connected", "leaving", "dead"}
Preferences == {"unset", "on", "off"}
Phases      == {"down", "starting", "up", "draining", "unhooked", "cleaned", "disowned"}
Kinds       == {"toggle", "ensure", "ensureAll", "identify", "paneExited"}
Requests    == ({"toggle", "ensureAll", "paneExited"} \X {NoWindow})
               \cup ({"ensure", "identify"} \X Windows)

(* An operation: what it is, its next step, the windows it still has to    *)
(* visit, the window it names, and whether it began after closing started. *)
OpSteps == {"idle", "setup", "check", "list", "kill", "hide", "recordOff",
            "warm", "recordOn", "spawn", "ack", "sweep"}
Operations == [kind   : Kinds \cup {"none", "startup"},
               pc     : OpSteps,
               todo   : SUBSET Windows,
               window : Windows \cup {NoWindow},
               late   : BOOLEAN]

NoOperation == [kind |-> "none", pc |-> "idle", todo |-> {},
                window |-> NoWindow, late |-> FALSE]
Operation(kind, pc, w) ==
    [kind |-> kind, pc |-> pc, todo |-> {}, window |-> w,
     late |-> IsClosing(coordinator)]

Accepting_WhileDraining == server # "down"

Accepting == server \in {"starting", "up"}   \* 503 once shutdown is announced
Busy      == op.pc # "idle"
HasSidebar(w) == panes[w] # "none"

TypeOK ==
    /\ windows \in SUBSET Windows
    /\ panes \in [Windows -> PaneStates]
    /\ \A w \in Windows : HasSidebar(w) => w \in windows
    /\ hooks \in BOOLEAN
    /\ preference \in Preferences
    /\ coordinator \in CoordinatorStates
    /\ server \in Phases
    /\ queue \in Seq(Requests)
    /\ Len(queue) <= MaxQueue
    /\ op \in Operations
    /\ generation \in 0..MaxGenerations
    /\ exit \in {"none", "crash", "clean", "disowned"}

Init ==
    /\ windows \in SUBSET Windows /\ windows # {}
    /\ panes = [w \in Windows |-> "none"]
    /\ hooks = FALSE
    /\ preference = "unset"
    /\ coordinator = NewCoordinator
    /\ server = "down"
    /\ queue = <<>>
    /\ op = NoOperation
    /\ generation = 0
    /\ exit = "none"

-----------------------------------------------------------------------------
(* Requests arrive.                                                         *)

Enqueue(request) ==
    /\ Accepting
    /\ Len(queue) < MaxQueue
    /\ queue' = Append(queue, request)

(* The user runs toggle.sh, or selects a window and the after-select-window *)
(* hook posts /ensure-sidebar for it.                                       *)
UserToggles ==
    /\ Enqueue(<<"toggle", NoWindow>>)
    /\ UNCHANGED <<windows, panes, hooks, preference, coordinator, server, op,
                   generation, exit>>

UserSelectsWindow(w) ==
    /\ w \in windows
    /\ hooks
    /\ Enqueue(<<"ensure", w>>)
    /\ UNCHANGED <<windows, panes, hooks, preference, coordinator, server, op,
                   generation, exit>>

(* A new window runs after-new-window (/ensure-sidebar), the first window   *)
(* of a new session runs session-created (/ensure-sidebars).  Nobody hears  *)
(* the hook while no server accepts requests.                               *)
OpenWindow(w) ==
    /\ w \notin windows
    /\ windows' = windows \cup {w}
    /\ IF hooks /\ Accepting
       THEN \/ Enqueue(<<"ensure", w>>)
            \/ Enqueue(<<"ensureAll", NoWindow>>)
       ELSE UNCHANGED queue
    /\ UNCHANGED <<panes, hooks, preference, coordinator, server, op,
                   generation, exit>>

(* The window's last content pane exits and takes the sidebar pane along.   *)
CloseWindow(w) ==
    /\ w \in windows /\ windows # {w}
    /\ windows' = windows \ {w}
    /\ panes' = [panes EXCEPT ![w] = "none"]
    /\ UNCHANGED <<hooks, preference, coordinator, server, queue, op,
                   generation, exit>>

(* The sidebar client of a new pane connects and identifies its pane.       *)
ClientIdentifies(w) ==
    /\ panes[w] = "starting"
    /\ panes' = [panes EXCEPT ![w] = "connected"]
    /\ Enqueue(<<"identify", w>>)
    /\ UNCHANGED <<windows, hooks, preference, coordinator, server, op,
                   generation, exit>>

(* The user starts a sidebar client by hand, outside a sidebar pane.        *)
ManualClientIdentifies(w) ==
    /\ w \in windows
    /\ Enqueue(<<"identify", w>>)
    /\ UNCHANGED <<windows, panes, hooks, preference, coordinator, server, op,
                   generation, exit>>

(* A sidebar pane is killed by hand; after-kill-pane posts /pane-exited.    *)
UserKillsSidebar(w) ==
    /\ panes[w] = "connected"
    /\ hooks /\ Enqueue(<<"paneExited", NoWindow>>)
    /\ panes' = [panes EXCEPT ![w] = "none"]
    /\ UNCHANGED <<windows, hooks, preference, coordinator, server, op,
                   generation, exit>>

(* A client whose server is gone exits: it got quit, lost its connection, or *)
(* cannot connect.  Its pane goes with it, by the pane-died hook or by the  *)
(* window's own remain-on-exit; it stays dead when the hook is gone, or tmux*)
(* skips it, while opensessions still forces remain-on-exit on the window.  *)
ClientExits(w) ==
    /\ panes[w] = "leaving" \/ (panes[w] = "starting" /\ ~Accepting)
    /\ \E left \in {"none", "dead"} : panes' = [panes EXCEPT ![w] = left]
    /\ IF hooks /\ Accepting THEN Enqueue(<<"paneExited", NoWindow>>)
       ELSE UNCHANGED queue
    /\ UNCHANGED <<windows, hooks, preference, coordinator, server, op,
                   generation, exit>>

(* Connected clients leave once their server says quit or disappears.       *)
Disconnected == [w \in Windows |->
                    IF panes[w] = "connected" THEN "leaving" ELSE panes[w]]

-----------------------------------------------------------------------------
(* The operation that holds the state-operation lock, step by step.         *)

(* Only an operation that runs while the server starts is its startup task: *)
(* when it ends the server reports itself live and its loops start.         *)
Finish ==
    /\ op' = NoOperation
    /\ server' = IF server = "starting" THEN "up" ELSE server

Continue(pc) == op' = [op EXCEPT !.pc = pc] /\ UNCHANGED server

Coordinate(c) == coordinator' = c

FirstStep == [toggle |-> "check", ensure |-> "check", ensureAll |-> "check",
              identify |-> "ack", paneExited |-> "sweep"]

(* The next queued request takes the lock, also after shutdown began: it    *)
(* passed the "server is closing" check when it was accepted.               *)
BeginOperation ==
    /\ ~Busy
    /\ queue # <<>>
    /\ server \in Phases \ {"down", "starting"}
    /\ op' = Operation(Head(queue)[1], FirstStep[Head(queue)[1]], Head(queue)[2])
    /\ queue' = Tail(queue)
    /\ UNCHANGED <<windows, panes, hooks, preference, coordinator, server,
                   generation, exit>>

(* toggle_sidebar                                                           *)
ToggleCheck_Unguarded ==
    /\ op.kind = "toggle" /\ op.pc = "check"
    /\ Continue("list")
    /\ UNCHANGED <<windows, panes, hooks, preference, coordinator, queue,
                   generation, exit>>

ToggleCheck ==
    /\ op.kind = "toggle" /\ op.pc = "check"
    /\ IF IsClosing(coordinator) THEN Finish ELSE Continue("list")
    /\ UNCHANGED <<windows, panes, hooks, preference, coordinator, queue,
                   generation, exit>>

ToggleList_ConnectedOnly ==
    /\ op.kind = "toggle" /\ op.pc = "list"
    /\ LET listed == {w \in Windows : panes[w] = "connected"}
       IN op' = [op EXCEPT !.todo = listed,
                           !.pc = IF listed = {} THEN "warm" ELSE "kill"]
    /\ UNCHANGED <<windows, panes, hooks, preference, coordinator, server,
                   queue, generation, exit>>

ToggleList ==
    /\ op.kind = "toggle" /\ op.pc = "list"
    /\ LET listed == {w \in Windows : HasSidebar(w)}
       IN op' = [op EXCEPT !.todo = listed,
                           !.pc = IF listed = {} THEN "warm" ELSE "kill"]
    /\ UNCHANGED <<windows, panes, hooks, preference, coordinator, server,
                   queue, generation, exit>>

ToggleKill(w) ==
    /\ op.kind = "toggle" /\ op.pc = "kill" /\ w \in op.todo
    /\ panes' = [panes EXCEPT ![w] = "none"]
    /\ op' = [op EXCEPT !.todo = @ \ {w},
                        !.pc = IF op.todo = {w} THEN "hide" ELSE "kill"]
    /\ UNCHANGED <<windows, hooks, preference, coordinator, server, queue,
                   generation, exit>>

ToggleHide ==
    /\ op.kind = "toggle" /\ op.pc = "hide"
    /\ Coordinate(Hide(coordinator))
    /\ Continue("recordOff")
    /\ UNCHANGED <<windows, panes, hooks, preference, queue, generation, exit>>

ToggleRecordOff ==
    /\ op.kind = "toggle" /\ op.pc = "recordOff"
    /\ preference' = "off"
    /\ Finish
    /\ UNCHANGED <<windows, panes, hooks, coordinator, queue, generation, exit>>

ToggleWarm_Spawns ==
    /\ op.kind = "toggle" /\ op.pc = "warm"
    /\ Coordinate(BeginWarmupUntil(coordinator))
    /\ op' = [op EXCEPT !.todo = windows, !.pc = "spawn"]
    /\ UNCHANGED <<windows, panes, hooks, preference, server, queue,
                   generation, exit>>

ToggleWarm ==
    /\ op.kind = "toggle" /\ op.pc = "warm"
    /\ Coordinate(BeginWarmupUntil(coordinator))
    /\ Continue("recordOn")
    /\ UNCHANGED <<windows, panes, hooks, preference, queue, generation, exit>>

ToggleRecordOn ==
    /\ op.kind = "toggle" /\ op.pc = "recordOn"
    /\ preference' = "on"
    /\ op' = [op EXCEPT !.todo = windows, !.pc = "spawn"]
    /\ UNCHANGED <<windows, panes, hooks, coordinator, server, queue,
                   generation, exit>>

(* Spawn the sidebar of one listed window; it fails when the window is gone. *)
Spawn(w) ==
    /\ op.pc = "spawn" /\ w \in op.todo
    /\ panes' = IF w \in windows THEN [panes EXCEPT ![w] = "starting"] ELSE panes
    /\ IF op.todo = {w} THEN Finish
       ELSE op' = [op EXCEPT !.todo = @ \ {w}] /\ UNCHANGED server
    /\ UNCHANGED <<windows, hooks, preference, coordinator, queue, generation,
                   exit>>

(* ensure_sidebar, ensure_all_sidebars: visible and not closing, else ignored. *)
EnsureKinds == {"ensure", "ensureAll", "startup", "identify"}

EnsureCheck ==
    /\ op.kind \in EnsureKinds /\ op.pc = "check"
    /\ IF coordinator.visible /\ ~IsClosing(coordinator)
       THEN Continue("list") ELSE Finish
    /\ UNCHANGED <<windows, panes, hooks, preference, coordinator, queue,
                   generation, exit>>

EnsureList_AllWindows ==
    /\ op.kind \in EnsureKinds /\ op.pc = "list"
    /\ LET wanted == IF op.kind = "ensure" THEN {op.window} ELSE windows
       IN IF wanted = {} THEN Finish
          ELSE /\ op' = [op EXCEPT !.todo = wanted, !.pc = "warm"]
               /\ UNCHANGED server
    /\ UNCHANGED <<windows, panes, hooks, preference, coordinator, queue,
                   generation, exit>>

(* One window for ensure_sidebar, every window for ensure_all_sidebars.     *)
EnsureList ==
    /\ op.kind \in EnsureKinds /\ op.pc = "list"
    /\ LET wanted  == IF op.kind = "ensure" THEN {op.window} ELSE windows
           missing == {w \in wanted : ~HasSidebar(w)}
       IN IF missing = {} THEN Finish
          ELSE /\ op' = [op EXCEPT !.todo = missing, !.pc = "warm"]
               /\ UNCHANGED server
    /\ UNCHANGED <<windows, panes, hooks, preference, coordinator, queue,
                   generation, exit>>

EnsureWarm ==
    /\ op.kind \in EnsureKinds /\ op.pc = "warm"
    /\ Coordinate(BeginWarmupUntil(coordinator))
    /\ Continue("spawn")
    /\ UNCHANGED <<windows, panes, hooks, preference, queue, generation, exit>>

(* identify-pane: acknowledge under the coordinator's mutex; the client that *)
(* first makes the sidebar visible counts as the user showing it.            *)
IdentifyAck ==
    /\ op.kind = "identify" /\ op.pc = "ack"
    /\ LET after == AcknowledgeSidebarConnected(coordinator)
       IN /\ Coordinate(after)
          /\ IF ~coordinator.visible /\ after.visible
             THEN Continue("recordOn") ELSE Finish
    /\ UNCHANGED <<windows, panes, hooks, preference, queue, generation, exit>>

IdentifyRecordOn ==
    /\ op.kind = "identify" /\ op.pc = "recordOn"
    /\ preference' = "on"
    /\ Continue("check")
    /\ UNCHANGED <<windows, panes, hooks, coordinator, queue, generation, exit>>

(* /pane-exited removes dead panes (close_dead_content_panes).  The orphans  *)
(* it also kills went with their window's last content pane (CloseWindow).   *)
SweptPanes == [w \in Windows |-> IF panes[w] = "dead" THEN "none" ELSE panes[w]]

PaneExited ==
    /\ op.kind = "paneExited" /\ op.pc = "sweep"
    /\ panes' = SweptPanes
    /\ Finish
    /\ UNCHANGED <<windows, hooks, preference, coordinator, queue, generation,
                   exit>>

-----------------------------------------------------------------------------
(* Server generations.                                                      *)

(* A new process starts with a fresh coordinator; its startup task holds    *)
(* the lock before the first connection is accepted.                        *)
StartServer ==
    /\ server = "down" /\ generation < MaxGenerations
    /\ generation' = generation + 1
    /\ server' = "starting"
    /\ coordinator' = NewCoordinator
    /\ op' = [NoOperation EXCEPT !.kind = "startup", !.pc = "setup"]
    /\ exit' = "none"
    /\ UNCHANGED <<windows, panes, hooks, preference, queue>>

(* setup_mux_hooks installs the hooks, then adopts the sidebars it finds or  *)
(* restores the recorded choice.                                            *)
StartupHooks ==
    /\ op.kind = "startup" /\ op.pc = "setup" /\ ~hooks
    /\ hooks' = TRUE
    /\ UNCHANGED <<windows, panes, preference, coordinator, server, queue, op,
                   generation, exit>>

StartupRestore_Forgets ==
    /\ op.kind = "startup" /\ op.pc = "setup" /\ hooks
    /\ IF \E w \in Windows : HasSidebar(w)
       THEN Coordinate(MarkReady(coordinator)) /\ Continue("check")
       ELSE Finish /\ UNCHANGED coordinator
    /\ UNCHANGED <<windows, panes, hooks, preference, queue, generation, exit>>

StartupRestore ==
    /\ op.kind = "startup" /\ op.pc = "setup" /\ hooks
    /\ \/ /\ \E w \in Windows : HasSidebar(w)
          /\ Coordinate(MarkReady(coordinator))
          /\ Continue("check")
       \/ /\ \A w \in Windows : ~HasSidebar(w)
          /\ preference = "on"
          /\ Coordinate(BeginWarmupUntil(coordinator))
          /\ Continue("check")
       \/ /\ \A w \in Windows : ~HasSidebar(w)
          /\ preference # "on"
          /\ Finish
          /\ UNCHANGED coordinator
    /\ UNCHANGED <<windows, panes, hooks, preference, queue, generation, exit>>

(* run_sidebar_lifecycle_loop, which starts when startup is done.           *)
LifecycleTick ==
    /\ server = "up"
    /\ TimerExpires(coordinator)
    /\ coordinator' = TickTimers(coordinator)
    /\ UNCHANGED <<windows, panes, hooks, preference, server, queue, op,
                   generation, exit>>

(* The tmux poll loop sees a dead pane in its fingerprint and sweeps.       *)
PollSweep ==
    /\ server = "up"
    /\ \E w \in Windows : panes[w] = "dead"
    /\ panes' = SweptPanes
    /\ UNCHANGED <<windows, hooks, preference, coordinator, server, queue, op,
                   generation, exit>>

(* announce_once: q, /quit, SIGTERM, a fatal accept error.  Only the        *)
(* coordinator's mutex is taken, so an operation may be at any step.        *)
BeginShutdown ==
    /\ Accepting
    /\ server' = "draining"
    /\ coordinator' = BeginClosing(coordinator)
    /\ panes' = Disconnected
    /\ UNCHANGED <<windows, hooks, preference, queue, op, generation, exit>>

(* cleanup_owned_generation, after the drain and once the startup task has  *)
(* ended, by a generation that still owns its identity and finds tmux:      *)
(* unset the hooks, then kill every sidebar pane listed.                    *)
CleanupHooks_BeforeStartupEnds ==
    /\ server = "draining"
    /\ server' = "unhooked"
    /\ hooks' = FALSE
    /\ UNCHANGED <<windows, panes, preference, coordinator, queue, op, generation,
                   exit>>

CleanupHooks ==
    /\ server = "draining" /\ op.kind # "startup"
    /\ server' = "unhooked"
    /\ hooks' = FALSE
    /\ UNCHANGED <<windows, panes, preference, coordinator, queue, op, generation,
                   exit>>

CleanupSidebars ==
    /\ server = "unhooked"
    /\ server' = "cleaned"
    /\ panes' = [w \in Windows |-> "none"]
    /\ UNCHANGED <<windows, hooks, preference, coordinator, queue, op, generation,
                   exit>>

(* A generation that lost its pid or token file meanwhile (the plugin's     *)
(* upgrade removes them) skips the cleanup: hooks and panes stay.           *)
SkipCleanup ==
    /\ server = "draining" /\ op.kind # "startup"
    /\ server' = "disowned"
    /\ UNCHANGED <<windows, panes, hooks, preference, coordinator, queue, op,
                   generation, exit>>

(* start_server returns; dropping the runtime waits for the operation on the *)
(* blocking pool and forgets the queued ones.  From here on nothing of the   *)
(* generation acts on tmux any more: "down" says that, and not that the      *)
(* process is gone, which may have to wait for the blocking thread that      *)
(* watches the tmux socket (Exit in ServerGenerations).                      *)
EndGeneration ==
    /\ server \in {"cleaned", "disowned"} /\ ~Busy
    /\ server' = "down"
    /\ exit' = IF server = "cleaned" THEN "clean" ELSE "disowned"
    /\ queue' = <<>>
    /\ coordinator' = NewCoordinator
    /\ UNCHANGED <<windows, panes, hooks, preference, op, generation>>

(* SIGKILL or a panic of the process, at any step.                          *)
Crash ==
    /\ server # "down"
    /\ server' = "down"
    /\ exit' = "crash"
    /\ queue' = <<>>
    /\ op' = NoOperation
    /\ coordinator' = NewCoordinator
    /\ panes' = Disconnected
    /\ UNCHANGED <<windows, hooks, preference, generation>>

-----------------------------------------------------------------------------

OperationStep ==
    \/ ToggleCheck \/ ToggleList \/ ToggleHide \/ ToggleRecordOff
    \/ ToggleWarm \/ ToggleRecordOn
    \/ \E w \in Windows : ToggleKill(w) \/ Spawn(w)
    \/ EnsureCheck \/ EnsureList \/ EnsureWarm
    \/ IdentifyAck \/ IdentifyRecordOn
    \/ PaneExited
    \/ StartupHooks \/ StartupRestore

Environment ==
    \/ UserToggles
    \/ \E w \in Windows : \/ UserSelectsWindow(w) \/ OpenWindow(w)
                          \/ CloseWindow(w) \/ ManualClientIdentifies(w)
                          \/ UserKillsSidebar(w)
                          \/ ClientIdentifies(w) \/ ClientExits(w)

Cleanup == CleanupHooks \/ CleanupSidebars \/ SkipCleanup

Generation == \/ StartServer \/ LifecycleTick \/ PollSweep \/ BeginShutdown
              \/ Cleanup \/ EndGeneration \/ Crash

Next == OperationStep \/ BeginOperation \/ Environment \/ Generation

(* The blocking pool runs an operation it was given, the lock is FIFO, the   *)
(* lifecycle loop ticks, and start_server goes from the drain through the    *)
(* cleanup to its return.  Nothing obliges the user, the tmux windows or the *)
(* clients, and nothing is said of when the process is gone.                 *)
Fairness == /\ WF_vars(OperationStep)
            /\ WF_vars(BeginOperation)
            /\ WF_vars(LifecycleTick)
            /\ WF_vars(Cleanup)
            /\ WF_vars(EndGeneration)

Spec == Init /\ [][Next]_vars
FairSpec == Spec /\ Fairness

-----------------------------------------------------------------------------
(* Safety                                                                   *)

(* Once closing, a generation never leaves it, whatever operation is still   *)
(* running (is_closing in every method of the coordinator).                  *)
ClosingIsTerminal ==
    [][IsClosing(coordinator) /\ server' # "down" =>
         IsClosing(coordinator') /\ coordinator'.visible]_vars

(* While the user has the sidebar hidden and nothing runs, no window holds a *)
(* sidebar, not even one whose client was still starting when he hid them    *)
(* (toggle_sidebar hides every pane tmux lists).                             *)
HiddenMeansNoSidebar ==
    server = "up" /\ ~Busy /\ coordinator.hiddenByUser =>
        \A w \in Windows : ~HasSidebar(w)

(* Only a toggle brings a hidden sidebar back: neither an identify-pane that *)
(* was on its way, nor a window hook, nor the timer undoes the user's hide   *)
(* (hidden_by_user in the coordinator, should_ensure_sidebar).               *)
OnlyToggleUndoesHide ==
    [][coordinator.hiddenByUser /\ ~coordinator.visible /\ coordinator'.visible
         => op.kind = "toggle" \/ IsClosing(coordinator')]_vars

(* A sidebar pane exists only while the recorded choice is on, at every step *)
(* and across crashes: a restart in the middle of any operation restores the *)
(* sidebars the user has on screen (record before spawn, kill before record).*)
SidebarsImplyRecordedOn ==
    (\E w \in Windows : HasSidebar(w)) => preference = "on"

(* Between operations the option and the coordinator tell the same choice,   *)
(* which is what makes the next generation restore it.                       *)
RecordedChoiceAgrees ==
    server = "up" /\ ~Busy =>
        /\ coordinator.hiddenByUser => preference = "off"
        /\ coordinator.visible => preference = "on"

(* An operation queued behind the lock that runs after shutdown began neither*)
(* spawns a sidebar nor records a choice (the comment in toggle_sidebar).    *)
LateOperationsChangeNothing ==
    [][op.late =>
         /\ preference' = preference
         /\ \A w \in Windows : panes'[w] = "starting" => panes[w] = "starting"]_vars

(* No operation spawns a second sidebar in a window that has one (the        *)
(* listings taken under the presence lock).                                  *)
OneSidebarPerWindow ==
    op.pc = "spawn" => \A w \in op.todo : ~HasSidebar(w)

(* A generation that cleaned up after itself leaves no hook behind, even     *)
(* when it was told to stop while it was starting.  (One that lost its       *)
(* identity does: exit is then "disowned".)                                  *)
CleanExitRemovesHooks == exit = "clean" => ~hooks

(* The windows, operations and generations implement the choice of the user: *)
(* it is recorded before a sidebar appears and taken back after the last one *)
(* went, a sidebar appears only where there is none, and what was hidden     *)
(* stays hidden, between any two commands and across crashes.                *)
Shown == {w \in Windows : HasSidebar(w)}
Life == IF server = "down" THEN "none"
        ELSE IF IsClosing(coordinator) THEN "closing"
        ELSE IF coordinator.hiddenByUser THEN "hidden" ELSE "open"

Promise == INSTANCE SidebarChoice WITH shown <- Shown, choice <- preference, life <- Life
ImplementsChoice == Promise!Spec

-----------------------------------------------------------------------------
(* Liveness                                                                 *)

(* An announced shutdown comes to its end, although the startup task was at *)
(* work and requests were queued behind it: the generation cleans up, or    *)
(* finds that it may not, and none of its operations is left to run.        *)
ShutdownCompletes == server = "draining" ~> server = "down"

(* A generation started with a recorded on gives every window its sidebar,  *)
(* unless the window closes, the user hides the sidebar, or it shuts down.  *)
ChoiceIsRestored ==
    \A w \in Windows :
        (op.pc = "setup" /\ preference = "on" /\ w \in windows)
            ~> (HasSidebar(w) \/ w \notin windows \/ preference # "on" \/ ~Accepting)

=============================================================================
