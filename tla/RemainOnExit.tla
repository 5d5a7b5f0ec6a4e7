---------------------------- MODULE RemainOnExit ----------------------------
(***************************************************************************)
(* Dead panes of one tmux window that may hold a sidebar.                  *)
(*                                                                         *)
(* While a window has a sidebar its remain-on-exit is forced on, so that   *)
(* the exit of the last content pane can close the window instead of       *)
(* leaving a lone sidebar.  The user's own value is saved in a second      *)
(* option, restored when the sidebar goes, and decides meanwhile which     *)
(* dead panes are removed.  Nothing in tmux ties the two options or the    *)
(* panes together, and four processes work on them, each with one tmux     *)
(* command at a time: the operation that holds the state lock, the sweep   *)
(* of the poll loop (which does not hold it), the cleanup of a shutdown,   *)
(* and the scripts of the pane hooks, which outlive the server.            *)
(***************************************************************************)
EXTENDS Naturals, FiniteSets

CONSTANTS Contents,    \* content panes that may ever exist in the window
          Sidebars,    \* panes its sidebars may get
          Owns,        \* values the user may have set for the window, NoValue too
          Globals,     \* values he may have set for all windows
          MaxEvents    \* bound: what users, programs and servers begin

Panes    == Contents \cup Sidebars
Statuses == {"clean", "failed"}     \* a status tmux never recorded is a failure
Settings == {"on", "off", "failed"}
NoValue  == "none"                  \* an option that is not set

ASSUME PanesAssumption ==
    /\ Contents # {} /\ Contents \cap Sidebars = {}
    /\ IsFiniteSet(Contents) /\ IsFiniteSet(Sidebars)
    /\ Owns \subseteq Settings \cup {NoValue} /\ Globals \subseteq Settings
    /\ MaxEvents \in Nat

VARIABLES
    pane,       \* pane -> "unborn", "alive", a status it died with, "gone"
    titled,     \* the panes titled opensessions-sidebar
    own, global,\* the user's remain-on-exit: of the window, of the server
    option,     \* remain-on-exit of the window, as it is set now
    saved,      \* @opensessions_remain_on_exit_previous of the window
    proc,       \* the processes at work on the window
    server,     \* the server: "down", "up" or "closing"
    hooked,     \* the tmux hooks are installed
    died,       \* dead panes whose pane-died hook tmux has still to run
    exited,     \* a pane-exited or after-kill-pane hook is due
    changed,    \* the panes changed since the poll loop last looked
    events,
    blind       \* history: a cleanup looked while the own value was unsaved

vars == <<pane, titled, own, global, option, saved, proc, server, hooked, died,
          exited, changed, events, blind>>
user == <<own, global>>
life == <<server, hooked>>

Processes == {"operation", "poll", "lifecycle", "died"}
Steps == {"idle", "split", "title", "ensure", "force", "save", "sweep",
          "orphans", "marked", "listed", "restore", "unmark", "kill", "close",
          "unhook", "sidebars"}
Previous == Settings \cup {NoValue, "inherited"}
States == [pc : Steps, then : Steps, previous : Previous, seen : SUBSET Panes,
           doomed : SUBSET Panes]
Idle == [pc |-> "idle", then |-> "idle", previous |-> NoValue, seen |-> {},
         doomed |-> {}]

Dead(p)  == pane[p] \in Statuses
There(p) == pane[p] = "alive" \/ Dead(p)
Window   == {p \in Panes : There(p)}          \* open while it has a pane
HasSidebar == Window \cap titled # {}

(* remain-on-exit as tmux applies it, and the value that is saved for it.   *)
Effective(value) == IF value = NoValue THEN global ELSE value
Saving(value)    == IF value = NoValue THEN "inherited" ELSE value
Restored(previous) == IF previous = "inherited" THEN NoValue ELSE previous
Keeps(value, status) == value = "on" \/ (value = "failed" /\ status = "failed")

(* effective_remain_on_exit: no saved value means it was on all along.      *)
Chosen(previous) == IF previous = NoValue THEN "on" ELSE Effective(Restored(previous))

TypeOK ==
    /\ pane \in [Panes -> {"unborn", "alive", "gone"} \cup Statuses]
    /\ titled \subseteq Panes
    /\ own \in Owns /\ global \in Globals
    /\ option \in Settings \cup {NoValue}
    /\ saved \in Previous
    /\ proc \in [Processes -> States]
    /\ server \in {"down", "up", "closing"}
    /\ died \subseteq Panes
    /\ hooked \in BOOLEAN /\ exited \in BOOLEAN
    /\ changed \in BOOLEAN /\ blind \in BOOLEAN
    /\ events \in 0..MaxEvents

First == CHOOSE c \in Contents : TRUE     \* the window's first pane

Init ==
    /\ pane = [p \in Panes |-> IF p = First THEN "alive" ELSE "unborn"]
    /\ titled = {}
    /\ own \in Owns /\ global \in Globals
    /\ option = own /\ saved = NoValue
    /\ proc = [a \in Processes |-> Idle]
    /\ server = "up" /\ hooked = TRUE
    /\ died = {} /\ exited = FALSE /\ changed = FALSE
    /\ events = 0
    /\ blind = FALSE

-----------------------------------------------------------------------------
(* What tmux does with panes.                                               *)

(* Panes that leave the window for good.                                    *)
Leave(ps) == pane' = [p \in Panes |-> IF p \in ps THEN "gone" ELSE pane[p]]

(* A process exits: the pane stays dead if remain-on-exit says so, and else *)
(* leaves.  tmux 3.4 may skip the pane-died hook.                           *)
Exits(p, status) ==
    /\ pane[p] = "alive"
    /\ IF Keeps(Effective(option), status)
       THEN /\ pane' = [pane EXCEPT ![p] = status]
            /\ died' \in {died, IF hooked THEN died \cup {p} ELSE died}
            /\ UNCHANGED exited
       ELSE Leave({p}) /\ exited' = hooked /\ UNCHANGED died
    /\ changed' = TRUE
    /\ UNCHANGED <<user, titled, option, saved, proc, life, blind>>

(* The user kills a pane, dead or alive, or opens one by splitting another. *)
UserKills(p) ==
    /\ There(p)
    /\ Leave({p}) /\ exited' = hooked /\ changed' = TRUE
    /\ UNCHANGED <<user, titled, option, saved, proc, life, died, blind>>

UserSplits(p) ==
    /\ p \in Contents /\ pane[p] = "unborn"
    /\ pane' = [pane EXCEPT ![p] = "alive"] /\ changed' = TRUE
    /\ UNCHANGED <<user, titled, option, saved, proc, life, died, exited, blind>>

-----------------------------------------------------------------------------
(* Steps the processes share.  Each is one tmux command and the decision on *)
(* its output.                                                              *)

At(a, pc) == proc[a].pc = pc
Become(a, state) == proc' = [proc EXCEPT ![a] = state]
Goto(a, pc)      == Become(a, [proc[a] EXCEPT !.pc = pc])
Return(a)        == Become(a, [Idle EXCEPT !.pc = proc[a].then])

(* The user's own value is in neither option.                               *)
Unsaved == option # own /\ saved = NoValue
Look    == blind' = (blind \/ Unsaved)

EnsureReads_Forced(a) ==
    /\ At(a, "ensure")
    /\ Become(a, [proc[a] EXCEPT !.pc = "force", !.previous = Saving(option)])
    /\ UNCHANGED <<user, pane, titled, option, saved, life, died, exited,
                   changed, blind>>

(* ensure_window_remain_on_exit: read it, force it, save what was read.     *)
EnsureReads(a) ==
    /\ At(a, "ensure")
    /\ IF Effective(option) = "on"
       THEN Return(a)
       ELSE Become(a, [proc[a] EXCEPT !.pc = "force", !.previous = Saving(option)])
    /\ UNCHANGED <<user, pane, titled, option, saved, life, died, exited,
                   changed, blind>>

EnsureForces(a) ==
    /\ At(a, "force")
    /\ option' = "on"
    /\ Goto(a, "save")
    /\ UNCHANGED <<user, pane, titled, saved, life, died, exited, changed, blind>>

EnsureSaves(a) ==
    /\ At(a, "save")
    /\ saved' = proc[a].previous
    /\ Return(a)
    /\ UNCHANGED <<user, pane, titled, option, life, died, exited, changed, blind>>

(* restore_window_remain_on_exit.                                           *)
Restores(a) ==
    /\ At(a, "restore")
    /\ option' = Restored(proc[a].previous)
    /\ Goto(a, "unmark")
    /\ UNCHANGED <<user, pane, titled, saved, life, died, exited, changed, blind>>

Unmarks(a) ==
    /\ At(a, "unmark")
    /\ saved' = NoValue
    /\ Become(a, [proc[a] EXCEPT !.pc = "kill", !.previous = NoValue])
    /\ UNCHANGED <<user, pane, titled, option, life, died, exited, changed, blind>>

(* kill-pane, pane by pane; what is gone already is no error.               *)
Kills(a) ==
    /\ At(a, "kill")
    /\ LET left == proc[a].doomed \cap Window
       IN IF left = {} THEN Return(a) /\ UNCHANGED <<pane, exited, changed>>
          ELSE \E p \in left :
                 /\ Leave({p}) /\ exited' = hooked /\ changed' = TRUE
                 /\ IF left = {p} THEN Return(a)
                    ELSE Become(a, [proc[a] EXCEPT !.doomed = left \ {p}])
    /\ UNCHANGED <<user, titled, option, saved, life, died, blind>>

(* The dead panes the user's value would not have kept, and every dead      *)
(* sidebar pane (dead_pane_is_removable).                                   *)
Removable(p, value) == Dead(p) /\ (p \in titled \/ ~Keeps(value, pane[p]))

(* close_dead_content_panes: list once, decide as dead_pane_cleanup does.   *)
SweepLists(a) ==
    /\ At(a, "sweep")
    /\ LET doomed == {p \in Window : Removable(p, Chosen(saved))}
           kill == [proc[a] EXCEPT !.pc = "kill", !.doomed = doomed]
       IN IF doomed = {} \/ ~(HasSidebar \/ saved # NoValue) THEN Return(a)
          ELSE IF ~HasSidebar
               THEN Become(a, [kill EXCEPT !.pc = "restore", !.previous = saved])
          ELSE IF Window \subseteq titled \cup doomed
               THEN Become(a, [proc[a] EXCEPT !.pc = "close", !.seen = Window])
          ELSE Become(a, kill)
    /\ Look
    /\ UNCHANGED <<user, pane, titled, option, saved, life, died, exited, changed>>

(* ... and close the window only if it has as many panes as were listed.    *)
SweepCloses(a) ==
    /\ At(a, "close")
    /\ IF Cardinality(Window) = Cardinality(proc[a].seen)
       THEN Leave(Window) /\ changed' = TRUE
       ELSE UNCHANGED <<pane, changed>>
    /\ Return(a)
    /\ UNCHANGED <<user, titled, option, saved, life, died, exited, blind>>

(* restore_remain_on_exit_for_windows_without_sidebar: list what is marked, *)
(* list the panes, restore, remove.                                         *)
ListsMarked(a) ==
    /\ At(a, "marked")
    /\ IF saved = NoValue THEN Return(a)
       ELSE Become(a, [proc[a] EXCEPT !.pc = "listed", !.previous = saved])
    /\ Look
    /\ UNCHANGED <<user, pane, titled, option, saved, life, died, exited, changed>>

ListsPanes(a) ==
    /\ At(a, "listed")
    /\ IF HasSidebar THEN Return(a)
       ELSE Become(a, [proc[a] EXCEPT !.pc = "restore", !.doomed =
                {p \in Window : Removable(p, Chosen(proc[a].previous))}])
    /\ UNCHANGED <<user, pane, titled, option, saved, life, died, exited,
                   changed, blind>>

Shared(a) ==
    \/ EnsureReads(a) \/ EnsureForces(a) \/ EnsureSaves(a)
    \/ Restores(a) \/ Unmarks(a) \/ Kills(a)

-----------------------------------------------------------------------------
(* Operations of the server, one at a time under the state lock.            *)

MayBegin == server = "up" /\ At("operation", "idle") /\ At("lifecycle", "idle")

Begin(pc, then, doomed) ==
    /\ MayBegin
    /\ Become("operation", [Idle EXCEPT !.pc = pc, !.then = then, !.doomed = doomed])
    /\ UNCHANGED <<user, pane, titled, option, saved, life, died, exited, changed, blind>>

BeginShow ==
    /\ ~HasSidebar /\ \E s \in Sidebars : pane[s] = "unborn"
    /\ Begin("split", "idle", {})

BeginHide ==
    /\ HasSidebar
    /\ Begin("kill", "marked", Window \cap titled)

(* /pane-exited, which the scripts of the hooks post; the request can be    *)
(* lost, and wait for the lock for any time.                                *)
BeginPaneExited ==
    /\ \E p \in Panes : pane[p] \notin {"unborn", "alive"}
    /\ Begin("sweep", "orphans", {})

(* A sidebar's client identified itself; it may have gone since.            *)
BeginIdentify ==
    /\ \E s \in Sidebars : pane[s] # "unborn"
    /\ Begin("ensure", "idle", {})

(* spawn_sidebar: split, title, force remain-on-exit.                       *)
Splits ==
    /\ At("operation", "split")
    /\ \E s \in Sidebars :
         /\ pane[s] = "unborn"
         /\ pane' = [pane EXCEPT ![s] = "alive"] /\ changed' = TRUE
         /\ Become("operation", [proc["operation"] EXCEPT !.pc = "title", !.seen = {s}])
    /\ UNCHANGED <<user, titled, option, saved, life, died, exited, blind>>

Titles ==
    /\ At("operation", "title")
    /\ titled' = titled \cup (proc["operation"].seen \cap Window)
    /\ changed' = TRUE
    /\ Become("operation", [Idle EXCEPT !.pc = "ensure"])
    /\ UNCHANGED <<user, pane, option, saved, life, died, exited, blind>>

(* kill_orphaned_sidebar_panes: a lone sidebar goes, and a second one.      *)
ListsOrphans ==
    /\ At("operation", "orphans")
    /\ LET sidebars == Window \cap titled
           Doom(ps) == Become("operation", [Idle EXCEPT !.pc = "kill", !.then = "marked",
                                                        !.doomed = ps])
       IN IF Cardinality(Window) = 1 \/ sidebars = {} THEN Doom(sidebars)
          ELSE \E first \in sidebars : Doom(sidebars \ {first})
    /\ UNCHANGED <<user, pane, titled, option, saved, life, died, exited,
                   changed, blind>>

OperationStep ==
    \/ Splits \/ Titles \/ ListsOrphans \/ Shared("operation")
    \/ SweepLists("operation") \/ SweepCloses("operation")
    \/ ListsMarked("operation") \/ ListsPanes("operation")

(* The poll loop sweeps when the fingerprint of the panes changed.          *)
PollBegins_Unswept ==
    /\ server = "up" /\ At("poll", "idle") /\ changed
    /\ changed' = FALSE
    /\ UNCHANGED <<user, pane, titled, option, saved, proc, life, died, exited, blind>>

PollBegins ==
    /\ server = "up" /\ At("poll", "idle") /\ changed
    /\ changed' = FALSE
    /\ Become("poll", [Idle EXCEPT !.pc = "sweep"])
    /\ UNCHANGED <<user, pane, titled, option, saved, life, died, exited, blind>>

PollStep == SweepLists("poll") \/ SweepCloses("poll") \/ Shared("poll")

-----------------------------------------------------------------------------
(* The life of the server.                                                  *)

(* Startup installs the hooks and forces the option for sidebars it finds.  *)
Start ==
    /\ server = "down"
    /\ server' = "up" /\ hooked' = TRUE
    /\ changed' = TRUE
    /\ Become("lifecycle", [Idle EXCEPT !.pc = IF HasSidebar THEN "ensure" ELSE "idle"])
    /\ UNCHANGED <<user, pane, titled, option, saved, died, exited, blind>>

Shutdown ==
    /\ server = "up" /\ At("lifecycle", "idle")
    /\ server' = "closing"
    /\ Become("lifecycle", [Idle EXCEPT !.pc = "marked"])
    /\ UNCHANGED <<user, pane, titled, option, saved, hooked, died,
                   exited, changed, blind>>

(* cleanup_hooks: restore what is marked, sidebar or not, unset the hooks;  *)
(* then kill the sidebars that are left.                                    *)
CleanupMarked ==
    /\ At("lifecycle", "marked")
    /\ Become("lifecycle", [Idle EXCEPT !.then = "unhook", !.previous = saved,
                 !.pc = IF saved = NoValue THEN "kill" ELSE "restore"])
    /\ UNCHANGED <<user, pane, titled, option, saved, life, died, exited,
                   changed, blind>>

CleanupHooks ==
    /\ At("lifecycle", "unhook")
    /\ hooked' = FALSE
    /\ Goto("lifecycle", "sidebars")
    /\ UNCHANGED <<user, pane, titled, option, saved, server, died,
                   exited, changed, blind>>

CleanupSidebars ==
    /\ At("lifecycle", "sidebars")
    /\ Become("lifecycle", [Idle EXCEPT !.pc = "kill", !.doomed = Window \cap titled])
    /\ UNCHANGED <<user, pane, titled, option, saved, life, died, exited,
                   changed, blind>>

LifecycleStep == CleanupMarked \/ CleanupHooks \/ CleanupSidebars \/ Shared("lifecycle")

Stops ==
    /\ server' = "down"
    /\ proc' = [a \in Processes |->
                 IF a \in {"operation", "poll", "lifecycle"} THEN Idle ELSE proc[a]]
    /\ UNCHANGED <<user, pane, titled, option, saved, hooked, died, exited,
                   changed, blind>>

Exit  == server = "closing" /\ At("lifecycle", "idle") /\ Stops
Crash == server # "down" /\ Stops

-----------------------------------------------------------------------------
(* The scripts of the hooks, run by tmux.                                   *)

(* close_dead_content_pane_pipeline for the pane that died: read it and the *)
(* saved value; count what would remain; restore, close or kill.            *)
DiedReads(p) ==
    /\ p \in died /\ At("died", "idle")
    /\ died' = died \ {p}
    /\ Become("died", IF Removable(p, Chosen(saved))
                      THEN [Idle EXCEPT !.pc = "listed", !.previous = saved, !.doomed = {p}]
                      ELSE Idle)
    /\ Look
    /\ UNCHANGED <<user, pane, titled, option, saved, life, exited, changed>>

DiedCounts_Dead ==
    /\ At("died", "listed")
    /\ LET me == proc["died"]
           sidebars == Window \cap titled
           close == [Idle EXCEPT !.pc = "close", !.seen = Window]
           kill  == [me EXCEPT !.pc = "kill", !.previous = NoValue]
       IN IF sidebars = {} /\ me.previous # NoValue THEN Goto("died", "restore")
          ELSE IF sidebars # {} /\ {p \in Window \ titled : ~Dead(p)} = {}
               THEN Become("died", close) ELSE Become("died", kill)
    /\ UNCHANGED <<user, pane, titled, option, saved, life, died, exited,
                   changed, blind>>

DiedCounts ==
    /\ At("died", "listed")
    /\ LET me == proc["died"]
           sidebars == Window \cap titled
           remaining == {p \in Window \ (titled \cup me.doomed) :
                           ~Removable(p, Chosen(me.previous))}
           close == [Idle EXCEPT !.pc = "close", !.seen = Window]
           kill  == [me EXCEPT !.pc = "kill", !.previous = NoValue]
       IN IF sidebars = {} /\ me.previous # NoValue THEN Goto("died", "restore")
          ELSE IF sidebars # {} /\ remaining = {}
               THEN Become("died", close) ELSE Become("died", kill)
    /\ UNCHANGED <<user, pane, titled, option, saved, life, died, exited,
                   changed, blind>>

DiedCloses ==
    /\ At("died", "close")
    /\ Leave(Window) /\ changed' = TRUE
    /\ Return("died")
    /\ UNCHANGED <<user, titled, option, saved, life, died, exited, blind>>

(* pane_exited_hook_command: a sidebar alone in its window goes.            *)
ExitedScript ==
    /\ exited /\ exited' = FALSE
    /\ IF Cardinality(Window) = 1 /\ Window \subseteq titled
       THEN Leave(Window) /\ changed' = TRUE
       ELSE UNCHANGED <<pane, changed>>
    /\ UNCHANGED <<user, titled, option, saved, proc, life, died, blind>>

DiedStep == (\E p \in Panes : DiedReads(p)) \/ DiedCounts \/ DiedCloses \/ Shared("died")

-----------------------------------------------------------------------------
Environment == \E p \in Panes : \/ UserKills(p) \/ UserSplits(p)
                                \/ \E status \in Statuses : Exits(p, status)
Operations  == BeginShow \/ BeginHide \/ BeginPaneExited \/ BeginIdentify

(* A window whose last pane goes is closed; nothing acts on it any more.    *)
Open == Window # {}
Event == Environment \/ Operations \/ Start \/ Shutdown \/ Crash
Work  == OperationStep \/ PollBegins \/ PollStep \/ Exit
         \/ LifecycleStep \/ DiedStep \/ ExitedScript

Next == Open /\ \/ Event /\ events < MaxEvents /\ events' = events + 1
                \/ Work /\ UNCHANGED events

(* tmux answers every command, and the poll loop keeps polling.             *)
Does(work) == Open /\ work /\ UNCHANGED events
Fairness == /\ WF_vars(Does(OperationStep)) /\ WF_vars(Does(LifecycleStep))
            /\ WF_vars(Does(PollBegins)) /\ WF_vars(Does(PollStep))
            /\ WF_vars(Does(DiedStep)) /\ WF_vars(Does(ExitedScript))

Spec == Init /\ [][Next]_vars
FairSpec == Spec /\ Fairness

-----------------------------------------------------------------------------
(* What is saved is the user's own value, never the forced one, and what is *)
(* set is his or the forced one: whoever forces, restores and crashes in    *)
(* between, nothing else is ever restored (ensure_window_remain_on_exit).   *)
SavedIsOwn ==
    /\ saved \in {NoValue, Saving(own)}
    /\ option \in {own, "on"}

(* The server and its hooks remove no content pane that is alive, or that   *)
(* the user's own value keeps, if it was there when they listed the panes   *)
(* (dead_pane_cleanup and the pane-died script).                            *)
Spared(p) == p \in Contents /\ There(p) /\ ~Removable(p, Effective(own))
OnlyRemovablePanesGo ==
    [][events' = events =>
         \A p \in Contents : Spared(p) /\ pane'[p] = "gone" =>
           \E a \in Processes : At(a, "close") /\ ~At(a, "close")' /\ p \notin proc[a].seen]_vars

(* While the server is up, a dead pane the user's value does not keep goes, *)
(* also if tmux skips its hook or the post of the hook is lost -- unless a  *)
(* cleanup looked at the window between the forcing and the saving.         *)
Lingers(p) == p \in Contents /\ Removable(p, Effective(own)) /\ option = "on"
              /\ HasSidebar /\ server = "up"
DeadPanesGo ==
    \A p \in Contents : Lingers(p) ~> ~Lingers(p) \/ blind
=============================================================================
