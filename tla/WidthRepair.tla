---------------------------- MODULE WidthRepair ----------------------------
(***************************************************************************)
(* The Fixed Sidebar Width of one tmux server.                             *)
(*                                                                         *)
(* The server owns one width and repairs every sidebar pane back to it:    *)
(* at once for a pane that reports itself, or in passes over all windows   *)
(* that a scheduler coalesces.  tmux redistributes widths at any time, its *)
(* hooks ask for repairs -- also after the server's own resizing -- and a  *)
(* drag of a divider, marked in an option, changes the width instead.      *)
(* Operations run one at a time under the state-operation lock; the passes *)
(* and the scripts of tmux do not hold it.                                 *)
(***************************************************************************)
EXTENDS Naturals

CONSTANTS BarWindows, \* windows with a sidebar
          Widths,     \* widths a sidebar can have
          MaxMoves    \* bound: what users and tmux do

Nowhere == "nowhere"

ASSUME WidthsAssumption ==
    /\ Nowhere \notin BarWindows
    /\ Widths # {}
    /\ MaxMoves \in Nat

Attempts == 3
AnyWidth == CHOOSE v \in Widths : TRUE

VARIABLES
    bar,        \* window -> width of its sidebar pane
    configured, \* the Fixed Sidebar Width of the coordinator
    hint,       \* @opensessions_width, which the scripts of tmux read
    marker,     \* @opensessions_mouse_resize_window
    pending,    \* the scheduler's count of requests is not zero
    permit,     \* the scheduler was notified
    proc,       \* the repair loop and the operation that holds the lock
    posts,      \* requests that wait for the lock
    due,        \* windows whose after-resize-pane hook is due
    drag,       \* the drag of a divider and the script that reports it
    moves,
    untold      \* history: windows whose repair was skipped or whose post was lost

widthVars == <<bar, configured, hint, marker, pending, permit, proc, posts, due,
               drag, moves, untold>>

Repairers == {"loop", "operation"}
Stages == {"idle", "over", "take", "check", "hint", "add", "notify", "list", "run"}
Idle == [pc |-> "idle", target |-> AnyWidth, todo |-> {}, left |-> {}, attempt |-> 1,
         fresh |-> {}]
Procs == [pc : Stages, target : Widths, todo : SUBSET BarWindows, left : SUBSET BarWindows,
          attempt : 1..Attempts, fresh : SUBSET BarWindows]
Posts == {<<"resized">>} \cup ({"repair"} \X BarWindows) \cup ({"set"} \X Widths)
NoDrag == [pc |-> "idle", window |-> Nowhere, width |-> AnyWidth]

WidthTypeOK ==
    /\ bar \in [BarWindows -> Widths]
    /\ configured \in Widths /\ hint \in Widths
    /\ marker \in BarWindows \cup {Nowhere}
    /\ pending \in BOOLEAN /\ permit \in BOOLEAN
    /\ proc \in [Repairers -> Procs]
    /\ posts \subseteq Posts
    /\ due \subseteq BarWindows
    /\ drag \in {NoDrag} \cup [pc : {"marked", "moved", "read", "unmark"},
                                window : BarWindows, width : Widths]
    /\ moves \in 0..MaxMoves
    /\ untold \subseteq BarWindows

WidthInit ==
    /\ configured \in Widths /\ hint = configured
    /\ bar = [w \in BarWindows |-> configured]
    /\ marker = Nowhere
    /\ pending = FALSE /\ permit = FALSE
    /\ proc = [a \in Repairers |-> Idle]
    /\ posts = {} /\ due = {}
    /\ drag = NoDrag
    /\ moves = 0 /\ untold = {}

-----------------------------------------------------------------------------
At(a, pc) == proc[a].pc = pc
Become(a, state) == proc' = [proc EXCEPT ![a] = state]

(* A sidebar takes a width; who listed its layout before has a stale one.   *)
Takes(w, v) == bar' = [bar EXCEPT ![w] = v]
Stale(w, procs) == [a \in Repairers |-> [procs[a] EXCEPT !.fresh = @ \ {w}]]

(* SidebarWidthRepairScheduler::request, its second step.                   *)
Adds == pending' = TRUE /\ untold' = {}

(* Mutant: notify_waiters, which stores nothing for a loop that is not      *)
(* waiting.                                                                 *)
Notifies_Waiters ==
    /\ At("operation", "notify")
    /\ permit' = (permit \/ At("loop", "idle"))
    /\ Become("operation", Idle)
    /\ UNCHANGED <<bar, configured, hint, marker, pending, posts, due, drag, moves, untold>>

(* notify_one stores a permit for a loop that is not waiting.               *)
Notifies ==
    /\ At("operation", "notify")
    /\ permit' = TRUE
    /\ Become("operation", Idle)
    /\ UNCHANGED <<bar, configured, hint, marker, pending, posts, due, drag, moves, untold>>

(* Mutant: requests coalesce with the pass that is under way.               *)
AddsRequest_Debounced ==
    /\ At("operation", "add")
    /\ untold' = {}
    /\ pending' = (pending \/ At("loop", "idle"))
    /\ Become("operation", [Idle EXCEPT !.pc = "notify"])
    /\ UNCHANGED <<bar, configured, hint, marker, permit, posts, due, drag, moves>>

AddsRequest ==
    /\ At("operation", "add")
    /\ Adds
    /\ Become("operation", [Idle EXCEPT !.pc = "notify"])
    /\ UNCHANGED <<bar, configured, hint, marker, permit, posts, due, drag, moves>>

-----------------------------------------------------------------------------
(* resize_pane_widths: up to three attempts, each a listing with the        *)
(* layouts and one guarded command per pane; what has the right width       *)
(* needs no further attempt, and the last one does without the guard.       *)
Done(a) == IF a = "loop" THEN [Idle EXCEPT !.pc = "take"] ELSE Idle

Resize(a, state) ==
    IF state.todo = {} THEN Done(a) ELSE [state EXCEPT !.pc = "list"]

Lists(a) ==
    /\ At(a, "list")
    /\ LET me == proc[a]
           todo == IF me.attempt = 1 THEN me.todo
                   ELSE {w \in me.todo : bar[w] # me.target}
       IN Become(a, IF todo = {} THEN Done(a)
                    ELSE [me EXCEPT !.pc = "run", !.todo = todo, !.left = todo,
                                    !.fresh = todo])
    /\ UNCHANGED <<bar, configured, hint, marker, pending, permit, posts, due, drag,
                   moves, untold>>

(* One pane's command; it runs the hook of the pane, which resized or not.  *)
Runs(a, w) ==
    /\ At(a, "run") /\ w \in proc[a].left
    /\ LET me == proc[a]
           applies == w \in me.fresh \/ me.attempt = Attempts
           after == [me EXCEPT !.left = @ \ {w}]
           next == IF after.left # {} THEN after
                   ELSE IF me.attempt = Attempts THEN Done(a)
                   ELSE [after EXCEPT !.pc = "list", !.attempt = @ + 1]
           stepped == [proc EXCEPT ![a] = next]
       IN IF applies
          THEN /\ Takes(w, me.target) /\ due' = due \cup {w}
               /\ proc' = Stale(w, stepped)
          ELSE UNCHANGED <<bar, due>> /\ proc' = stepped
    /\ UNCHANGED <<configured, hint, marker, pending, permit, posts, drag, moves, untold>>

-----------------------------------------------------------------------------
(* The repair loop: run_coalesced_sidebar_width_repairs.  It is notified,   *)
(* waits for the layout to settle, ...                                      *)
LoopWakes ==
    /\ At("loop", "idle") /\ permit
    /\ permit' = FALSE
    /\ Become("loop", [Idle EXCEPT !.pc = "take"])
    /\ UNCHANGED <<bar, configured, hint, marker, pending, posts, due, drag, moves, untold>>

(* ... takes what is pending, reads the width and lists the sidebars that   *)
(* have another one (sidebar_panes_to_resize).                              *)
LoopTakes ==
    /\ At("loop", "take")
    /\ pending' = FALSE
    /\ LET wrong == {w \in BarWindows : bar[w] # configured}
       IN Become("loop", IF ~pending THEN [Idle EXCEPT !.pc = "over"]
                         ELSE IF wrong = {} THEN Done("loop")
                         ELSE [Idle EXCEPT !.pc = "check", !.target = configured,
                                           !.left = wrong])
    /\ UNCHANGED <<bar, configured, hint, marker, permit, posts, due, drag, moves, untold>>

(* ... until there is nothing pending, and waits for a notification again.  *)
LoopWaits ==
    /\ At("loop", "over")
    /\ Become("loop", Idle)
    /\ UNCHANGED <<bar, configured, hint, marker, pending, permit, posts, due, drag,
                   moves, untold>>

(* Each listed pane is asked for its window's marker, one by one; those     *)
(* that are not dragged are resized.                                        *)
LoopChecks(w) ==
    /\ At("loop", "check") /\ w \in proc["loop"].left
    /\ LET me == [proc["loop"] EXCEPT !.left = @ \ {w},
                                      !.todo = IF marker = w THEN @ ELSE @ \cup {w}]
       IN Become("loop", IF me.left # {} THEN me ELSE Resize("loop", me))
    /\ untold' = IF marker = w THEN untold \cup {w} ELSE untold
    /\ UNCHANGED <<bar, configured, hint, marker, pending, permit, posts, due, drag, moves>>

LoopStep ==
    \/ LoopWakes \/ LoopTakes \/ LoopWaits \/ Lists("loop")
    \/ \E w \in BarWindows : LoopChecks(w) \/ Runs("loop", w)

-----------------------------------------------------------------------------
(* Operations, under the lock.                                              *)

(* set_sidebar_width: the coordinator, the option, a request.               *)
SetsWidth(v) ==
    /\ At("operation", "idle")
    /\ configured' = v
    /\ Become("operation", [Idle EXCEPT !.pc = "hint"])
    /\ UNCHANGED <<bar, hint, marker, pending, permit, due, drag, untold>>

SetsHint ==
    /\ At("operation", "hint")
    /\ hint' = configured
    /\ Become("operation", [Idle EXCEPT !.pc = "add"])
    /\ UNCHANGED <<bar, configured, marker, pending, permit, posts, due, drag, moves, untold>>

(* A pane that reports itself is repaired at once, unless it is dragged.    *)
RepairsPane(w) ==
    /\ At("operation", "idle")
    /\ Become("operation", IF marker = w THEN Idle
                           ELSE Resize("operation", [Idle EXCEPT !.target = configured, !.todo = {w}]))
    /\ untold' = IF marker = w THEN untold \cup {w} ELSE untold
    /\ UNCHANGED <<bar, configured, hint, marker, pending, permit, due, drag>>

RequestsRepair ==
    /\ At("operation", "idle")
    /\ Become("operation", [Idle EXCEPT !.pc = "add"])
    /\ UNCHANGED <<bar, configured, hint, marker, pending, permit, due, drag, untold>>

(* A post is served: from the hooks, or from the script of a drag.          *)
Serves(post) ==
    /\ post \in posts /\ posts' = posts \ {post}
    /\ \/ post = <<"resized">> /\ RequestsRepair
       \/ \E w \in BarWindows : post = <<"repair", w>> /\ RepairsPane(w)
       \/ \E v \in Widths : post = <<"set", v>> /\ SetsWidth(v)
    /\ UNCHANGED moves

RepairStep ==
    \/ SetsHint \/ AddsRequest \/ Notifies \/ Lists("operation")
    \/ \E w \in BarWindows : Runs("operation", w)

-----------------------------------------------------------------------------
(* The scripts of tmux.                                                     *)

(* A curl that gets through, or none within its 200 ms.                     *)
Posting(post, about) ==
    \/ posts' = posts \cup {post} /\ UNCHANGED untold
    \/ UNCHANGED posts /\ untold' = untold \cup about

(* Mutant: the hook does not compare the width with the option.             *)
HookRuns_Unfiltered(w) ==
    /\ w \in due /\ due' = due \ {w}
    /\ IF marker = w THEN UNCHANGED posts /\ untold' = untold \cup {w}
       ELSE Posting(<<"repair", w>>, {w})
    /\ UNCHANGED <<bar, configured, hint, marker, pending, permit, proc, drag, moves>>

(* after-resize-pane: the pane reports itself if its width is not the       *)
(* option's and its window is not dragged (sidebar_width_repair_filter).    *)
HookRuns(w) ==
    /\ w \in due /\ due' = due \ {w}
    /\ IF bar[w] = hint THEN UNCHANGED <<posts, untold>>
       ELSE IF marker = w THEN UNCHANGED posts /\ untold' = untold \cup {w}
       ELSE Posting(<<"repair", w>>, {w})
    /\ UNCHANGED <<bar, configured, hint, marker, pending, permit, proc, drag, moves>>

(* The drag's binding: mark the window, resize, report in the background.   *)
DragMoves(v) ==
    /\ drag.pc = "marked"
    /\ Takes(drag.window, v) /\ due' = due \cup {drag.window}
    /\ proc' = Stale(drag.window, proc)
    /\ drag' = [drag EXCEPT !.pc = "moved"]
    /\ UNCHANGED <<configured, hint, marker, pending, permit, posts, moves, untold>>

DragReads ==
    /\ drag.pc = "moved"
    /\ drag' = [drag EXCEPT !.pc = "read", !.width = bar[drag.window]]
    /\ UNCHANGED <<bar, configured, hint, marker, pending, permit, proc, posts, due,
                   moves, untold>>

(* A width other than the option's is the user's; if its post is lost the   *)
(* sidebar keeps it until something else asks for a repair.                 *)
DragReports ==
    /\ drag.pc = "read"
    /\ IF drag.width # hint
       THEN Posting(<<"set", drag.width>>, {drag.window})
       ELSE UNCHANGED <<posts, untold>>
    /\ drag' = [drag EXCEPT !.pc = "unmark"]
    /\ UNCHANGED <<bar, configured, hint, marker, pending, permit, proc, due, moves>>

DragUnmarks ==
    /\ drag.pc = "unmark"
    /\ marker' = Nowhere
    /\ drag' = NoDrag
    /\ UNCHANGED <<bar, configured, hint, pending, permit, proc, posts, due, moves, untold>>

DragStep == DragReads \/ DragReports \/ DragUnmarks \/ \E v \in Widths : DragMoves(v)

-----------------------------------------------------------------------------
(* Users and tmux.                                                          *)
DragStarts(w) ==
    /\ drag.pc = "idle"
    /\ marker' = w
    /\ drag' = [NoDrag EXCEPT !.pc = "marked", !.window = w]
    /\ UNCHANGED <<bar, configured, hint, pending, permit, proc, posts, due, untold>>

(* The window or its client is resized, or a pane of it exits.              *)
Redistributes(w, v) ==
    /\ Takes(w, v)
    /\ proc' = Stale(w, proc)
    /\ Posting(<<"resized">>, {w})
    /\ UNCHANGED <<configured, hint, marker, pending, permit, due, drag>>

(* Somebody resizes the pane by a command.                                  *)
ResizesPane(w, v) ==
    /\ Takes(w, v) /\ due' = due \cup {w}
    /\ proc' = Stale(w, proc)
    /\ UNCHANGED <<configured, hint, marker, pending, permit, posts, drag, untold>>

(* A client of a sidebar sets the width, or asks for repair of its pane.    *)
Slides(v) == SetsWidth(v) /\ UNCHANGED posts
Asks(w)   == RepairsPane(w) /\ UNCHANGED posts

Moves ==
    \/ \E w \in BarWindows : DragStarts(w) \/ Asks(w)
    \/ \E w \in BarWindows, v \in Widths : Redistributes(w, v) \/ ResizesPane(w, v)
    \/ \E v \in Widths : Slides(v)

Work == LoopStep \/ RepairStep \/ DragStep
        \/ (\E post \in Posts : Serves(post)) \/ (\E w \in BarWindows : HookRuns(w))

WidthNext ==
    \/ Moves /\ moves < MaxMoves /\ moves' = moves + 1
    \/ Work

(* The loop runs until the shutdown, the lock is fair, and tmux runs its    *)
(* hooks and scripts.                                                       *)
WidthFairness ==
    /\ WF_widthVars(LoopStep) /\ WF_widthVars(RepairStep) /\ WF_widthVars(DragStep)
    /\ \A post \in Posts : WF_widthVars(Serves(post))
    /\ \A w \in BarWindows : WF_widthVars(HookRuns(w))

WidthSpec == WidthInit /\ [][WidthNext]_widthVars
WidthFairSpec == WidthSpec /\ WidthFairness

-----------------------------------------------------------------------------
(* A request that was counted is never left without somebody to see it: a   *)
(* stored notification, or the loop before its next look at the count       *)
(* (SidebarWidthRepairScheduler).                                           *)
RequestIsNotLost ==
    pending => \/ permit \/ At("operation", "notify")
               \/ ~At("loop", "idle") /\ ~At("loop", "over")

(* Every sidebar gets the Fixed Sidebar Width back, and a new width reaches *)
(* every sidebar, whatever requests coalesce -- unless tmux could not tell  *)
(* the server, or a drag kept the pane out of a repair                      *)
(* (docs/explanation/sidebar-behavior.md: Width Authority).                 *)
Wrong(w) == bar[w] # configured
WidthsConverge == \A w \in BarWindows : Wrong(w) ~> ~Wrong(w) \/ w \in untold

(* Repairs come to rest: the hooks that the server's own resizing triggers  *)
(* do not keep it repairing.                                                *)
Quiet == due = {} /\ posts = {} /\ \A a \in Repairers : At(a, "idle")
RepairsSettle == <>[]Quiet
=============================================================================
