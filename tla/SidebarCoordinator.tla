------------------------ MODULE SidebarCoordinator ------------------------
(***************************************************************************)
(* The reducer of packages/runtime-rs/src/sidebar_coordinator.rs: whether  *)
(* the sidebar of one server generation is shown, hidden by the user,      *)
(* warming up or closing.  Each operator is one method; callers hold the   *)
(* coordinator's mutex, so a call is one step.  `width` is data that no    *)
(* method reads and is left out; the deadline `warmup_until` is abstracted *)
(* to whether one is set.                                                  *)
(***************************************************************************)
Lifecycles == {"idle", "warming", "ready", "closing"}

CoordinatorStates == [visible       : BOOLEAN,
                      hiddenByUser  : BOOLEAN,
                      lifecycle     : Lifecycles,
                      warmupUntil   : BOOLEAN]

NewCoordinator == [visible      |-> FALSE, hiddenByUser |-> FALSE,
                   lifecycle    |-> "idle", warmupUntil  |-> FALSE]

IsClosing(c) == c.lifecycle = "closing"

(* The `mode` of `state()`, the label every client renders. *)
Mode(c) == CASE ~c.visible                 -> "hidden"
             [] c.visible /\ IsClosing(c)  -> "closing"
             [] c.visible /\ c.lifecycle = "warming" -> "warming"
             [] OTHER                      -> "ready"

(* begin_warmup_until: begin_warmup ignores the call while closing, but the *)
(* deadline is set either way.                                              *)
BeginWarmupUntil(c) ==
    IF IsClosing(c) THEN [c EXCEPT !.warmupUntil = TRUE]
    ELSE [c EXCEPT !.visible = TRUE, !.hiddenByUser = FALSE,
                   !.lifecycle = "warming", !.warmupUntil = TRUE]

MarkReady(c) ==
    IF IsClosing(c) \/ c.hiddenByUser THEN c
    ELSE [c EXCEPT !.visible = TRUE, !.lifecycle = "ready", !.warmupUntil = FALSE]

AcknowledgeSidebarConnected_Unhides(c) ==
    IF IsClosing(c) THEN c
    ELSE [c EXCEPT !.visible = TRUE,
                   !.lifecycle = IF @ = "warming" THEN @ ELSE "ready"]

(* A sidebar that connects keeps a warmup going, and never undoes a hide. *)
AcknowledgeSidebarConnected(c) ==
    IF IsClosing(c) \/ c.hiddenByUser THEN c
    ELSE [c EXCEPT !.visible = TRUE,
                   !.lifecycle = IF @ = "warming" THEN @ ELSE "ready"]

Hide(c) ==
    IF IsClosing(c) THEN c
    ELSE [visible |-> FALSE, hiddenByUser |-> TRUE,
          lifecycle |-> "idle", warmupUntil |-> FALSE]

BeginClosing(c) ==
    [c EXCEPT !.visible = TRUE, !.lifecycle = "closing", !.warmupUntil = FALSE]

(* tick_timers once the deadline has passed. *)
TimerExpires(c) == c.lifecycle = "warming" /\ c.warmupUntil
TickTimers(c) == [c EXCEPT !.lifecycle = "ready", !.warmupUntil = FALSE]
===========================================================================
