--------------------------- MODULE SidebarChoice ---------------------------
(***************************************************************************)
(* What the sidebars of one tmux server promise its user, whichever server *)
(* generation serves.                                                      *)
(*                                                                         *)
(* The choice is recorded before the first sidebar appears and taken back  *)
(* only when the last one is gone, so at every moment a new generation     *)
(* finds recorded what the user has on screen.  What the user hides stays  *)
(* hidden until the user shows it, and a window never gets a second one.   *)
(* Sidebars may go at any time: windows close, panes are killed, clients   *)
(* and generations end.  SidebarVisibility, with its requests, tmux        *)
(* commands, listings and crashes, implements this.                        *)
(***************************************************************************)
CONSTANT Windows

VARIABLES shown,   \* the windows that hold a sidebar
          choice,  \* the recorded choice, which outlives a generation
          life     \* of a generation: "none", "open", "hidden" or "closing"

vars == <<shown, choice, life>>

Init == /\ shown = {}
        /\ choice = "unset"
        /\ life = "none"

Appears(w) == /\ life \in {"open", "closing"}
              /\ choice = "on"
              /\ w \in Windows \ shown
              /\ shown' = shown \cup {w}
              /\ UNCHANGED <<choice, life>>

Disappear == /\ shown' \in SUBSET shown
             /\ UNCHANGED <<choice, life>>

(* The user hides the sidebar, and shows it again.                          *)
Hides == /\ life = "open" /\ shown = {}
         /\ life' = "hidden"
         /\ UNCHANGED <<shown, choice>>

Shows == /\ life = "hidden"
         /\ life' = "open"
         /\ UNCHANGED <<shown, choice>>

RecordsOn == /\ life \in {"open", "closing"}
             /\ choice' = "on"
             /\ UNCHANGED <<shown, life>>

(* Also by a toggle that began before the generation closed.                *)
RecordsOff == /\ life \in {"hidden", "closing"} /\ shown = {}
              /\ choice' = "off"
              /\ UNCHANGED <<shown, life>>

Starts == /\ life = "none"
          /\ life' = "open"
          /\ UNCHANGED <<shown, choice>>

Closes == /\ life \in {"open", "hidden"}
          /\ life' = "closing"
          /\ UNCHANGED <<shown, choice>>

(* The generation exits, or crashes.                                        *)
Ends == /\ life # "none"
        /\ life' = "none"
        /\ UNCHANGED <<shown, choice>>

Next == \/ \E w \in Windows : Appears(w)
        \/ Disappear
        \/ Hides \/ Shows \/ RecordsOn \/ RecordsOff
        \/ Starts \/ Closes \/ Ends

Spec == Init /\ [][Next]_vars
=============================================================================
