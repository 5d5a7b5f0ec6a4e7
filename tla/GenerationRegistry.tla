------------------------- MODULE GenerationRegistry -------------------------
(***************************************************************************)
(* What the server generations of one tmux server promise together.       *)
(*                                                                         *)
(* At most one generation serves at a time.  The tmux hooks that report to *)
(* it may be removed by an exiting generation, but only while no other one *)
(* serves; apart from that they go only with tmux itself.  A successor     *)
(* therefore never loses its hooks to a predecessor.  ServerGenerations,   *)
(* with its port, its files and its lock, implements this.                 *)
(***************************************************************************)
CONSTANTS Servers,   \* the generations
          NoServer   \* no generation

VARIABLES serving,   \* the generation that serves, or NoServer
          hooks,     \* the hooks are installed in tmux
          tmux       \* tmux itself runs

vars == <<serving, hooks, tmux>>

Init == /\ serving = NoServer
        /\ hooks = FALSE
        /\ tmux = TRUE

Serve(s) == /\ serving = NoServer
            /\ serving' = s
            /\ UNCHANGED <<hooks, tmux>>

Retire == /\ serving' = NoServer
          /\ UNCHANGED <<hooks, tmux>>

Install == /\ tmux
           /\ hooks' = TRUE
           /\ UNCHANGED <<serving, tmux>>

Remove == /\ serving = NoServer
          /\ hooks' = FALSE
          /\ UNCHANGED <<serving, tmux>>

TmuxStops == /\ tmux' = FALSE
             /\ hooks' = FALSE
             /\ UNCHANGED serving

TmuxStarts == /\ tmux' = TRUE
              /\ UNCHANGED <<serving, hooks>>

Next == \/ \E s \in Servers : Serve(s)
        \/ Retire \/ Install \/ Remove
        \/ TmuxStops \/ TmuxStarts

Spec == Init /\ [][Next]_vars
=============================================================================
