---------------------------- MODULE SessionOrder ----------------------------
(***************************************************************************)
(* The order and visibility of sessions in every sidebar:                  *)
(* packages/runtime-rs/src/session_order.rs.  A record [order, hidden];    *)
(* callers hold its mutex, so each method is one step.  Saving to disk     *)
(* follows every change and is left out.                                   *)
(***************************************************************************)
EXTENDS SequencesExt

NewOrder == [order |-> <<>>, hidden |-> {}]

Without(seq, set) == SelectSeq(seq, LAMBDA n : n \notin set)

(* sync: forget what is gone, append what is new, in the listing's order. *)
Sync(o, names) ==
    LET kept == SelectSeq(o.order, LAMBDA n : n \in ToSet(names))
    IN  [order  |-> kept \o Without(names, ToSet(kept)),
         hidden |-> o.hidden \cap ToSet(names)]

(* The names given first, then the others in the order they had. *)
SetVisibleOrder(o, visible) ==
    [o EXCEPT !.order = visible \o Without(o.order, ToSet(visible))]

HideSession(o, n) == IF Contains(o.order, n) THEN [o EXCEPT !.hidden = @ \cup {n}] ELSE o

ShowSession(o, n) ==
    IF n \notin o.hidden THEN o
    ELSE [hidden |-> o.hidden \ {n},
          order  |-> IF Contains(o.order, n) THEN o.order ELSE Append(o.order, n)]

ShowAll(o) == [o EXCEPT !.hidden = {}]

RenameInOrder(o, old, new) ==
    LET now(n) == IF n = old THEN new ELSE n
    IN  [order  |-> [i \in DOMAIN o.order |-> now(o.order[i])],
         hidden |-> {now(n) : n \in o.hidden}]

(* apply: known names by position, unknown ones after them, none hidden. *)
Visible(o, names) ==
    LET shown == Without(names, o.hidden)
    IN  SelectSeq(o.order, LAMBDA n : n \in ToSet(shown))
          \o Without(shown, ToSet(o.order))
=============================================================================
