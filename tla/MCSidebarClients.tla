--------------------------- MODULE MCSidebarClients ---------------------------
EXTENDS SidebarClients

\* Three sessions; b and c are worktrees of one directory.
Idle1    == [id |-> "i1", active |-> FALSE, reachable |-> FALSE]
MCSessions ==
    <<[name |-> "a", group |-> None, agents |-> <<>>],
      [name |-> "b", group |-> "g", agents |-> <<Idle1>>],
      [name |-> "c", group |-> "g", agents |-> <<>>]>>
MCHome == [c \in Sidebars |-> IF c = "p" THEN "a" ELSE "b"]
MCWindows == [n \in Names |->
    IF n = "a" THEN <<[id |-> "w1", active |-> TRUE], [id |-> "w2", active |-> FALSE]>>
    ELSE <<>>]

Key(k, args) == {[key |-> k, arg |-> a] : a \in args}

\* Keys that move, switch and act on sessions, windows and agents ...
ListKeys == UNION {Key(k, {0}) : k \in {"enter", "left", "right", "ctrl-j", "esc", "q", "R",
                   "r", "u", "d", "x", "W", "f", "y", "click-agent", "t"}}
    \cup Key("digit", {3}) \cup Key("tab", {1}) \cup Key("move", {1}) \cup Key("alt", {-1, 1})
    \cup Key("click", {SessionFocus("c"), GroupFocus("g")}) \cup Key("type", {"d"}) \cup Key("preview", {"t2"})

\* ... and those that change settings.
SettingsKeys == Key("w", {0}) \cup Key("slide", {1}) \cup Key("esc", {0})
    \cup Key("drag", {3})
=============================================================================
