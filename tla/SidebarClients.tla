--------------------------- MODULE SidebarClients ---------------------------
(***************************************************************************)
(* Several sidebars and their server.  Each sidebar runs SidebarApp over a *)
(* websocket; the server applies commands to the session order and the     *)
(* settings, switches the attached tmux client, and broadcasts snapshots.  *)
(*                                                                         *)
(* A command is handled under the state-operation lock, hence in one step, *)
(* but its payload is broadcast after the lock is released, and background *)
(* loops build snapshots without it.  Each connection forwards broadcasts  *)
(* in order, holding back all but the latest snapshot until the next frame.*)
(***************************************************************************)
EXTENDS SidebarApp, SessionOrder

CONSTANTS Sidebars,      \* sidebar panes, one websocket each
          HomeOf,        \* the session each sidebar's pane is in
          Sessions,      \* the tmux sessions at the start, in creation order
          WindowsOf,     \* windows [id, active] of each session
          Keys,          \* the keys and clicks a user may make
          Tasks,         \* the background loops that run: see Loops
          MaxKeys,       \* bound: how many that act; moves in a modal and its end are free
          MaxSwitches,   \* bound: session switches by the user in tmux itself
          MaxChanges     \* bound: other changes in tmux or of agents

ASSUME SidebarsAssumption ==
    /\ HomeOf \in [Sidebars -> Names]
    /\ Sessions # <<>> /\ \A i \in DOMAIN Sessions : Sessions[i].name \in Names
    /\ \A k \in Keys : k.key = "type" => k.arg \in Names
    /\ "refresher" \in Tasks
    /\ {MaxKeys, MaxSwitches, MaxChanges} \subseteq Nat

VARIABLES live,      \* tmux sessions in creation order: [name, group, agents]
          attached,  \* the session the attached tmux client shows
          home,      \* per sidebar, the session its pane is in, None once it is gone
          windows,   \* per session, its windows [id, active]
          server,    \* session order, collapsed groups, filter, settings, revision
          app,       \* per sidebar, its App
          held,      \* per sidebar, the width command being debounced
          conn,      \* per sidebar, both directions of its websocket and its loop
          due,       \* the background loops that have a snapshot to build
          built,     \* snapshots the background loops built and not yet sent
          hooks,     \* activations of tmux hooks on their way to the server
          seen,      \* history: what each sidebar has read, see Reads
          budget     \* what is left of the bounds

vars == <<live, attached, home, windows, server, app, held, conn, due,
          built, hooks, seen, budget>>

(* One loop serves coalesced requests for a refresh, the other polls tmux. *)
Loops == {"refresher", "poll"}
Wake(loops) == due' = due \cup (loops \cap Tasks)

SettingTypes == {"width", "theme", "scope", "height"}
NoCommand == [type |-> "none"]

Alive == {c \in Sidebars : home[c] # None}

LiveNames == ToSet(NamesOf(live))
SessionOf(n) == live[SelectInSeq(live, LAMBDA s : s.name = n)]

(* visible_session_names: forget and learn sessions, never hide the shown. *)
Learn(s) == [s EXCEPT !.list = ShowSession(Sync(@, NamesOf(live)), attached)]

Snapshot(s) ==
    LET shown == Visible(Learn(s).list, NamesOf(live))
    IN  [type |-> "state", sessions |-> [i \in DOMAIN shown |-> SessionOf(shown[i])],
         current |-> attached, filter |-> s.filter, collapsed |-> s.collapsed,
         settings |-> s.settings, revision |-> s.revision]

IdleConn == [up |-> <<>>, queue |-> <<>>, pending |-> <<>>, down |-> <<>>,
             out |-> <<>>, switching |-> None, again |-> FALSE, renaming |-> <<>>]

Settings0 == [width |-> 1, theme |-> CHOOSE t \in Themes : TRUE,
              scope |-> "current", height |-> 1]

(* A client that has connected, identified its pane and read a first state. *)
Opened(c, s) == SetPaneIdentity(FromState(Snapshot(s)), c, HomeOf[c])

Init ==
    /\ live = Sessions
    /\ attached = Sessions[1].name
    /\ home = HomeOf
    /\ windows = WindowsOf
    /\ server = [list |-> [NewOrder EXCEPT !.order = NamesOf(Sessions)],
                 collapsed |-> {}, filter |-> "all", settings |-> Settings0,
                 revision |-> 0]
    /\ app = [c \in Sidebars |-> Opened(c, server)]
    /\ held = [c \in Sidebars |-> NoCommand]
    /\ conn = [c \in Sidebars |-> IdleConn]
    /\ due = {}
    /\ built = [t \in Tasks |-> <<>>]
    /\ hooks = <<>>
    /\ seen = [c \in Sidebars |-> [current |-> None, revision |-> server.revision]]
    /\ budget = [keys |-> MaxKeys, switches |-> MaxSwitches, changes |-> MaxChanges]

------------------------------------------------------------------------------
(* The client's event loop.                                                  *)

(* send_or_queue_client_command: the newest width waits a while, and any     *)
(* other command sends it first.  A width is the only command of its key.    *)
IsWidth(commands) == commands # <<>> /\ Head(commands).type = "width"

HeldAfter(c, commands) ==
    CASE commands = <<>>   -> held[c]
      [] IsWidth(commands) -> Head(commands)
      [] OTHER             -> NoCommand

SentAfter(c, commands) ==
    IF commands = <<>> \/ IsWidth(commands) THEN conn[c].up
    ELSE conn[c].up \o (IF held[c] = NoCommand THEN <<>> ELSE <<held[c]>>) \o commands

Becomes(c, next) ==
    /\ app' = [app EXCEPT ![c] = [next EXCEPT !.commands = <<>>]]
    /\ held' = [held EXCEPT ![c] = HeldAfter(c, next.commands)]

KeyPress(c, k) ==
    /\ home[c] # None /\ ~app[c].quitting
    /\ budget.keys > 0 \/ app[c].modal # NoModal
    /\ LET next == ApplyKey(app[c], k) IN
       /\ next # app[c]
       /\ Becomes(c, next)
       /\ conn' = [conn EXCEPT ![c].up = SentAfter(c, next.commands)]
       /\ IF app[c].modal # NoModal /\ (next.commands = <<>> \/ next.modal = NoModal)
          THEN UNCHANGED budget
          ELSE budget.keys > 0 /\ budget' = [budget EXCEPT !.keys = @ - 1]
    /\ UNCHANGED <<live, attached, home, windows, server, due, built, hooks,
                   seen>>

FlushWidth(c) ==
    /\ held[c] # NoCommand
    /\ conn' = [conn EXCEPT ![c].up = Append(@, held[c])]
    /\ held' = [held EXCEPT ![c] = NoCommand]
    /\ UNCHANGED <<live, attached, home, windows, server, app, due, built,
                   hooks, seen, budget>>

(* A message from the server; a rename of its own session is confirmed and  *)
(* reported back.                                                           *)
Received(c, m) ==
    IF m.type = "re-identify" /\ app[c].identity = m.old
    THEN IdentifyPane(app[c], m.new) ELSE ApplyServerMessage(app[c], m)

(* What a sidebar has read: the newest revision of a snapshot, and the      *)
(* session the last one shows, unless the sidebar's own changed after it.   *)
Reads(s, m, moved) ==
    IF m.type = "state"
    THEN [current  |-> m.current,
          revision |-> IF m.revision > s.revision THEN m.revision ELSE s.revision]
    ELSE [s EXCEPT !.current = IF moved THEN None ELSE @]

ClientReceives(c) ==
    /\ conn[c].down # <<>>
    /\ LET m    == Head(conn[c].down)
           next == Received(c, m)
       IN  /\ Becomes(c, next)
           /\ conn' = [conn EXCEPT ![c].down = Tail(@), ![c].up = SentAfter(c, next.commands)]
           /\ seen' = [seen EXCEPT ![c] = Reads(@, m, next.local # app[c].local)]
    /\ UNCHANGED <<live, attached, home, windows, server, due, built, hooks,
                   budget>>

(* The select! loop of a sidebar; drawing and animation are left out.       *)
ClientStep(c) ==
    \/ \E k \in Keys : KeyPress(c, k)
    \/ FlushWidth(c)
    \/ ClientReceives(c)

------------------------------------------------------------------------------
(* The server's loop for one connection.                                     *)

(* One iteration at a time: a switch, a rename or a payload in hand ends     *)
(* before the next command or broadcast is read.                             *)
Idle(c) ==
    /\ conn[c].out = <<>> /\ conn[c].switching = None
    /\ conn[c].renaming = <<>> /\ ~conn[c].again

Command(c) == Head(conn[c].up)

ReadsCommand(c, types) ==
    /\ Idle(c) /\ conn[c].up # <<>> /\ Command(c).type \in types

(* A broadcast reaches the queue of every connection. *)
Broadcast(cs, m) ==
    [c \in Sidebars |-> IF home[c] = None THEN cs[c]
                        ELSE [cs[c] EXCEPT !.queue = Append(@, m)]]

Consumed(cs, c) == [cs EXCEPT ![c].up = Tail(@)]
Reply(cs, c, m) == [cs EXCEPT ![c].down = Append(@, m)]

Bump(s, type, value) ==
    [s EXCEPT !.settings[type] = value, !.revision = @ + 1]

Reordered(s, names) ==
    IF names = <<>> THEN Learn(s) ELSE [Learn(s) EXCEPT !.list = SetVisibleOrder(@, names)]

(* handle_client_command_with_context, the commands that change the server.  *)
ApplyCommand(s, cmd) ==
    LET view == FromState(Snapshot(s)) IN
    CASE cmd.type \in SettingTypes   -> Bump(s, cmd.type, cmd.value)
      [] cmd.type = "set-filter"     -> [s EXCEPT !.filter = cmd.value, !.revision = @ + 1]
      [] cmd.type = "toggle-group"   ->
             [s EXCEPT !.collapsed = IF cmd.name \in @ THEN @ \ {cmd.name}
                                     ELSE @ \cup {cmd.name}]
      [] cmd.type = "hide"           -> [s EXCEPT !.list = HideSession(@, cmd.name)]
      [] cmd.type = "show-all"       -> [s EXCEPT !.list = ShowAll(@)]
      [] cmd.type = "reorder"        ->
             Reordered(s, ReorderedSessionNames(view, cmd.name, cmd.delta))
      [] cmd.type = "reorder-group"  ->
             Reordered(s, ReorderedGroupNames(view, cmd.name, cmd.delta))

ServerCommands == SettingTypes \cup
    {"set-filter", "toggle-group", "hide", "show-all", "reorder", "reorder-group"}

(* Settings are acknowledged to their sender with the revision of the       *)
(* snapshot that carries them.                                              *)
Payload(s, cmd) ==
    (IF cmd.type \in SettingTypes
     THEN <<[type |-> "applied", id |-> cmd.id, revision |-> s.revision]>> ELSE <<>>)
      \o <<Snapshot(s)>>

ServerHandles(c) ==
    /\ ReadsCommand(c, ServerCommands)
    /\ LET s == ApplyCommand(server, Command(c)) IN
       /\ server' = Learn(s)
       /\ conn' = [Consumed(conn, c) EXCEPT ![c].out = Payload(s, Command(c))]
    /\ UNCHANGED <<live, attached, home, windows, app, held, due, built, hooks,
                   seen, budget>>

ServerRefreshes(c) ==
    /\ ReadsCommand(c, {"refresh"})
    /\ server' = Learn(server)
    /\ conn' = [Consumed(conn, c) EXCEPT ![c].out = <<Snapshot(server)>>]
    /\ UNCHANGED <<live, attached, home, windows, app, held, due, built, hooks,
                   seen, budget>>

(* What is in hand goes out: an acknowledgement to the sender, anything     *)
(* else to everyone.                                                        *)
ServerPublishes(c) ==
    /\ conn[c].out # <<>>
    /\ LET m    == Head(conn[c].out)
           rest == [conn EXCEPT ![c].out = Tail(@)]
       IN  conn' = IF m.type = "applied" THEN Reply(rest, c, m) ELSE Broadcast(rest, m)
    /\ UNCHANGED <<live, attached, home, windows, server, app, held, due, built,
                   hooks, seen, budget>>

ServerIdentifies(c) ==
    /\ ReadsCommand(c, {"identify-pane"})
    /\ conn' = Reply(Consumed(conn, c), c, [type |-> "your-session", name |-> Command(c).name])
    /\ UNCHANGED <<live, attached, home, windows, server, app, held, due, built,
                   hooks, seen, budget>>

ServerListsWindows(c) ==
    /\ ReadsCommand(c, {"request-windows"})
    /\ LET n == Command(c).name IN
       conn' = Reply(Consumed(conn, c), c,
                     [type |-> "windows", session |-> n,
                      windows |-> IF n \in LiveNames THEN windows[n] ELSE <<>>])
    /\ UNCHANGED <<live, attached, home, windows, server, app, held, due, built,
                   hooks, seen, budget>>

(* switch-session: sidebars hear of it, then, a frame later and without the *)
(* state-operation lock, tmux switches and a refresh is requested.          *)
ServerAnnouncesSwitch(c) ==
    /\ ReadsCommand(c, {"switch-session"})
    /\ conn' = [Broadcast(Consumed(conn, c),
                    [type |-> "activate", name |-> Command(c).name, source |-> app[c].pane])
                    EXCEPT ![c].switching = Command(c).name]
    /\ UNCHANGED <<live, attached, home, windows, server, app, held, due, built,
                   hooks, seen, budget>>

Attach(n, woken) ==
    IF n \in LiveNames /\ n # attached
    THEN attached' = n /\ hooks' = Append(hooks, n) /\ Wake(woken \cup {"poll"})
    ELSE UNCHANGED <<attached, hooks>> /\ Wake(woken)

ServerSwitches(c) ==
    /\ conn[c].switching # None
    /\ Attach(conn[c].switching, {"refresher"})
    /\ conn' = [conn EXCEPT ![c].switching = None]
    /\ UNCHANGED <<live, home, windows, server, app, held, built, seen, budget>>

(* kill-session: its clients move to the session before it in the list, or  *)
(* after it, before it dies; a sidebar in it dies with it.                  *)
Fallback(n) ==
    LET names == DisplayedNames(FromState(Snapshot(server)))
        at    == PositionOf(names, n)
    IN  IF at = 0 THEN None
        ELSE IF at > 1 THEN names[at - 1]
        ELSE IF Len(names) > 1 THEN names[2] ELSE None

(* tmux ends a session: the panes in it, and their connections, are gone.   *)
SessionEnds(n, fallback, cs) ==
    /\ live' = SelectSeq(live, LAMBDA s : s.name # n)
    /\ attached' = IF attached = n THEN fallback ELSE attached
    /\ hooks' = IF attached = n THEN Append(hooks, fallback) ELSE hooks
    /\ home' = [c \in Sidebars |-> IF home[c] = n THEN None ELSE home[c]]
    /\ held' = [c \in Sidebars |-> IF home[c] = n THEN NoCommand ELSE held[c]]
    /\ conn' = [c \in Sidebars |->
                  IF home[c] = n THEN [IdleConn EXCEPT !.again = cs[c].again] ELSE cs[c]]
    /\ Wake(Loops)

ServerKillsSession(c) ==
    /\ ReadsCommand(c, {"kill-session"})
    /\ LET names == Command(c).names
           n     == Head(names)
           rest  == IF Tail(names) = <<>> THEN Consumed(conn, c)
                    ELSE [conn EXCEPT ![c].up[1] = [type |-> "kill-session", names |-> Tail(names)]]
           done  == [rest EXCEPT ![c].again = TRUE]
       IN  IF n \notin LiveNames
           THEN /\ conn' = done
                /\ UNCHANGED <<live, attached, home, held, due, hooks>>
           ELSE /\ attached = n => Fallback(n) # None
                /\ SessionEnds(n, Fallback(n), done)
    /\ UNCHANGED <<windows, server, app, built, seen, budget>>

(* kill-windows: requested windows of the session, but never the active one. *)
KillWindows(session, ids) ==
    SelectSeq(windows[session], LAMBDA w : w.active \/ w.id \notin ids)

SelectedIn(ws, id) == [i \in DOMAIN ws |-> [ws[i] EXCEPT !.active = (ws[i].id = id)]]

ServerChangesWindows(c) ==
    /\ ReadsCommand(c, {"kill-windows", "switch-window"})
    /\ LET cmd == Command(c) IN
       \/ /\ cmd.type = "kill-windows"
          /\ windows' = [windows EXCEPT ![cmd.name] = KillWindows(cmd.name, cmd.windows)]
          /\ conn' = [Consumed(conn, c) EXCEPT ![c].again = TRUE]
          /\ UNCHANGED <<attached, hooks, due>>
       \/ /\ cmd.type = "switch-window"
          /\ conn' = Consumed(conn, c)
          /\ IF \E i \in DOMAIN windows[cmd.name] : windows[cmd.name][i].id = cmd.window
             THEN /\ windows' = [windows EXCEPT ![cmd.name] = SelectedIn(@, cmd.window)]
                  /\ Attach(cmd.name, {})
             ELSE UNCHANGED <<windows, attached, hooks, due>>
    /\ UNCHANGED <<live, home, server, app, held, built, seen, budget>>

(* Agents. The next snapshot lists the panes, so a killed one's row goes     *)
(* with it. Focusing one publishes when a row became seen (AgentTracker); no *)
(* arm takes dismiss-agent.                                                  *)
WithoutAgent(n, id) ==
    [i \in DOMAIN live |->
        IF live[i].name # n THEN live[i]
        ELSE [live[i] EXCEPT !.agents = SelectSeq(@, LAMBDA a : a.id # id)]]

ServerHandlesAgent(c) ==
    /\ ReadsCommand(c, {"kill-agent-pane", "focus-agent-pane", "dismiss-agent"})
    /\ LET cmd == Command(c) IN
       \/ /\ cmd.type = "kill-agent-pane"
          /\ live' = WithoutAgent(cmd.name, cmd.agent)
          /\ conn' = Consumed(conn, c)
          /\ Wake({"poll"})
       \/ /\ cmd.type = "focus-agent-pane"
          /\ \/ conn' = [Consumed(conn, c) EXCEPT ![c].again = TRUE]
             \/ conn' = Consumed(conn, c)
          /\ UNCHANGED <<live, due>>
       \/ /\ cmd.type = "dismiss-agent"
          /\ conn' = Consumed(conn, c)
          /\ UNCHANGED <<live, due>>
    /\ UNCHANGED <<attached, home, windows, server, app, held, built, hooks, seen,
                   budget>>

(* rename-session: tmux first, then the references, then the other clients. *)
Renamed(n, old, new) == IF n = old THEN new ELSE n

ServerRenamesSession(c) ==
    /\ ReadsCommand(c, {"rename"})
    /\ LET old == Command(c).name  new == Command(c).value IN
       IF old \notin LiveNames \/ new \in LiveNames
       THEN /\ conn' = [Consumed(conn, c) EXCEPT ![c].again = TRUE]
            /\ UNCHANGED <<live, attached, home, windows, due>>
       ELSE /\ live' = [i \in DOMAIN live |-> [live[i] EXCEPT !.name = Renamed(@, old, new)]]
            /\ attached' = Renamed(attached, old, new)
            /\ home' = [d \in Sidebars |->
                           IF d \in Alive THEN Renamed(home[d], old, new) ELSE None]
            /\ windows' = [windows EXCEPT ![new] = windows[old], ![old] = <<>>]
            /\ conn' = [Consumed(conn, c) EXCEPT ![c].renaming = <<old, new>>]
            /\ Wake({"poll"})
    /\ UNCHANGED <<server, app, held, built, hooks, seen, budget>>

ServerRenamesReferences(c) ==
    /\ conn[c].renaming # <<>>
    /\ LET old == conn[c].renaming[1]  new == conn[c].renaming[2] IN
       /\ server' = [server EXCEPT !.list = RenameInOrder(@, old, new)]
       /\ conn' = [conn EXCEPT ![c].renaming = <<>>, ![c].again = TRUE,
                       ![c].out = <<[type |-> "re-identify", old |-> old, new |-> new]>>]
    /\ UNCHANGED <<live, attached, home, windows, app, held, due, built, hooks,
                   seen, budget>>

(* quit: every client is told to exit, and does. *)
ServerQuits(c) ==
    /\ ReadsCommand(c, {"quit"})
    /\ home' = [d \in Sidebars |-> None]
    /\ held' = [d \in Sidebars |-> NoCommand]
    /\ conn' = [d \in Sidebars |-> IdleConn]
    /\ UNCHANGED <<live, attached, windows, server, app, due, built, hooks,
                   seen, budget>>

(* The snapshot that ends these commands. *)
ServerSnapshots(c) ==
    /\ conn[c].again /\ conn[c].out = <<>>
    /\ server' = Learn(server)
    /\ conn' = [conn EXCEPT ![c].again = FALSE, ![c].out = <<Snapshot(server)>>]
    /\ UNCHANGED <<live, attached, home, windows, app, held, due, built, hooks,
                   seen, budget>>

(* A broadcast: activations and renames go through at once, a snapshot     *)
(* waits for the frame and is replaced by a later one.                     *)
Forwarded(cn, m) ==
    IF m.type = "state" THEN [cn EXCEPT !.queue = Tail(@), !.pending = <<m>>]
    ELSE [cn EXCEPT !.queue = Tail(@), !.down = Append(@, m)]

ServerForwards(c) ==
    /\ Idle(c) /\ conn[c].queue # <<>>
    /\ conn' = [conn EXCEPT ![c] = Forwarded(@, Head(@.queue))]
    /\ UNCHANGED <<live, attached, home, windows, server, app, held, due, built,
                   hooks, seen, budget>>

ServerFlushes(c) ==
    /\ Idle(c) /\ conn[c].pending # <<>>
    /\ conn' = [conn EXCEPT ![c].down = @ \o conn[c].pending, ![c].pending = <<>>]
    /\ UNCHANGED <<live, attached, home, windows, server, app, held, due, built,
                   hooks, seen, budget>>

------------------------------------------------------------------------------
(* Background loops: coalesced refreshes, and the poll of tmux's state.      *)

TaskBuilds(t) ==
    /\ t \in due /\ built[t] = <<>>
    /\ due' = due \ {t}
    /\ built' = [built EXCEPT ![t] = <<Snapshot(server)>>]
    /\ server' = Learn(server)
    /\ UNCHANGED <<live, attached, home, windows, app, held, conn, hooks, seen, budget>>

TaskPublishes(t) ==
    /\ built[t] # <<>>
    /\ conn' = Broadcast(conn, built[t][1])
    /\ built' = [built EXCEPT ![t] = <<>>]
    /\ UNCHANGED <<live, attached, home, windows, server, app, held, due, hooks,
                   seen, budget>>

(* client-session-changed reaches the server: handle_http_hook answers with *)
(* an activation for everyone.                                              *)
HookArrives(i) ==
    /\ i \in DOMAIN hooks
    /\ conn' = Broadcast(conn, [type |-> "activate", name |-> hooks[i], source |-> None])
    /\ hooks' = RemoveAt(hooks, i)
    /\ UNCHANGED <<live, attached, home, windows, server, app, held, due, built,
                   seen, budget>>

------------------------------------------------------------------------------
(* tmux and the agents.                                                      *)

UserSwitches(n) ==
    /\ budget.switches > 0 /\ n \in LiveNames /\ n # attached
    /\ Attach(n, {})
    /\ budget' = [budget EXCEPT !.switches = @ - 1]
    /\ UNCHANGED <<live, home, windows, server, app, held, conn, built, seen>>

UserSelectsWindow(n, id) ==
    /\ budget.changes > 0
    /\ n \in LiveNames
    /\ \E i \in DOMAIN windows[n] : windows[n][i].id = id /\ ~windows[n][i].active
    /\ windows' = [windows EXCEPT ![n] = SelectedIn(@, id)]
    /\ budget' = [budget EXCEPT !.changes = @ - 1]
    /\ Wake({"poll"})
    /\ UNCHANGED <<live, attached, home, server, app, held, conn, built, hooks,
                   seen>>

SessionCloses(n) ==
    /\ budget.changes > 0
    /\ n \in LiveNames /\ n # attached
    /\ SessionEnds(n, None, conn)
    /\ budget' = [budget EXCEPT !.changes = @ - 1]
    /\ UNCHANGED <<windows, server, app, built, seen>>

(* An agent's report flips whether it is at work and asks for a refresh. *)
AgentReports(n) ==
    /\ budget.changes > 0
    /\ n \in LiveNames /\ SessionOf(n).agents # <<>>
    /\ live' = [i \in DOMAIN live |-> IF live[i].name # n THEN live[i]
                 ELSE [live[i] EXCEPT !.agents[1].active = ~@]]
    /\ budget' = [budget EXCEPT !.changes = @ - 1]
    /\ Wake({"refresher"})
    /\ UNCHANGED <<attached, home, windows, server, app, held, conn, built, hooks,
                   seen>>

Next ==
    \/ \E c \in Sidebars :
        \/ ClientStep(c)
        \/ ServerHandles(c)
        \/ ServerRefreshes(c)
        \/ ServerPublishes(c)
        \/ ServerIdentifies(c)
        \/ ServerListsWindows(c)
        \/ ServerAnnouncesSwitch(c)
        \/ ServerSwitches(c)
        \/ ServerKillsSession(c)
        \/ ServerChangesWindows(c)
        \/ ServerHandlesAgent(c)
        \/ ServerRenamesSession(c)
        \/ ServerRenamesReferences(c)
        \/ ServerQuits(c)
        \/ ServerSnapshots(c)
        \/ ServerForwards(c)
        \/ ServerFlushes(c)
    \/ \E t \in Tasks : TaskBuilds(t) \/ TaskPublishes(t)
    \/ \E i \in 1 .. MaxSwitches + MaxKeys : HookArrives(i)
    \/ \E n \in Names : UserSwitches(n) \/ SessionCloses(n) \/ AgentReports(n)
    \/ \E n \in Names, id \in Windows : UserSelectsWindow(n, id)

Spec == Init /\ [][Next]_vars

------------------------------------------------------------------------------
(* Properties.                                                               *)

FocusType == [kind : {"none", "session", "group"}, name : Names \cup Groups \cup {None}]

SettingsType ==
    [width : 1 .. MaxWidth, theme : Themes, scope : Scopes, height : 1 .. MaxHeight]

(* The values the variables take; names stay unique across live sessions    *)
(* and in the order, although sessions are renamed, closed and learnt again.*)
TypeOK ==
    /\ NamesOf(live) \in Seq(Names) /\ IsInjective(NamesOf(live))
    /\ attached \in Names \cup {None}
    /\ home \in [Sidebars -> Names \cup {None}]
    /\ DOMAIN windows = Names
    /\ server.list.order \in Seq(Names) /\ IsInjective(server.list.order)
    /\ server.list.hidden \subseteq Names /\ server.collapsed \subseteq Groups
    /\ server.filter \in Filters /\ server.settings \in SettingsType
    /\ server.revision \in Nat
    /\ \A c \in Sidebars :
        /\ app[c].focus \in FocusType /\ app[c].settings \in SettingsType
        /\ {app[c].pending, app[c].surrogate, app[c].local} \subseteq Names \cup {None}
        /\ app[c].panel \in {"sessions", "agents"} /\ app[c].agentIdx \in Nat
        /\ app[c].commands = <<>>
        /\ Len(conn[c].pending) \leq 1
    /\ due \subseteq Tasks
    /\ seen \in [Sidebars -> [current : Names \cup {None}, revision : Nat]]

(* Nothing is on its way: every command is handled and every broadcast read. *)
Quiet ==
    /\ \A c \in Sidebars :
        /\ Idle(c) /\ held[c] = NoCommand
        /\ conn[c].up = <<>> /\ conn[c].queue = <<>>
        /\ conn[c].pending = <<>> /\ conn[c].down = <<>>
    /\ due = {} /\ hooks = <<>>
    /\ \A t \in Tasks : built[t] = <<>>

(* Once everything has arrived, a sidebar's focus is on a row it displays,  *)
(* or on its own session where that one is not displayed: whatever ended,   *)
(* was hidden, renamed, collapsed or filtered away in the meantime.         *)
FocusIsDisplayed ==
    Quiet => \A c \in Alive :
        \/ FocusExists(app[c], app[c].focus)
        \/ app[c].focus = SessionFocus(app[c].local)
           /\ VisibleFocus(app[c], app[c].local) = NoFocus

(* A sidebar lets go of the switch it asked for: once everything has       *)
(* arrived, what is pending is a session it lists, and not the one it saw   *)
(* attached last, unless that is its own.                                   *)
SettledSwitchIsCleared ==
    Quiet => \A c \in Alive :
        app[c].pending # None =>
            /\ Known(app[c], app[c].pending)
            /\ seen[c].current = app[c].pending => app[c].pending = app[c].local

(* However changes of several sidebars cross on their way, no sidebar waits *)
(* for a confirmation in the end, and one that has read the server's last   *)
(* revision shows its settings: neither an acknowledgement of an earlier    *)
(* request nor an old snapshot that arrives late takes them back.  (A theme *)
(* is not applied under the picker.)                                        *)
SettingsSettle ==
    Quiet => \A c \in Alive :
        /\ \A t \in SettingTypes : app[c].intents[t] = <<>>
        /\ seen[c].revision = server.revision =>
             \A t \in SettingTypes \ {"theme"} : app[c].settings[t] = server.settings[t]

Rows(s) == DisplayedNames(FromState(Snapshot(s)))

(* Moving one session leaves the others as they were, in every sidebar.     *)
ReorderKeepsOthers ==
    [][\A c \in Sidebars :
        (/\ ReadsCommand(c, {"reorder"}) /\ conn'[c].up = Tail(conn[c].up)
         /\ server.collapsed = {})
        => /\ Without(Rows(server), {Command(c).name}) = Without(Rows(server'), {Command(c).name})
           /\ ToSet(Rows(server')) = ToSet(Rows(server))]_vars

=============================================================================
