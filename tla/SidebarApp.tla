----------------------------- MODULE SidebarApp -----------------------------
(***************************************************************************)
(* The state of one sidebar client: packages/sidebar-core-rs/src/app.rs,   *)
(* input.rs and session_display.rs.  An app is a record; every method is   *)
(* an operator from an app to an app.  Commands for the server collect in  *)
(* `commands`, which the event loop drains after each key.                 *)
(*                                                                         *)
(* Left out: colours and layout, the scroll offset, flashes and hovering,  *)
(* and the external programs a key may launch, none of which changes what  *)
(* is focused, confirmed or sent.  `my_session` and `current_session` are  *)
(* only ever set together and are one field, `local`.                      *)
(***************************************************************************)
EXTENDS Integers, FiniteSets, SequencesExt

CONSTANTS Names,        \* tmux session names
          Groups,       \* worktree directories
          Windows,      \* tmux window ids
          Themes,       \* a theme and whether the background is transparent
          MaxWidth,     \* widths are 1..MaxWidth
          MaxHeight,    \* detail panel heights are 1..MaxHeight
          None

ASSUME ValuesAssumption ==
    /\ None \notin Names \cup Groups \cup Windows \cup Themes
    /\ MaxWidth \in Nat \ {0}
    /\ MaxHeight \in Nat \ {0}

Filters == {"all", "active", "running"}
Scopes  == {"current", "all"}

NoFocus         == [kind |-> "none", name |-> None]
SessionFocus(n) == [kind |-> "session", name |-> n]
GroupFocus(g)   == [kind |-> "group", name |-> g]
NoModal         == [kind |-> "none"]

------------------------------------------------------------------------------
(* The displayed list.  A session is [name, group, agents]; an agent is      *)
(* [id, active, reachable]: running, tool-running or waiting; in a known     *)
(* pane or alive.                                                            *)

Passes(filter, session) ==
    CASE filter = "all"     -> TRUE
      [] filter = "active"  -> session.agents # <<>>
      [] filter = "running" -> \E i \in DOMAIN session.agents : session.agents[i].active

ShownOf(sessions, filter) == SelectSeq(sessions, LAMBDA s : Passes(filter, s))
Shown(app) == ShownOf(app.sessions, app.filter)

(* Worktrees of one directory form a group once two of them are shown. *)
Grouped(shown) ==
    {g \in Groups : Cardinality({i \in DOMAIN shown : shown[i].group = g}) > 1}

NamesOf(sessions) == [i \in DOMAIN sessions |-> sessions[i].name]

(* session_display_entries: a group stands where its first member is, and  *)
(* its members follow it unless it is collapsed.                           *)
EntriesOf(sessions, filter, collapsed) ==
    LET shown      == ShownOf(sessions, filter)
        grouped    == Grouped(shown)
        members(g) == SelectSeq(shown, LAMBDA s : s.group = g)
        rows(g)    == [i \in DOMAIN members(g) |-> SessionFocus(members(g)[i].name)]
        block(i)   == LET s == shown[i] IN
            IF s.group \notin grouped THEN <<SessionFocus(s.name)>>
            ELSE IF \E j \in 1 .. i - 1 : shown[j].group = s.group THEN <<>>
            ELSE <<GroupFocus(s.group)>>
                   \o (IF s.group \in collapsed THEN <<>> ELSE rows(s.group))
    IN  FlattenSeq([i \in DOMAIN shown |-> block(i)])

Entries(app) == EntriesOf(app.sessions, app.filter, app.collapsed)

DisplayedNames(app) ==
    LET rows == SelectSeq(Entries(app), LAMBDA e : e.kind = "session")
    IN  [i \in DOMAIN rows |-> rows[i].name]

PositionOf(seq, x) == SelectInSeq(seq, LAMBDA e : e = x)

Known(app, n) == \E i \in DOMAIN app.sessions : app.sessions[i].name = n
SessionNamed(sessions, n) == sessions[SelectInSeq(sessions, LAMBDA s : s.name = n)]
DataOf(app, n) == SessionNamed(app.sessions, n)

(* worktree_group_session_names: members the filter hides count as well. *)
GroupNames(app, g) == NamesOf(SelectSeq(app.sessions, LAMBDA s : s.group = g))

FocusExists(app, f) == Contains(Entries(app), f)

FirstEntry(app) == IF Entries(app) = <<>> THEN NoFocus ELSE Head(Entries(app))

(* The row that stands for a session: its own or, when that is collapsed   *)
(* away, its group's.                                                      *)
VisibleFocus(app, n) ==
    IF FocusExists(app, SessionFocus(n)) THEN SessionFocus(n)
    ELSE IF Known(app, n) /\ DataOf(app, n).group # None
                          /\ FocusExists(app, GroupFocus(DataOf(app, n).group))
         THEN GroupFocus(DataOf(app, n).group)
         ELSE NoFocus

FocusFor(app, n) ==
    IF VisibleFocus(app, n) = NoFocus THEN SessionFocus(n) ELSE VisibleFocus(app, n)

------------------------------------------------------------------------------
(* Reordering, computed on a snapshot; <<>> when there is nothing to do.     *)

MembersAt(app, names, g) ==
    {i \in DOMAIN names : DataOf(app, names[i]).group = g}

ReorderedSessionNames_Replaces(app, name, delta) ==
    LET names == DisplayedNames(app)
        at    == PositionOf(names, name)
    IN  IF at = 0 \/ at + delta \notin DOMAIN names THEN <<>>
        ELSE [names EXCEPT ![at + delta] = name]

(* Swap with a session; jump over a group, as a block, in either direction. *)
ReorderedSessionNames(app, name, delta) ==
    LET entries == Entries(app)
        names   == DisplayedNames(app)
        index   == PositionOf(entries, SessionFocus(name))
        at      == PositionOf(names, name)
        target  == entries[index + delta]
        rest    == RemoveAt(names, at)
        group   == IF target.kind = "group" THEN target.name
                   ELSE DataOf(app, target.name).group
        indented == target.kind = "session" /\ group \in Grouped(Shown(app))
        first(seq) == CHOOSE i \in MembersAt(app, seq, group) :
                          \A j \in MembersAt(app, seq, group) : i <= j
        last(seq)  == CHOOSE i \in MembersAt(app, seq, group) :
                          \A j \in MembersAt(app, seq, group) : i >= j
    IN  IF index = 0 \/ index + delta \notin DOMAIN entries THEN <<>>
        ELSE IF indented /\ delta < 0 THEN InsertAt(rest, first(names), name)
        ELSE IF target.kind = "session"
             THEN [names EXCEPT ![at] = target.name,
                                ![PositionOf(names, target.name)] = name]
        ELSE IF MembersAt(app, rest, group) = {} THEN <<>>
        ELSE InsertAt(rest, IF delta < 0 THEN first(rest) ELSE last(rest) + 1, name)

(* A group moves over one block: another group or a session outside groups. *)
ReorderedGroupNames(app, key, delta) ==
    LET entries  == Entries(app)
        grouped  == Grouped(Shown(app))
        heads    == SelectSeq(entries, LAMBDA e :
                        e.kind = "group" \/ DataOf(app, e.name).group \notin grouped)
        at       == PositionOf(heads, GroupFocus(key))
        clamped  == IF at + delta < 1 THEN 1
                    ELSE IF at + delta > Len(heads) THEN Len(heads) ELSE at + delta
        moved    == InsertAt(RemoveAt(heads, at), clamped, GroupFocus(key))
        block(e) == IF e.kind = "group" THEN GroupNames(app, e.name) ELSE <<e.name>>
    IN  IF at = 0 \/ clamped = at THEN <<>>
        ELSE FlattenSeq([i \in DOMAIN moved |-> block(moved[i])])

------------------------------------------------------------------------------
(* Focus.                                                                    *)

SetFocus(app, f) ==
    [app EXCEPT !.focus = f, !.surrogate = None, !.panel = "sessions", !.agentIdx = 0]

(* A group focused in place of a collapsed session remembers the session. *)
SetFocusForSession(app, n, f) ==
    [SetFocus(app, f) EXCEPT !.surrogate = IF f.kind = "group" THEN n ELSE None]

SetFocusIfChanged(app, n, f) ==
    IF app.focus # f \/ app.surrogate # n THEN SetFocusForSession(app, n, f) ELSE app

ConfirmLocalSession(app, n) ==
    LET known == [app EXCEPT !.local = n,
                             !.lastActivated = IF @ = None THEN n ELSE @,
                             !.pending = IF @ = n THEN None ELSE @]
    IN  SetFocusIfChanged(known, n, FocusFor(known, n))

RehomeToLocal(app) ==
    IF app.local # None THEN SetFocusIfChanged(app, app.local, FocusFor(app, app.local))
    ELSE IF FocusExists(app, app.focus) THEN app
    ELSE [app EXCEPT !.focus = FirstEntry(app)]

RehomeMissingFocus_KeepsRow(app) == app

RehomeMissingFocus(app) ==
    IF app.pending # None /\ VisibleFocus(app, app.pending) # NoFocus
    THEN SetFocusIfChanged(app, app.pending, VisibleFocus(app, app.pending))
    ELSE RehomeToLocal(app)

RehomeExpandedSurrogate(app) ==
    IF app.surrogate # None /\ VisibleFocus(app, app.surrogate).kind = "session"
    THEN SetFocusForSession(app, app.surrogate, SessionFocus(app.surrogate))
    ELSE app

ClearMissingPending(app) ==
    IF app.pending # None /\ ~Known(app, app.pending)
    THEN [app EXCEPT !.pending = None] ELSE app

ClearBackgroundPending_Never(app, current) == app

(* The snapshot after a switch releases the sidebar the switch left behind. *)
ClearBackgroundPending(app, current) ==
    IF current = None \/ app.pending # current \/ app.local = current THEN app
    ELSE RehomeToLocal([app EXCEPT !.pending = None])

------------------------------------------------------------------------------
(* Agents of the detail panel: those of the focused session, or of all.      *)

PanelAgents(app) ==
    IF app.settings["scope"] = "all"
    THEN FlattenSeq([i \in DOMAIN app.sessions |->
            [j \in DOMAIN app.sessions[i].agents |->
                <<app.sessions[i].name, app.sessions[i].agents[j]>>]])
    ELSE IF app.focus.kind = "session" /\ Known(app, app.focus.name)
    THEN LET s == DataOf(app, app.focus.name)
         IN  [j \in DOMAIN s.agents |-> <<s.name, s.agents[j]>>]
    ELSE <<>>

ClampAgent(app) ==
    LET n == Len(PanelAgents(app)) IN
    [app EXCEPT !.agentIdx = IF n = 0 THEN 0 ELSE IF @ > n - 1 THEN n - 1 ELSE @,
                !.panel    = IF n = 0 THEN "sessions" ELSE @]

FocusAgentsPanel(app) ==
    IF PanelAgents(app) = <<>> THEN app ELSE [ClampAgent(app) EXCEPT !.panel = "agents"]

MoveAgentFocus(app, delta) ==
    LET i == app.agentIdx + delta IN
    IF PanelAgents(app) = <<>> THEN app
    ELSE IF i < 0 THEN [app EXCEPT !.agentIdx = 0]
    ELSE ClampAgent([app EXCEPT !.agentIdx = i])

FocusedAgent(app) == app.agentIdx + 1 \in DOMAIN PanelAgents(app)
AgentAtFocus(app) == PanelAgents(app)[app.agentIdx + 1]

------------------------------------------------------------------------------
(* Settings the client shows before the server confirms them.  An intent is  *)
(* <<request id, value>>, or <<>>.                                           *)

Send(app, command) == [app EXCEPT !.commands = Append(@, command)]

SettingCommand(type, app, value) ==
    [type |-> type, value |-> value, id |-> app.nextRequest]

Request(app, type, value) ==
    Send([app EXCEPT !.intents[type] = <<app.nextRequest, value>>,
                     !.nextRequest = @ + 1],
         SettingCommand(type, app, value))

(* The server's value of a setting, unless the client waits for its own. *)
Settle(app, type, value) ==
    IF app.intents[type] = <<>> THEN [app EXCEPT !.settings[type] = value]
    ELSE IF app.intents[type][2] = value
         THEN [app EXCEPT !.settings[type] = value, !.intents[type] = <<>>]
         ELSE app

ApplyServerWidth(app, w) ==
    LET next == Settle(app, "width", w) IN
    IF next.modal.kind = "width" /\ next.settings["width"] = w
    THEN [next EXCEPT !.modal.draft = w] ELSE next

(* The picker previews themes in `theme`: nothing is applied under it. *)
ApplyServerTheme(app, t) ==
    IF app.modal.kind = "theme" THEN app ELSE Settle(app, "theme", t)

ApplyServerScope(app, s) ==
    IF app.intents["scope"] = <<>> THEN ClampAgent(Settle(app, "scope", s))
    ELSE Settle(app, "scope", s)

ApplyServerSettings_AnyRevision(app, st) ==
    Settle(ApplyServerScope(ApplyServerTheme(ApplyServerWidth(
        [app EXCEPT !.revision = st.revision],
        st.settings["width"]), st.settings["theme"]), st.settings["scope"]),
        "height", st.settings["height"])

(* A snapshot older than the last acknowledged change changes no setting. *)
ApplyServerSettings(app, st) ==
    IF st.revision < app.revision THEN app
    ELSE Settle(ApplyServerScope(ApplyServerTheme(ApplyServerWidth(
            [app EXCEPT !.revision = st.revision],
            st.settings["width"]), st.settings["theme"]), st.settings["scope"]),
            "height", st.settings["height"])

ClearAcknowledgedIntent(intents, id) ==
    [t \in DOMAIN intents |->
        IF intents[t] # <<>> /\ intents[t][1] = id THEN <<>> ELSE intents[t]]

ToggleScope(app) ==
    LET scope == IF app.settings["scope"] = "all" THEN "current" ELSE "all"
    IN  ClampAgent(Request([app EXCEPT !.settings["scope"] = scope], "scope", scope))

SetDetailHeight(app, h) ==
    LET height == IF h < 1 THEN 1 ELSE IF h > MaxHeight THEN MaxHeight ELSE h
    IN  IF height = app.settings["height"] THEN app
        ELSE Request([app EXCEPT !.settings["height"] = height], "height", height)

------------------------------------------------------------------------------
(* apply_server_message.                                                     *)

ApplyState(app, st) ==
    LET fresh == [ApplyServerSettings([app EXCEPT !.sessions = st.sessions], st)
                      EXCEPT !.filter = st.filter, !.collapsed = st.collapsed]
        shown == RehomeExpandedSurrogate(ClearMissingPending(fresh))
        homed == IF FocusExists(shown, app.focus) THEN shown
                 ELSE RehomeMissingFocus(shown)
    IN  ClearBackgroundPending(homed, st.current)

(* A sidebar takes an activation of its own session from another pane; a    *)
(* repeated one counts only when some pane asked for it.                    *)
ApplyActivation(app, name, source) ==
    LET told == [app EXCEPT !.lastActivated = name] IN
    IF /\ ~(app.pane # None /\ source = app.pane)
       /\ app.local = name
       /\ source # None \/ app.lastActivated # name
    THEN ConfirmLocalSession(told, name) ELSE told

(* A fresh list of windows: the active one selected, nothing marked. *)
ApplyWindowList_KeepsMarks(app, session, windows) ==
    IF app.modal.kind # "windows" \/ app.modal.session # session THEN app
    ELSE [app EXCEPT !.modal.windows = windows]

ApplyWindowList(app, session, windows) ==
    IF app.modal.kind # "windows" \/ app.modal.session # session THEN app
    ELSE [app EXCEPT !.modal.windows    = windows,
                     !.modal.selected   =
                         IF \E i \in DOMAIN windows : windows[i].active
                         THEN SelectInSeq(windows, LAMBDA w : w.active) ELSE 1,
                     !.modal.marked     = {},
                     !.modal.confirming = FALSE]

ApplyServerMessage(app, m) ==
    CASE m.type = "state"         -> ApplyState(app, m)
      [] m.type = "your-session"  -> ConfirmLocalSession(app, m.name)
      [] m.type = "activate"      -> ApplyActivation(app, m.name, m.source)
      [] m.type = "applied"       ->
             [app EXCEPT !.revision = IF m.revision > @ THEN m.revision ELSE @,
                         !.intents  = ClearAcknowledgedIntent(@, m.id)]
      [] m.type = "windows"       -> ApplyWindowList(app, m.session, m.windows)
      [] m.type = "re-identify"   -> app

FromState(st) ==
    LET app == [sessions |-> st.sessions, focus |-> NoFocus, local |-> None,
                pane |-> None, identity |-> None, filter |-> st.filter, panel |-> "sessions",
                agentIdx |-> 0, modal |-> NoModal, pending |-> None,
                surrogate |-> None, collapsed |-> st.collapsed,
                lastActivated |-> None, settings |-> st.settings,
                intents |-> [t \in DOMAIN st.settings |-> <<>>],
                nextRequest |-> 1, revision |-> st.revision,
                quitting |-> FALSE, commands |-> <<>>]
    IN  [app EXCEPT !.focus = FirstEntry(app)]

SetPaneIdentity(app, pane, n) ==
    [ConfirmLocalSession(app, n) EXCEPT !.pane = pane, !.identity = n]

(* identify_pane: the client's own confirmation, and the server's to ask for. *)
IdentifyPane(app, n) ==
    Send([ConfirmLocalSession(app, n) EXCEPT !.identity = n],
         [type |-> "identify-pane", name |-> n])

------------------------------------------------------------------------------
(* Keys and clicks outside modals.                                           *)

RequestSwitch(app, n, preserve) ==
    LET asked == [app EXCEPT !.pending = n]
        homed == IF VisibleFocus(asked, n) # NoFocus
                 THEN SetFocusIfChanged(asked, n, VisibleFocus(asked, n))
                 ELSE IF preserve THEN asked ELSE RehomeToLocal(asked)
    IN  Send(homed, [type |-> "switch-session", name |-> n])

LocalOrFocused(app) ==
    IF app.local # None THEN app.local
    ELSE IF app.focus.kind = "session" THEN app.focus.name ELSE None

Clamped(i, n) == IF i < 1 THEN 1 ELSE IF i > n THEN n ELSE i

(* Tab moves from the local session, never from the focused row. *)
SwitchToRelative(app, delta) ==
    LET names == DisplayedNames(app)
        found == PositionOf(names, LocalOrFocused(app))
        at    == IF found = 0 THEN 1 ELSE found
        next  == Clamped(at + delta, Len(names))
    IN  IF names = <<>> THEN app
        ELSE IF next = at THEN RehomeToLocal(app)
        ELSE RequestSwitch(app, names[next], FALSE)

MoveFocus(app, delta) ==
    LET rows  == Entries(app)
        local == IF app.local = None THEN 0 ELSE PositionOf(rows, FocusFor(app, app.local))
        own   == PositionOf(rows, app.focus)
        at    == IF own # 0 THEN own ELSE IF local # 0 THEN local ELSE 1
        next  == Clamped(at + delta, Len(rows))
    IN  IF next \notin 1 .. Len(rows) \/ next = at THEN app ELSE SetFocus(app, rows[next])

FocusAgentPane(app, session, agent) ==
    Send(Send(app, [type |-> "switch-session", name |-> session]),
         [type |-> "focus-agent-pane", name |-> session, agent |-> agent.id])

ActivateFocusedAgent(app) ==
    IF FocusedAgent(app)
    THEN FocusAgentPane(app, AgentAtFocus(app)[1], AgentAtFocus(app)[2]) ELSE app

ClickGroup(app, g) ==
    Send(SetFocus(app, GroupFocus(g)), [type |-> "toggle-group", name |-> g])

ActivateFocusedItem(app) ==
    CASE app.panel = "agents"       -> ActivateFocusedAgent(app)
      [] app.panel # "agents" /\ app.focus.kind = "session" ->
             RequestSwitch(app, app.focus.name, TRUE)
      [] app.panel # "agents" /\ app.focus.kind = "group" -> ClickGroup(app, app.focus.name)
      [] OTHER                      -> app

DismissFocusedAgent(app) ==
    LET n == Len(PanelAgents(app)) IN
    IF ~FocusedAgent(app) THEN app
    ELSE [Send(app, [type |-> "dismiss-agent", name |-> AgentAtFocus(app)[1],
                     agent |-> AgentAtFocus(app)[2].id])
             EXCEPT !.agentIdx = IF n > 1 /\ @ >= n - 1 THEN n - 2 ELSE @,
                    !.panel    = IF n <= 1 THEN "sessions" ELSE @]

OpenKillConfirm(app) ==
    IF app.focus.kind = "none" \/ (app.focus.kind = "group" /\ GroupNames(app, app.focus.name) = <<>>)
    THEN app ELSE [app EXCEPT !.modal = [kind |-> "kill", target |-> app.focus]]

(* x kills the agent the panel points at; without one it asks about the    *)
(* session.                                                                *)
KillKey(app) ==
    IF /\ app.panel = "agents" /\ FocusedAgent(app)
       /\ AgentAtFocus(app)[2].reachable
    THEN Send(app, [type |-> "kill-agent-pane", name |-> AgentAtFocus(app)[1],
                    agent |-> AgentAtFocus(app)[2].id])
    ELSE OpenKillConfirm(app)

CycleFilter(app) ==
    LET next == CASE app.filter = "all" -> "active" [] app.filter = "active" -> "running"
                  [] app.filter = "running" -> "all"
    IN  Send([app EXCEPT !.filter = next], [type |-> "set-filter", value |-> next])

Reorder(app, delta) ==
    CASE app.focus.kind = "session" ->
             Send(app, [type |-> "reorder", name |-> app.focus.name, delta |-> delta])
      [] app.focus.kind = "group" ->
             Send(app, [type |-> "reorder-group", name |-> app.focus.name, delta |-> delta])
      [] OTHER -> app

(* Right resizes the panel unless the focused session has agents to go to. *)
RightKey(app) ==
    IF app.panel # "sessions" THEN app
    ELSE IF /\ app.focus.kind = "session" /\ Known(app, app.focus.name)
            /\ DataOf(app, app.focus.name).agents # <<>>
         THEN FocusAgentsPanel(app)
         ELSE SetDetailHeight(app, app.settings["height"] + 1)

LeftKey(app) ==
    IF app.panel = "sessions" THEN SetDetailHeight(app, app.settings["height"] - 1)
    ELSE [app EXCEPT !.panel = "sessions"]

FocusedSessionModal(app, modal) ==
    IF app.focus.kind = "session" THEN [app EXCEPT !.modal = modal] ELSE app

OpenWindowManager(app) ==
    IF app.focus.kind # "session" THEN app
    ELSE Send([app EXCEPT !.modal =
                  [kind |-> "windows", session |-> app.focus.name, windows |-> <<>>,
                   selected |-> 1, marked |-> {}, confirming |-> FALSE]],
              [type |-> "request-windows", name |-> app.focus.name])

HideKey(app) ==
    IF app.panel = "agents" THEN DismissFocusedAgent(app)
    ELSE IF app.focus.kind = "session"
         THEN Send(app, [type |-> "hide", name |-> app.focus.name]) ELSE app

DigitKey(app, i) ==
    IF i \in DOMAIN DisplayedNames(app)
    THEN RequestSwitch(app, DisplayedNames(app)[i], FALSE) ELSE app

PlainKey(app, k) ==
    CASE k.key = "digit"   -> DigitKey(app, k.arg)
      [] k.key = "click"   -> IF k.arg.kind = "session" THEN RequestSwitch(app, k.arg.name, FALSE)
                              ELSE ClickGroup(app, k.arg.name)
      [] k.key = "click-agent" ->
             IF k.arg >= Len(PanelAgents(app)) THEN app
             ELSE ActivateFocusedAgent([app EXCEPT !.panel = "agents", !.agentIdx = k.arg])
      [] k.key = "drag"    -> SetDetailHeight(app, k.arg)
      [] k.key = "tab"     -> SwitchToRelative(app, k.arg)
      [] k.key = "enter"   -> ActivateFocusedItem(app)
      [] k.key = "move"    -> IF app.panel = "agents" THEN MoveAgentFocus(app, k.arg)
                              ELSE MoveFocus(app, k.arg)
      [] k.key = "alt"     -> Reorder(app, k.arg)
      [] k.key = "left"    -> LeftKey(app)
      [] k.key = "right"   -> RightKey(app)
      [] k.key = "ctrl-j"  -> FocusAgentsPanel(app)
      [] k.key \in {"ctrl-k", "esc"} -> [app EXCEPT !.panel = "sessions"]
      [] k.key = "q"       -> [app EXCEPT !.modal = [kind |-> "quit"]]
      [] k.key = "R"       -> Send(app, [type |-> "refresh"])
      [] k.key = "r"       -> FocusedSessionModal(app,
                                [kind |-> "rename", name |-> app.focus.name, draft |-> app.focus.name])
      [] k.key = "u"       -> Send(app, [type |-> "show-all"])
      [] k.key = "d"       -> HideKey(app)
      [] k.key = "x"       -> KillKey(app)
      [] k.key = "t"       -> [app EXCEPT !.modal = [kind |-> "theme", original |-> app.settings["theme"]]]
      [] k.key = "w"       -> [app EXCEPT !.modal = [kind |-> "width", draft |-> app.settings["width"]]]
      [] k.key = "W"       -> OpenWindowManager(app)
      [] k.key = "f"       -> CycleFilter(app)
      [] k.key = "a"       -> ToggleScope(app)
      [] OTHER             -> app

------------------------------------------------------------------------------
(* Keys in a modal, which owns all input.                                    *)

Close(app) == [app EXCEPT !.modal = NoModal]

RenameKey(app, k) ==
    CASE k.key = "type"  -> [app EXCEPT !.modal.draft = k.arg]
      [] k.key = "esc"   -> Close(app)
      [] k.key = "enter" ->
             IF app.modal.draft = app.modal.name THEN Close(app)
             ELSE Send(Close(app), [type |-> "rename", name |-> app.modal.name,
                                    value |-> app.modal.draft])
      [] OTHER           -> app

(* Moving in the list previews the theme; Esc returns to the one before. *)
ThemeKey(app, k) ==
    CASE k.key = "preview" -> [app EXCEPT !.settings["theme"] = k.arg]
      [] k.key = "esc"     -> Close([app EXCEPT !.settings["theme"] = app.modal.original])
      [] k.key = "enter"   -> Close(Request(app, "theme", app.settings["theme"]))
      [] OTHER             -> app

(* Every step of the slider is a request; so is closing it, either way. *)
WidthKey(app, k) ==
    LET next == Clamped(app.modal.draft + k.arg, MaxWidth) IN
    CASE k.key = "slide" ->
             IF next = app.modal.draft THEN app
             ELSE Request([app EXCEPT !.modal.draft = next, !.settings["width"] = next],
                          "width", next)
      [] k.key \in {"enter", "esc"} -> Close(Request(app, "width", app.modal.draft))
      [] OTHER           -> app

KillTargets(app, target) ==
    IF target.kind = "session" THEN <<target.name>> ELSE GroupNames(app, target.name)

(* One command per session, sent together: the server takes them one by one. *)
KillConfirmKey(app, k) ==
    LET targets == KillTargets(app, app.modal.target) IN
    IF k.key = "y" /\ targets # <<>>
    THEN Send(Close(app), [type |-> "kill-session", names |-> targets]) ELSE Close(app)

QuitConfirmKey(app, k) ==
    IF k.key = "y" THEN [Send(Close(app), [type |-> "quit"]) EXCEPT !.quitting = TRUE]
    ELSE Close(app)

(* Only a window the list shows as inactive can be marked, and none while  *)
(* the user is asked to confirm.                                           *)
SetMark(app, mark) ==
    LET m == app.modal IN
    IF m.confirming \/ m.selected \notin DOMAIN m.windows THEN app
    ELSE [app EXCEPT !.modal.marked =
              IF mark /\ ~m.windows[m.selected].active
              THEN @ \cup {m.windows[m.selected].id}
              ELSE @ \ {m.windows[m.selected].id}]

WindowsEnter(app) ==
    LET m == app.modal IN
    IF m.marked = {}
    THEN IF m.selected \notin DOMAIN m.windows THEN app
         ELSE Close(Send(app, [type |-> "switch-window", name |-> m.session,
                               window |-> m.windows[m.selected].id]))
    ELSE IF ~m.confirming THEN [app EXCEPT !.modal.confirming = TRUE]
    ELSE Close(Send(app, [type |-> "kill-windows", name |-> m.session,
                          windows |-> m.marked]))

WindowsKey(app, k) ==
    LET m == app.modal IN
    CASE k.key = "move"  ->
             IF m.confirming \/ m.windows = <<>> THEN app
             ELSE [app EXCEPT !.modal.selected = Clamped(@ + k.arg, Len(m.windows))]
      [] k.key = "right" -> SetMark(app, TRUE)
      [] k.key = "left"  -> SetMark(app, FALSE)
      [] k.key = "enter" -> WindowsEnter(app)
      [] k.key = "esc"   -> IF m.confirming THEN [app EXCEPT !.modal.confirming = FALSE]
                            ELSE Close(app)
      [] OTHER           -> app

ModalKey(app, k) ==
    CASE app.modal.kind = "rename"  -> RenameKey(app, k)
      [] app.modal.kind = "theme"   -> ThemeKey(app, k)
      [] app.modal.kind = "width"   -> WidthKey(app, k)
      [] app.modal.kind = "kill"    -> KillConfirmKey(app, k)
      [] app.modal.kind = "quit"    -> QuitConfirmKey(app, k)
      [] app.modal.kind = "windows" -> WindowsKey(app, k)

(* apply_ui_key, and clicks: a click leaves the editing modals alone and    *)
(* cancels the confirmations, as any key but y does.                        *)
ApplyKey(app, k) ==
    IF app.modal = NoModal THEN PlainKey(app, k)
    ELSE IF k.key \in {"click", "click-agent"}
         THEN IF app.modal.kind \in {"kill", "quit"} THEN Close(app) ELSE app
    ELSE IF k.key = "drag" THEN app
    ELSE ModalKey(app, k)
=============================================================================
