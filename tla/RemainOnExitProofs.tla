------------------------ MODULE RemainOnExitProofs ------------------------
(***************************************************************************)
(* What holds of RemainOnExit for every set of panes and every setting: no *)
(* interleaving of the server and the hooks loses the user's own value     *)
(* once it is saved, or saves anything else, and none of them removes a    *)
(* content pane that was listed alive or that the user's value keeps.      *)
(*                                                                         *)
(* The second rests on the first: a process decides by the saved value,    *)
(* which is the user's own or none at all, and a pane found dead stays     *)
(* dead until it goes, so what was marked for removal still may go.        *)
(***************************************************************************)
EXTENDS RemainOnExit, TLAPS

(* Where a process will set an option from what it read before.             *)
Holding == {"force", "save", "restore", "unmark"}

(* What a process read and holds is the user's own value; the scripts of    *)
(* the hooks go on without a value, the others do not.                      *)
Captured(a) ==
    /\ proc[a].pc \in Holding => proc[a].previous = Saving(own)
    /\ proc[a].pc = "listed" => proc[a].previous \in {NoValue, Saving(own)}
    /\ proc[a].pc = "listed" /\ a # "died" => proc[a].previous # NoValue
    /\ proc[a].then \notin Holding \cup {"listed"}

IInv == TypeOK /\ SavedIsOwn /\ \A a \in Processes : Captured(a)

LEMMA Becoming ==
    ASSUME TypeOK, NEW a \in Processes, NEW state \in States, Become(a, state)
    PROVE  /\ proc' \in [Processes -> States]
           /\ proc'[a] = state
           /\ \A b \in Processes : b # a => proc'[b] = proc[b]
BY DEF Become, TypeOK

LEMMA IdleIsAState == Idle \in States
BY DEF Idle, States, Steps, Previous, NoValue

(* Saving and restoring are inverse, whatever the user has set.             *)
LEMMA SavingRestores ==
    ASSUME NEW value \in Settings \cup {NoValue}
    PROVE  /\ Saving(value) \in Previous \ {NoValue}
           /\ Restored(Saving(value)) = value
BY DEF Saving, Restored, Previous, Settings, NoValue

LEMMA OwnIsSetting ==
    ASSUME TypeOK PROVE own \in Settings \cup {NoValue} /\ global \in Settings
BY PanesAssumption DEF TypeOK

LEMMA LeavingKeepsType ==
    ASSUME TypeOK, NEW ps, Leave(ps)
    PROVE  pane' \in [Panes -> {"unborn", "alive", "gone"} \cup Statuses]
BY DEF TypeOK, Leave

(* A process that takes a state that captures the user's value, with the    *)
(* options as they should be, keeps the invariant.                          *)
LEMMA OneProcessMoves ==
    ASSUME IInv, NEW a \in Processes, NEW state \in States, Become(a, state),
           UNCHANGED <<user>>,
           state.pc \in Holding => state.previous = Saving(own),
           state.pc = "listed" => state.previous \in {NoValue, Saving(own)},
           state.pc = "listed" /\ a # "died" => state.previous # NoValue,
           state.then \notin Holding \cup {"listed"}
    PROVE  \A b \in Processes : Captured(b)'
<1>1. /\ proc'[a] = state
      /\ \A b \in Processes : b # a => proc'[b] = proc[b]
  BY Becoming DEF IInv
<1>2. own' = own /\ global' = global
  BY DEF user
<1>3. Captured(a)'
  BY <1>1, <1>2 DEF Captured, Saving, NoValue
<1>4. ASSUME NEW b \in Processes, b # a PROVE Captured(b)'
  <2>1. Captured(b) /\ proc'[b] = proc[b]
    BY <1>1, <1>4 DEF IInv
  <2>2. QED
    BY <2>1, <1>2 DEF Captured, Saving, NoValue
<1>5. QED
  BY <1>3, <1>4

LEMMA Returning ==
    ASSUME IInv, NEW a \in Processes, Return(a), UNCHANGED user
    PROVE  proc' \in [Processes -> States] /\ \A b \in Processes : Captured(b)'
<1> DEFINE state == [Idle EXCEPT !.pc = proc[a].then]
<1>1. proc[a] \in States /\ Captured(a)
  BY DEF IInv, TypeOK
<1>2. state \in States /\ state.pc = proc[a].then /\ state.then = "idle"
  BY <1>1, IdleIsAState DEF Idle, States, Steps
<1>3. state.pc \notin Holding \cup {"listed"} /\ state.then \notin Holding \cup {"listed"}
  BY <1>1, <1>2 DEF Captured, Holding
<1>4. Become(a, state)
  BY DEF Return
<1> HIDE DEF state
<1>5. \A b \in Processes : Captured(b)'
  BY <1>2, <1>3, <1>4, OneProcessMoves
<1>6. QED
  BY <1>2, <1>4, <1>5, Becoming DEF IInv

(* The same for a process that takes another state.                         *)
LEMMA Moving ==
    ASSUME IInv, NEW a \in Processes, NEW state \in States, Become(a, state), UNCHANGED user,
           \/ state.pc \notin Holding \cup {"listed"}
           \/ state.previous = Saving(own),
           state.then \notin Holding \cup {"listed"}
    PROVE  proc' \in [Processes -> States] /\ \A b \in Processes : Captured(b)'
<1>1. Saving(own) # NoValue
  BY OwnIsSetting, SavingRestores DEF IInv
<1>2. \A b \in Processes : Captured(b)'
  BY <1>1, OneProcessMoves
<1>3. QED
  BY <1>2, Becoming DEF IInv

(* What a process that acts has been told.                                  *)
LEMMA Acting ==
    ASSUME IInv, NEW a \in Processes
    PROVE  /\ proc[a] \in States /\ Captured(a) /\ TypeOK /\ SavedIsOwn
           /\ own \in Settings \cup {NoValue}
BY OwnIsSetting DEF IInv, TypeOK

LEMMA EnsureReadsStep ==
    ASSUME IInv, NEW a \in Processes, EnsureReads(a), events' = events PROVE IInv'
<1>1. /\ proc[a] \in States /\ Captured(a) /\ TypeOK /\ SavedIsOwn
      /\ own \in Settings \cup {NoValue}
  BY Acting
<1>2. proc' \in [Processes -> States] /\ \A b \in Processes : Captured(b)'
  <2>1. CASE Effective(option) = "on"
    BY <2>1, Returning DEF EnsureReads
  <2>2. CASE Effective(option) # "on"
    <3> DEFINE state == [proc[a] EXCEPT !.pc = "force", !.previous = Saving(option)]
    <3>1. option = own
      BY <1>1, <2>2 DEF SavedIsOwn, Effective, NoValue
    <3>2. Saving(own) \in Previous
      BY <1>1, SavingRestores
    <3>3. /\ state \in States /\ state.pc = "force" /\ state.previous = Saving(own)
          /\ state.then = proc[a].then
      BY <1>1, <3>1, <3>2 DEF States, Steps
    <3>4. Become(a, state) /\ UNCHANGED user
      BY <2>2 DEF EnsureReads
    <3> HIDE DEF state
    <3>5. QED
      BY <1>1, <3>3, <3>4, Moving DEF Captured
  <2>3. QED
    BY <2>1, <2>2
<1>3. QED
  BY <1>1, <1>2 DEF EnsureReads, TypeOK, SavedIsOwn, IInv, user, life

LEMMA EnsureForcesStep ==
    ASSUME IInv, NEW a \in Processes, EnsureForces(a), events' = events PROVE IInv'
<1> DEFINE state == [proc[a] EXCEPT !.pc = "save"]
<1>1. /\ proc[a] \in States /\ Captured(a) /\ TypeOK /\ SavedIsOwn
      /\ own \in Settings \cup {NoValue}
  BY Acting
<1>2. /\ state \in States /\ state.then = proc[a].then
      /\ state.previous = Saving(own)
  BY <1>1, IdleIsAState DEF States, Steps, Idle, EnsureForces, At, Captured, Holding, Previous, NoValue
<1>3. Become(a, state) /\ UNCHANGED user
  BY DEF EnsureForces, Goto
<1> HIDE DEF state
<1>4. proc' \in [Processes -> States] /\ \A b \in Processes : Captured(b)'
  BY <1>1, <1>2, <1>3, Moving DEF Captured, Processes
<1>5. QED
  BY <1>1, <1>2, <1>4 DEF EnsureForces, TypeOK, SavedIsOwn, IInv, life, user, Settings

LEMMA EnsureSavesStep ==
    ASSUME IInv, NEW a \in Processes, EnsureSaves(a), events' = events PROVE IInv'
<1>1. /\ proc[a] \in States /\ Captured(a) /\ TypeOK /\ SavedIsOwn
      /\ own \in Settings \cup {NoValue}
  BY Acting
<1>2. proc[a].previous = Saving(own) /\ Saving(own) \in Previous
  BY <1>1, SavingRestores DEF EnsureSaves, At, Captured, Holding
<1>3. proc' \in [Processes -> States] /\ \A b \in Processes : Captured(b)'
  BY Returning DEF EnsureSaves
<1>4. saved' = Saving(own) /\ own' = own /\ option' = option
  BY <1>2 DEF EnsureSaves, user
<1>5. TypeOK'
  BY <1>1, <1>2, <1>3, <1>4 DEF EnsureSaves, TypeOK, life, user
<1>6. SavedIsOwn'
  BY <1>1, <1>4 DEF SavedIsOwn, Saving, NoValue
<1>7. QED
  BY <1>3, <1>5, <1>6 DEF IInv

LEMMA RestoresStep ==
    ASSUME IInv, NEW a \in Processes, Restores(a), events' = events PROVE IInv'
<1> DEFINE state == [proc[a] EXCEPT !.pc = "unmark"]
<1>1. /\ proc[a] \in States /\ Captured(a) /\ TypeOK /\ SavedIsOwn
      /\ own \in Settings \cup {NoValue}
  BY Acting
<1>2. /\ state \in States /\ state.then = proc[a].then
      /\ state.previous = Saving(own) /\ proc[a].previous = Saving(own)
  BY <1>1, IdleIsAState DEF States, Steps, Idle, Restores, At, Captured, Holding, Previous, NoValue
<1>3. Become(a, state) /\ UNCHANGED user
  BY DEF Restores, Goto
<1> HIDE DEF state
<1>4. proc' \in [Processes -> States] /\ \A b \in Processes : Captured(b)'
  BY <1>1, <1>2, <1>3, Moving DEF Captured, Processes
<1>5. QED
  BY <1>1, <1>2, <1>4, SavingRestores DEF Restores, TypeOK, SavedIsOwn, IInv, life, user

LEMMA UnmarksStep ==
    ASSUME IInv, NEW a \in Processes, Unmarks(a), events' = events PROVE IInv'
<1> DEFINE state == [proc[a] EXCEPT !.pc = "kill", !.previous = NoValue]
<1>1. /\ proc[a] \in States /\ Captured(a) /\ TypeOK /\ SavedIsOwn
      /\ own \in Settings \cup {NoValue}
  BY Acting
<1>2. /\ state \in States /\ state.then = proc[a].then
      /\ state.pc \notin Holding \cup {"listed"}
  BY <1>1, IdleIsAState DEF States, Steps, Idle, Unmarks, At, Captured, Holding, Previous, NoValue
<1>3. Become(a, state) /\ UNCHANGED user
  BY DEF Unmarks, Goto
<1> HIDE DEF state
<1>4. proc' \in [Processes -> States] /\ \A b \in Processes : Captured(b)'
  BY <1>1, <1>2, <1>3, Moving DEF Captured, Processes
<1>5. QED
  BY <1>1, <1>2, <1>4 DEF Unmarks, TypeOK, SavedIsOwn, IInv, life, user, Previous, Saving, NoValue

LEMMA KillsStep ==
    ASSUME IInv, NEW a \in Processes, Kills(a), events' = events PROVE IInv'
<1>1. /\ proc[a] \in States /\ Captured(a) /\ TypeOK /\ SavedIsOwn
      /\ own \in Settings \cup {NoValue}
  BY Acting
<1> DEFINE left == proc[a].doomed \cap Window
<1>2. proc' \in [Processes -> States] /\ \A b \in Processes : Captured(b)'
  <2>1. CASE Return(a)
    BY <2>1, Returning DEF Kills
  <2>2. ASSUME NEW p \in left, Become(a, [proc[a] EXCEPT !.doomed = left \ {p}])
        PROVE  proc' \in [Processes -> States] /\ \A b \in Processes : Captured(b)'
    <3> DEFINE state == [proc[a] EXCEPT !.doomed = left \ {p}]
    <3>1. state \in States /\ state.pc = "kill" /\ state.then = proc[a].then
      BY <1>1 DEF States, Kills, At
    <3>2. Become(a, state) /\ UNCHANGED user
      BY <2>2 DEF Kills
    <3> HIDE DEF state
    <3>3. QED
      BY <1>1, <3>1, <3>2, Moving DEF Captured, Holding
  <2>3. Return(a) \/ \E p \in left : Become(a, [proc[a] EXCEPT !.doomed = left \ {p}])
    BY DEF Kills
  <2>4. QED
    BY <2>1, <2>2, <2>3
<1>3. /\ pane' \in [Panes -> {"unborn", "alive", "gone"} \cup Statuses]
      /\ exited' \in BOOLEAN /\ changed' \in BOOLEAN
  BY <1>1, LeavingKeepsType DEF Kills, TypeOK
<1>4. UNCHANGED <<own, global, titled, option, saved, server, hooked, died, blind>>
  BY DEF Kills, user, life
<1>5. QED
  BY <1>1, <1>2, <1>3, <1>4 DEF TypeOK, SavedIsOwn, IInv

LEMMA SweepListsStep ==
    ASSUME IInv, NEW a \in Processes, SweepLists(a), events' = events PROVE IInv'
<1> DEFINE doomed == {p \in Window : Removable(p, Chosen(saved))}
           kill == [proc[a] EXCEPT !.pc = "kill", !.doomed = doomed]
           restore == [kill EXCEPT !.pc = "restore", !.previous = saved]
           close == [proc[a] EXCEPT !.pc = "close", !.seen = Window]
<1>1. /\ proc[a] \in States /\ Captured(a) /\ TypeOK /\ SavedIsOwn
      /\ own \in Settings \cup {NoValue} /\ Saving(own) \in Previous
  BY Acting, SavingRestores DEF Processes
<1>2. doomed \subseteq Panes /\ Window \subseteq Panes
  BY DEF Window
<1> HIDE DEF doomed
<1>4. \/ Return(a)
      \/ saved # NoValue /\ Become(a, restore)
      \/ Become(a, close)
      \/ Become(a, kill)
  BY DEF SweepLists, doomed
<1>5. UNCHANGED user
  BY DEF SweepLists
<1>6. proc' \in [Processes -> States] /\ \A b \in Processes : Captured(b)'
  <2>1. CASE Return(a)
    BY <2>1, <1>5, Returning
  <2>2. CASE saved # NoValue /\ Become(a, restore)
    <3>1. restore \in States /\ restore.previous = Saving(own) /\ restore.then = proc[a].then
      BY <1>1, <1>2, <2>2 DEF States, Steps, SavedIsOwn
    <3> HIDE DEF restore
    <3>2. QED
      BY <1>1, <1>5, <2>2, <3>1, Moving DEF Captured
  <2>3. CASE Become(a, close)
    <3>1. close \in States /\ close.pc = "close" /\ close.then = proc[a].then
      BY <1>1, <1>2 DEF States, Steps
    <3> HIDE DEF close
    <3>2. QED
      BY <1>1, <1>5, <2>3, <3>1, Moving DEF Captured, Holding
  <2>4. CASE Become(a, kill)
    <3>1. kill \in States /\ kill.pc = "kill" /\ kill.then = proc[a].then
      BY <1>1, <1>2 DEF States, Steps
    <3> HIDE DEF kill
    <3>2. QED
      BY <1>1, <1>5, <2>4, <3>1, Moving DEF Captured, Holding
  <2>5. QED
    BY <1>4, <2>1, <2>2, <2>3, <2>4
<1>3. blind' \in BOOLEAN
  BY <1>1 DEF SweepLists, Look, TypeOK
<1>7. UNCHANGED <<own, global, pane, titled, option, saved, server, hooked, died, exited, changed>>
  BY DEF SweepLists, user, life
<1>8. QED
  BY <1>1, <1>3, <1>6, <1>7 DEF TypeOK, SavedIsOwn, IInv

LEMMA SweepClosesStep ==
    ASSUME IInv, NEW a \in Processes, SweepCloses(a), events' = events PROVE IInv'
<1>1. /\ proc[a] \in States /\ Captured(a) /\ TypeOK /\ SavedIsOwn
      /\ own \in Settings \cup {NoValue} /\ Saving(own) \in Previous
  BY Acting, SavingRestores DEF Processes
<1>2. proc' \in [Processes -> States] /\ \A b \in Processes : Captured(b)'
  BY Returning DEF SweepCloses, Processes
<1>3. pane' \in [Panes -> {"unborn", "alive", "gone"} \cup Statuses] /\ changed' \in BOOLEAN
  BY <1>1, LeavingKeepsType DEF SweepCloses, TypeOK
<1>4. UNCHANGED <<own, global, titled, option, saved, server, hooked, died, exited, blind>>
  BY DEF SweepCloses, user, life
<1>5. QED
  BY <1>1, <1>2, <1>3, <1>4 DEF TypeOK, SavedIsOwn, IInv

LEMMA DiedClosesStep ==
    ASSUME IInv, DiedCloses, events' = events PROVE IInv'
<1>1. /\ proc["died"] \in States /\ Captured("died") /\ TypeOK /\ SavedIsOwn
      /\ own \in Settings \cup {NoValue} /\ Saving(own) \in Previous
  BY Acting, SavingRestores DEF Processes
<1>2. proc' \in [Processes -> States] /\ \A b \in Processes : Captured(b)'
  BY Returning DEF DiedCloses, Processes
<1>3. pane' \in [Panes -> {"unborn", "alive", "gone"} \cup Statuses] /\ changed' \in BOOLEAN
  BY <1>1, LeavingKeepsType DEF DiedCloses, TypeOK
<1>4. UNCHANGED <<own, global, titled, option, saved, server, hooked, died, exited, blind>>
  BY DEF DiedCloses, user, life
<1>5. QED
  BY <1>1, <1>2, <1>3, <1>4 DEF TypeOK, SavedIsOwn, IInv

LEMMA ListsMarkedStep ==
    ASSUME IInv, NEW a \in Processes, ListsMarked(a), events' = events PROVE IInv'
<1> DEFINE listed == [proc[a] EXCEPT !.pc = "listed", !.previous = saved]
<1>1. /\ proc[a] \in States /\ Captured(a) /\ TypeOK /\ SavedIsOwn
      /\ own \in Settings \cup {NoValue} /\ Saving(own) \in Previous
  BY Acting, SavingRestores DEF Processes
<1>2. Return(a) \/ (saved # NoValue /\ Become(a, listed))
  BY DEF ListsMarked
<1>4. proc' \in [Processes -> States] /\ \A b \in Processes : Captured(b)'
  <2>1. CASE Return(a)
    BY <2>1, Returning DEF ListsMarked
  <2>2. CASE saved # NoValue /\ Become(a, listed)
    <3>1. /\ listed \in States /\ listed.previous = Saving(own)
          /\ listed.then = proc[a].then
      BY <1>1, <2>2 DEF States, Steps, SavedIsOwn
    <3>2. UNCHANGED user
      BY DEF ListsMarked
    <3> HIDE DEF listed
    <3>3. QED
      BY <1>1, <2>2, <3>1, <3>2, Moving DEF Captured
  <2>3. QED
    BY <1>2, <2>1, <2>2
<1>3. blind' \in BOOLEAN
  BY <1>1 DEF ListsMarked, Look, TypeOK
<1>5. UNCHANGED <<own, global, pane, titled, option, saved, server, hooked, died, exited, changed>>
  BY DEF ListsMarked, user, life
<1>6. QED
  BY <1>1, <1>3, <1>4, <1>5 DEF TypeOK, SavedIsOwn, IInv

LEMMA ListsPanesStep ==
    ASSUME IInv, ListsPanes("operation"), events' = events PROVE IInv'
<1> DEFINE a == "operation"
           doomed == {p \in Window : Removable(p, Chosen(proc[a].previous))}
           state == [proc[a] EXCEPT !.pc = "restore", !.doomed = doomed]
<1>1. /\ proc[a] \in States /\ Captured(a) /\ TypeOK /\ SavedIsOwn
      /\ own \in Settings \cup {NoValue} /\ Saving(own) \in Previous
  BY Acting, SavingRestores DEF Processes
<1>2. doomed \subseteq Panes
  BY DEF Window
<1>3. Return(a) \/ Become(a, state)
  BY DEF ListsPanes
<1> HIDE DEF doomed
<1>4. proc' \in [Processes -> States] /\ \A b \in Processes : Captured(b)'
  <2>1. CASE Return(a)
    BY <2>1, Returning DEF ListsPanes, Processes
  <2>2. CASE Become(a, state)
    <3>1. state \in States /\ state.then = proc[a].then /\ state.previous = Saving(own)
      BY <1>1, <1>2 DEF States, Steps, ListsPanes, At, Captured
    <3>2. UNCHANGED user
      BY DEF ListsPanes
    <3> HIDE DEF state
    <3>3. QED
      BY <1>1, <2>2, <3>1, <3>2, Moving DEF Captured, Processes
  <2>3. QED
    BY <1>3, <2>1, <2>2
<1>5. UNCHANGED <<own, global, pane, titled, option, saved, server, hooked, died, exited, changed, blind>>
  BY DEF ListsPanes, user, life
<1>6. QED
  BY <1>1, <1>4, <1>5 DEF TypeOK, SavedIsOwn, IInv

LEMMA BeginStep ==
    ASSUME IInv, NEW pc \in Steps \ (Holding \cup {"listed"}),
           NEW then \in Steps \ (Holding \cup {"listed"}), NEW doomed \in SUBSET Panes,
           Begin(pc, then, doomed), events' \in 0..MaxEvents
    PROVE  IInv'
<1> DEFINE a == "operation"
           state == [Idle EXCEPT !.pc = pc, !.then = then, !.doomed = doomed]
<1>1. /\ proc[a] \in States /\ Captured(a) /\ TypeOK /\ SavedIsOwn
      /\ own \in Settings \cup {NoValue} /\ Saving(own) \in Previous
  BY Acting, SavingRestores DEF Processes
<1>2. state \in States /\ state.pc = pc /\ state.then = then
  BY IdleIsAState DEF States, Idle
<1>3. Become(a, state) /\ UNCHANGED user
  BY DEF Begin
<1> HIDE DEF state
<1>4. proc' \in [Processes -> States] /\ \A b \in Processes : Captured(b)'
  BY <1>2, <1>3, Moving DEF Processes
<1>5. UNCHANGED <<own, global, pane, titled, option, saved, server, hooked, died, exited, changed, blind>>
  BY DEF Begin, user, life
<1>6. QED
  BY <1>1, <1>4, <1>5 DEF TypeOK, SavedIsOwn, IInv

LEMMA OperationsStep ==
    ASSUME IInv, Operations, events' \in 0..MaxEvents PROVE IInv'
<1>1. Window \cap titled \in SUBSET Panes /\ {} \in SUBSET Panes
  BY DEF Window
<1>2. {"split", "idle", "kill", "marked", "sweep", "orphans", "ensure"}
        \subseteq Steps \ (Holding \cup {"listed"})
  BY DEF Steps, Holding
<1>3. CASE BeginShow
  BY <1>1, <1>2, <1>3, BeginStep DEF BeginShow
<1>4. CASE BeginHide
  BY <1>1, <1>2, <1>4, BeginStep DEF BeginHide
<1>5. CASE BeginPaneExited
  BY <1>1, <1>2, <1>5, BeginStep DEF BeginPaneExited
<1>6. CASE BeginIdentify
  BY <1>1, <1>2, <1>6, BeginStep DEF BeginIdentify
<1>7. QED
  BY <1>3, <1>4, <1>5, <1>6 DEF Operations

LEMMA SplitsStep ==
    ASSUME IInv, Splits, events' = events PROVE IInv'
<1> DEFINE a == "operation"
<1>1. /\ proc[a] \in States /\ Captured(a) /\ TypeOK /\ SavedIsOwn
      /\ own \in Settings \cup {NoValue} /\ Saving(own) \in Previous
  BY Acting, SavingRestores DEF Processes
<1>2. PICK s \in Sidebars : /\ pane' = [pane EXCEPT ![s] = "alive"] /\ changed' = TRUE
                           /\ Become(a, [proc[a] EXCEPT !.pc = "title", !.seen = {s}])
  BY DEF Splits
<1> DEFINE state == [proc[a] EXCEPT !.pc = "title", !.seen = {s}]
<1>3. state \in States /\ state.pc = "title" /\ state.then = proc[a].then
  BY <1>1 DEF States, Steps, Panes
<1>4. Become(a, state) /\ UNCHANGED user
  BY <1>2 DEF Splits
<1> HIDE DEF state
<1>5. proc' \in [Processes -> States] /\ \A b \in Processes : Captured(b)'
  BY <1>1, <1>3, <1>4, Moving DEF Captured, Holding, Processes
<1>6. UNCHANGED <<own, global, titled, option, saved, server, hooked, died, exited, blind>>
  BY DEF Splits, user, life
<1>7. QED
  BY <1>1, <1>2, <1>5, <1>6 DEF TypeOK, SavedIsOwn, IInv

LEMMA TitlesStep ==
    ASSUME IInv, Titles, events' = events PROVE IInv'
<1> DEFINE a == "operation"
           state == [Idle EXCEPT !.pc = "ensure"]
<1>1. /\ proc[a] \in States /\ Captured(a) /\ TypeOK /\ SavedIsOwn
      /\ own \in Settings \cup {NoValue} /\ Saving(own) \in Previous
  BY Acting, SavingRestores DEF Processes
<1>2. state \in States /\ state.pc = "ensure" /\ state.then = "idle"
  BY IdleIsAState DEF States, Steps, Idle
<1>3. Become(a, state) /\ UNCHANGED user
  BY DEF Titles
<1> HIDE DEF state
<1>4. proc' \in [Processes -> States] /\ \A b \in Processes : Captured(b)'
  BY <1>2, <1>3, Moving DEF Holding, Processes
<1>5. /\ UNCHANGED <<own, global, pane, option, saved, server, hooked, died, exited, blind>>
      /\ changed' = TRUE /\ titled' = titled \cup (proc[a].seen \cap Window)
  BY DEF Titles, user, life
<1>6. titled' \subseteq Panes
  BY <1>1, <1>5 DEF TypeOK, Window
<1>7. QED
  BY <1>1, <1>4, <1>5, <1>6 DEF TypeOK, SavedIsOwn, IInv

LEMMA ListsOrphansStep ==
    ASSUME IInv, ListsOrphans, events' = events PROVE IInv'
<1> DEFINE a == "operation"
           state(ps) == [Idle EXCEPT !.pc = "kill", !.then = "marked", !.doomed = ps]
<1>1. /\ proc[a] \in States /\ Captured(a) /\ TypeOK /\ SavedIsOwn
      /\ own \in Settings \cup {NoValue} /\ Saving(own) \in Previous
  BY Acting, SavingRestores DEF Processes
<1>2. PICK ps \in SUBSET Panes : Become(a, state(ps))
  <2>1. Window \cap titled \in SUBSET Panes
    BY DEF Window
  <2>2. QED
    BY <2>1 DEF ListsOrphans
<1>3. /\ state(ps) \in States /\ state(ps).pc = "kill" /\ state(ps).then = "marked"
  BY IdleIsAState DEF States, Steps, Idle
<1>4. UNCHANGED user
  BY DEF ListsOrphans
<1> HIDE DEF state
<1>5. proc' \in [Processes -> States] /\ \A b \in Processes : Captured(b)'
  BY <1>2, <1>3, <1>4, Moving DEF Holding, Processes
<1>6. UNCHANGED <<own, global, pane, titled, option, saved, server, hooked, died, exited, changed, blind>>
  BY DEF ListsOrphans, user, life
<1>7. QED
  BY <1>1, <1>5, <1>6 DEF TypeOK, SavedIsOwn, IInv

LEMMA PollBeginsStep ==
    ASSUME IInv, PollBegins, events' = events PROVE IInv'
<1> DEFINE a == "poll"
           state == [Idle EXCEPT !.pc = "sweep"]
<1>1. /\ proc[a] \in States /\ Captured(a) /\ TypeOK /\ SavedIsOwn
      /\ own \in Settings \cup {NoValue} /\ Saving(own) \in Previous
  BY Acting, SavingRestores DEF Processes
<1>2. /\ state \in States /\ state.then \notin Holding \cup {"listed"}
      /\ state.pc \notin Holding \cup {"listed"} \/ state.previous = Saving(own)
  BY <1>1, IdleIsAState DEF States, Steps, Idle, Holding, SavedIsOwn, Captured
<1>3. Become(a, state) /\ UNCHANGED user
  BY DEF PollBegins, Goto
<1> HIDE DEF state
<1>4. proc' \in [Processes -> States] /\ \A b \in Processes : Captured(b)'
  BY <1>2, <1>3, Moving DEF Processes
<1>5. UNCHANGED <<own, global, pane, titled, option, saved, server, hooked, died, exited, blind>> /\ changed' = FALSE
  BY DEF PollBegins, user, life
<1>6. QED
  BY <1>1, <1>4, <1>5 DEF TypeOK, SavedIsOwn, IInv

LEMMA StartStep ==
    ASSUME IInv, Start, events' \in 0..MaxEvents PROVE IInv'
<1> DEFINE a == "lifecycle"
           state == [Idle EXCEPT !.pc = IF HasSidebar THEN "ensure" ELSE "idle"]
<1>1. /\ proc[a] \in States /\ Captured(a) /\ TypeOK /\ SavedIsOwn
      /\ own \in Settings \cup {NoValue} /\ Saving(own) \in Previous
  BY Acting, SavingRestores DEF Processes
<1>2. /\ state \in States /\ state.then \notin Holding \cup {"listed"}
      /\ state.pc \notin Holding \cup {"listed"} \/ state.previous = Saving(own)
  BY <1>1, IdleIsAState DEF States, Steps, Idle, Holding, SavedIsOwn, Captured
<1>3. Become(a, state) /\ UNCHANGED user
  BY DEF Start, Goto
<1> HIDE DEF state
<1>4. proc' \in [Processes -> States] /\ \A b \in Processes : Captured(b)'
  BY <1>2, <1>3, Moving DEF Processes
<1>5. UNCHANGED <<own, global, pane, titled, option, saved, died, exited, blind>>
      /\ changed' = TRUE /\ server' = "up" /\ hooked' = TRUE
  BY DEF Start, user, life
<1>6. QED
  BY <1>1, <1>4, <1>5 DEF TypeOK, SavedIsOwn, IInv

LEMMA ShutdownStep ==
    ASSUME IInv, Shutdown, events' \in 0..MaxEvents PROVE IInv'
<1> DEFINE a == "lifecycle"
           state == [Idle EXCEPT !.pc = "marked"]
<1>1. /\ proc[a] \in States /\ Captured(a) /\ TypeOK /\ SavedIsOwn
      /\ own \in Settings \cup {NoValue} /\ Saving(own) \in Previous
  BY Acting, SavingRestores DEF Processes
<1>2. /\ state \in States /\ state.then \notin Holding \cup {"listed"}
      /\ state.pc \notin Holding \cup {"listed"} \/ state.previous = Saving(own)
  BY <1>1, IdleIsAState DEF States, Steps, Idle, Holding, SavedIsOwn, Captured
<1>3. Become(a, state) /\ UNCHANGED user
  BY DEF Shutdown, Goto
<1> HIDE DEF state
<1>4. proc' \in [Processes -> States] /\ \A b \in Processes : Captured(b)'
  BY <1>2, <1>3, Moving DEF Processes
<1>5. UNCHANGED <<own, global, pane, titled, option, saved, hooked, died, exited, changed, blind>> /\ server' = "closing"
  BY DEF Shutdown, user, life
<1>6. QED
  BY <1>1, <1>4, <1>5 DEF TypeOK, SavedIsOwn, IInv

LEMMA CleanupMarkedStep ==
    ASSUME IInv, CleanupMarked, events' = events PROVE IInv'
<1> DEFINE a == "lifecycle"
           state == [Idle EXCEPT !.then = "unhook", !.previous = saved,
                                !.pc = IF saved = NoValue THEN "kill" ELSE "restore"]
<1>1. /\ proc[a] \in States /\ Captured(a) /\ TypeOK /\ SavedIsOwn
      /\ own \in Settings \cup {NoValue} /\ Saving(own) \in Previous
  BY Acting, SavingRestores DEF Processes
<1>2. /\ state \in States /\ state.then \notin Holding \cup {"listed"}
      /\ state.pc \notin Holding \cup {"listed"} \/ state.previous = Saving(own)
  BY <1>1, IdleIsAState DEF States, Steps, Idle, Holding, SavedIsOwn, Captured
<1>3. Become(a, state) /\ UNCHANGED user
  BY DEF CleanupMarked, Goto
<1> HIDE DEF state
<1>4. proc' \in [Processes -> States] /\ \A b \in Processes : Captured(b)'
  BY <1>2, <1>3, Moving DEF Processes
<1>5. UNCHANGED <<own, global, pane, titled, option, saved, server, hooked, died, exited, changed, blind>>
  BY DEF CleanupMarked, user, life
<1>6. QED
  BY <1>1, <1>4, <1>5 DEF TypeOK, SavedIsOwn, IInv

LEMMA CleanupHooksStep ==
    ASSUME IInv, CleanupHooks, events' = events PROVE IInv'
<1> DEFINE a == "lifecycle"
           state == [proc[a] EXCEPT !.pc = "sidebars"]
<1>1. /\ proc[a] \in States /\ Captured(a) /\ TypeOK /\ SavedIsOwn
      /\ own \in Settings \cup {NoValue} /\ Saving(own) \in Previous
  BY Acting, SavingRestores DEF Processes
<1>2. /\ state \in States /\ state.then \notin Holding \cup {"listed"}
      /\ state.pc \notin Holding \cup {"listed"} \/ state.previous = Saving(own)
  BY <1>1, IdleIsAState DEF States, Steps, Idle, Holding, SavedIsOwn, Captured
<1>3. Become(a, state) /\ UNCHANGED user
  BY DEF CleanupHooks, Goto
<1> HIDE DEF state
<1>4. proc' \in [Processes -> States] /\ \A b \in Processes : Captured(b)'
  BY <1>2, <1>3, Moving DEF Processes
<1>5. UNCHANGED <<own, global, pane, titled, option, saved, server, died, exited, changed, blind>> /\ hooked' = FALSE
  BY DEF CleanupHooks, user, life
<1>6. QED
  BY <1>1, <1>4, <1>5 DEF TypeOK, SavedIsOwn, IInv

LEMMA CleanupSidebarsStep ==
    ASSUME IInv, CleanupSidebars, events' = events PROVE IInv'
<1> DEFINE a == "lifecycle"
           state == [Idle EXCEPT !.pc = "kill", !.doomed = Window \cap titled]
<1>1. /\ proc[a] \in States /\ Captured(a) /\ TypeOK /\ SavedIsOwn
      /\ own \in Settings \cup {NoValue} /\ Saving(own) \in Previous
  BY Acting, SavingRestores DEF Processes
<1>0. Window \cap titled \in SUBSET Panes
  BY DEF Window
<1>2. /\ state \in States /\ state.then \notin Holding \cup {"listed"}
      /\ state.pc \notin Holding \cup {"listed"} \/ state.previous = Saving(own)
  BY <1>1, IdleIsAState, <1>0 DEF States, Steps, Idle, Holding, SavedIsOwn, Captured
<1>3. Become(a, state) /\ UNCHANGED user
  BY DEF CleanupSidebars, Goto
<1> HIDE DEF state
<1>4. proc' \in [Processes -> States] /\ \A b \in Processes : Captured(b)'
  BY <1>2, <1>3, Moving DEF Processes
<1>5. UNCHANGED <<own, global, pane, titled, option, saved, server, hooked, died, exited, changed, blind>>
  BY DEF CleanupSidebars, user, life
<1>6. QED
  BY <1>1, <1>4, <1>5 DEF TypeOK, SavedIsOwn, IInv

LEMMA StopsStep ==
    ASSUME IInv, Stops, events' \in 0..MaxEvents PROVE IInv'
<1>1. TypeOK /\ SavedIsOwn /\ \A a \in Processes : Captured(a) /\ proc[a] \in States
  BY DEF IInv, TypeOK
<1>2. \A a \in Processes : proc'[a] \in {Idle, proc[a]}
  BY DEF Stops
<1>3. proc' \in [Processes -> States]
  BY <1>1, IdleIsAState DEF Stops
<1>4. /\ UNCHANGED <<own, global, pane, titled, option, saved, hooked, died, exited, changed, blind>>
      /\ server' = "down"
  BY DEF Stops, user
<1>5. ASSUME NEW a \in Processes PROVE Captured(a)'
  <2>1. CASE proc'[a] = proc[a]
    BY <1>1, <1>4, <2>1 DEF Captured, Saving
  <2>2. CASE proc'[a] = Idle
    BY <2>2 DEF Captured, Idle, Holding
  <2>3. QED
    BY <1>2, <2>1, <2>2
<1>6. QED
  BY <1>1, <1>3, <1>4, <1>5 DEF TypeOK, SavedIsOwn, IInv

LEMMA DiedReadsStep ==
    ASSUME IInv, NEW p \in Panes, DiedReads(p), events' = events PROVE IInv'
<1> DEFINE a == "died"
           listed == [Idle EXCEPT !.pc = "listed", !.previous = saved, !.doomed = {p}]
<1>1. /\ proc[a] \in States /\ Captured(a) /\ TypeOK /\ SavedIsOwn
      /\ own \in Settings \cup {NoValue} /\ Saving(own) \in Previous
  BY Acting, SavingRestores DEF Processes
<1>2. Become(a, listed) \/ Become(a, Idle)
  BY DEF DiedReads
<1>3. blind' \in BOOLEAN
  BY <1>1 DEF DiedReads, Look, TypeOK
<1>4. UNCHANGED user
  BY DEF DiedReads
<1>5. proc' \in [Processes -> States] /\ \A b \in Processes : Captured(b)'
  <2>1. CASE Become(a, Idle)
    <3>1. Idle.pc = "idle" /\ Idle.then = "idle"
      BY DEF Idle
    <3>2. QED
      BY <1>4, <2>1, <3>1, IdleIsAState, Moving DEF Holding, Processes
  <2>2. CASE Become(a, listed)
    <3>1. /\ listed \in States /\ listed.pc = "listed" /\ listed.then = "idle"
          /\ listed.previous = saved
      BY <1>1, IdleIsAState DEF States, Steps, Idle, TypeOK
    <3>2. saved \in {NoValue, Saving(own)}
      BY <1>1 DEF SavedIsOwn
    <3> HIDE DEF listed
    <3>3. \A b \in Processes : Captured(b)'
      BY <1>4, <2>2, <3>1, <3>2, OneProcessMoves DEF Holding, Processes
    <3>4. QED
      BY <1>1, <2>2, <3>1, <3>3, Becoming DEF Processes
  <2>3. QED
    BY <1>2, <2>1, <2>2
<1>6. /\ UNCHANGED <<own, global, pane, titled, option, saved, server, hooked, exited, changed>>
      /\ died' = died \ {p}
  BY DEF DiedReads, user, life
<1>7. QED
  BY <1>1, <1>3, <1>5, <1>6 DEF TypeOK, SavedIsOwn, IInv

LEMMA DiedCountsStep ==
    ASSUME IInv, DiedCounts, events' = events PROVE IInv'
<1> DEFINE a == "died"
           close == [Idle EXCEPT !.pc = "close", !.seen = Window]
           kill == [proc[a] EXCEPT !.pc = "kill", !.previous = NoValue]
           restore == [proc[a] EXCEPT !.pc = "restore"]
<1>1. /\ proc[a] \in States /\ Captured(a) /\ TypeOK /\ SavedIsOwn
      /\ own \in Settings \cup {NoValue} /\ Saving(own) \in Previous
  BY Acting, SavingRestores DEF Processes
<1>2. Window \subseteq Panes
  BY DEF Window
<1>3. \/ proc[a].previous # NoValue /\ Become(a, restore)
      \/ Become(a, close)
      \/ Become(a, kill)
  BY DEF DiedCounts, Goto
<1>4. UNCHANGED user
  BY DEF DiedCounts
<1>5. proc' \in [Processes -> States] /\ \A b \in Processes : Captured(b)'
  <2>1. CASE proc[a].previous # NoValue /\ Become(a, restore)
    <3>1. restore \in States /\ restore.then = proc[a].then /\ restore.previous = Saving(own)
      BY <1>1, <2>1 DEF States, Steps, DiedCounts, At, Captured
    <3> HIDE DEF restore
    <3>2. QED
      BY <1>1, <1>4, <2>1, <3>1, Moving DEF Captured, Processes
  <2>2. CASE Become(a, close)
    <3>1. close \in States /\ close.pc = "close" /\ close.then = "idle"
      BY <1>2, IdleIsAState DEF States, Steps, Idle
    <3> HIDE DEF close
    <3>2. QED
      BY <1>4, <2>2, <3>1, Moving DEF Holding, Processes
  <2>3. CASE Become(a, kill)
    <3>1. kill \in States /\ kill.pc = "kill" /\ kill.then = proc[a].then
      BY <1>1 DEF States, Steps, Previous, NoValue
    <3> HIDE DEF kill
    <3>2. QED
      BY <1>1, <1>4, <2>3, <3>1, Moving DEF Captured, Holding, Processes
  <2>4. QED
    BY <1>3, <2>1, <2>2, <2>3
<1>6. UNCHANGED <<own, global, pane, titled, option, saved, server, hooked, died, exited, changed, blind>>
  BY DEF DiedCounts, user, life
<1>7. QED
  BY <1>1, <1>5, <1>6 DEF TypeOK, SavedIsOwn, IInv

(* What leaves the processes and the options alone.                         *)
LEMMA ElsewhereStep ==
    ASSUME IInv, UNCHANGED <<own, global, option, saved, proc>>, TypeOK'
    PROVE  IInv'
<1>1. SavedIsOwn'
  BY DEF IInv, SavedIsOwn, Saving
<1>2. \A a \in Processes : Captured(a)'
  BY DEF IInv, Captured, Saving
<1>3. QED
  BY <1>1, <1>2 DEF IInv

LEMMA ExitedScriptStep ==
    ASSUME IInv, ExitedScript, events' = events PROVE IInv'
<1>1. TypeOK
  BY DEF IInv
<1>2. /\ pane' \in [Panes -> {"unborn", "alive", "gone"} \cup Statuses]
      /\ changed' \in BOOLEAN /\ exited' = FALSE
  BY <1>1, LeavingKeepsType DEF ExitedScript, TypeOK
<1>3. UNCHANGED <<own, global, titled, option, saved, proc, server, hooked, died, blind>>
  BY DEF ExitedScript, user, life
<1>4. TypeOK'
  BY <1>1, <1>2, <1>3 DEF TypeOK
<1>5. QED
  BY <1>3, <1>4, ElsewhereStep

LEMMA EnvironmentStep ==
    ASSUME IInv, Environment, events' \in 0..MaxEvents PROVE IInv'
<1>1. TypeOK
  BY DEF IInv
<1>2. PICK p \in Panes : \/ UserKills(p) \/ UserSplits(p)
                          \/ \E status \in Statuses : Exits(p, status)
  BY DEF Environment
<1>3. CASE UserKills(p)
  <2>1. pane' \in [Panes -> {"unborn", "alive", "gone"} \cup Statuses]
    BY <1>1, <1>3, LeavingKeepsType DEF UserKills
  <2>2. /\ UNCHANGED <<own, global, titled, option, saved, proc, server, hooked, died, blind>>
        /\ exited' = hooked /\ changed' = TRUE
    BY <1>3 DEF UserKills, user, life
  <2>3. TypeOK'
    BY <1>1, <2>1, <2>2 DEF TypeOK
  <2>4. QED
    BY <2>2, <2>3, ElsewhereStep
<1>4. CASE UserSplits(p)
  <2>1. /\ UNCHANGED <<own, global, titled, option, saved, proc, server, hooked, died, exited, blind>>
        /\ pane' = [pane EXCEPT ![p] = "alive"] /\ changed' = TRUE
    BY <1>4 DEF UserSplits, user, life
  <2>2. TypeOK'
    BY <1>1, <2>1 DEF TypeOK
  <2>3. QED
    BY <2>1, <2>2, ElsewhereStep
<1>5. ASSUME NEW status \in Statuses, Exits(p, status) PROVE IInv'
  <2>1. /\ pane' \in [Panes -> {"unborn", "alive", "gone"} \cup Statuses]
        /\ died' \subseteq Panes /\ exited' \in BOOLEAN
    <3>1. CASE Keeps(Effective(option), status)
      BY <1>1, <1>5, <3>1 DEF Exits, TypeOK
    <3>2. CASE ~Keeps(Effective(option), status)
      BY <1>1, <1>5, <3>2, LeavingKeepsType DEF Exits, TypeOK
    <3>3. QED
      BY <3>1, <3>2
  <2>2. /\ UNCHANGED <<own, global, titled, option, saved, proc, server, hooked, blind>>
        /\ changed' = TRUE
    BY <1>5 DEF Exits, user, life
  <2>3. TypeOK'
    BY <1>1, <2>1, <2>2 DEF TypeOK
  <2>4. QED
    BY <2>2, <2>3, ElsewhereStep
<1>6. QED
  BY <1>2, <1>3, <1>4, <1>5

LEMMA SharedStep ==
    ASSUME IInv, NEW a \in Processes, Shared(a), events' = events PROVE IInv'
BY EnsureReadsStep, EnsureForcesStep, EnsureSavesStep, RestoresStep, UnmarksStep, KillsStep
   DEF Shared

LEMMA Initially ==
    ASSUME Init PROVE IInv
<1>1. own \in Settings \cup {NoValue} /\ global \in Globals /\ option = own /\ saved = NoValue
  BY PanesAssumption DEF Init
<1>2. proc = [a \in Processes |-> Idle] /\ proc \in [Processes -> States]
  BY IdleIsAState DEF Init
<1>0. pane \in [Panes -> {"unborn", "alive", "gone"} \cup Statuses]
  BY DEF Init
<1>3. TypeOK
  <2>1. own \in Owns /\ titled = {} /\ died = {} /\ server = "up" /\ events = 0
    BY DEF Init
  <2>2. /\ hooked \in BOOLEAN /\ exited \in BOOLEAN
        /\ changed \in BOOLEAN /\ blind \in BOOLEAN
    BY DEF Init
  <2>3. events \in 0..MaxEvents /\ option \in Settings \cup {NoValue} /\ saved \in Previous
    BY <1>1, <2>1, PanesAssumption DEF Previous
  <2>4. QED
    BY <1>0, <1>1, <1>2, <2>1, <2>2, <2>3 DEF TypeOK
<1>4. \A a \in Processes : Captured(a)
  BY <1>2 DEF Captured, Idle, Holding
<1>5. QED
  BY <1>1, <1>3, <1>4 DEF IInv, SavedIsOwn

LEMMA Inductive ==
    ASSUME IInv, [Next]_vars PROVE IInv'
<1>1. CASE Event /\ events < MaxEvents /\ events' = events + 1
  <2>1. events' \in 0..MaxEvents
    BY <1>1, PanesAssumption DEF IInv, TypeOK
  <2>2. CASE Crash
    BY <2>1, <2>2, StopsStep DEF Crash
  <2>3. QED
    BY <1>1, <2>1, <2>2, EnvironmentStep, OperationsStep, StartStep, ShutdownStep DEF Event
<1>2. CASE Work /\ UNCHANGED events
  <2>1. events' = events /\ events' \in 0..MaxEvents
    BY <1>2 DEF IInv, TypeOK
  <2>2. "operation" \in Processes /\ "poll" \in Processes /\ "lifecycle" \in Processes
        /\ "died" \in Processes
    BY DEF Processes
  <2>3. CASE OperationStep
    BY <2>1, <2>2, <2>3, SplitsStep, TitlesStep, ListsOrphansStep, SharedStep, SweepListsStep,
       SweepClosesStep, ListsMarkedStep, ListsPanesStep DEF OperationStep
  <2>4. CASE PollBegins \/ PollStep
    BY <2>1, <2>2, <2>4, PollBeginsStep, SharedStep, SweepListsStep, SweepClosesStep DEF PollStep
  <2>5. CASE LifecycleStep
    BY <2>1, <2>2, <2>5, CleanupMarkedStep, CleanupHooksStep, CleanupSidebarsStep, SharedStep
       DEF LifecycleStep
  <2>6. CASE Exit
    BY <2>1, <2>6, StopsStep DEF Exit
  <2>7. CASE DiedStep
    BY <2>1, <2>2, <2>7, DiedReadsStep, DiedCountsStep, DiedClosesStep, SharedStep DEF DiedStep
  <2>8. CASE ExitedScript
    BY <2>1, <2>8, ExitedScriptStep
  <2>9. QED
    BY <1>2, <2>3, <2>4, <2>5, <2>6, <2>7, <2>8 DEF Work
<1>3. CASE UNCHANGED vars
  <2>1. TypeOK'
    BY <1>3 DEF IInv, TypeOK, vars, user, life
  <2>2. UNCHANGED <<own, global, option, saved, proc>>
    BY <1>3 DEF vars, user, life
  <2>3. QED
    BY <2>1, <2>2, ElsewhereStep
<1>4. QED
  BY <1>1, <1>2, <1>3 DEF Next

(* The variables keep their types, whatever the sets of panes and settings. *)
THEOREM TypeCorrect == Spec => []TypeOK
<1>1. Init => IInv
  BY Initially
<1>2. IInv /\ [Next]_vars => IInv'
  BY Inductive
<1>3. IInv => TypeOK
  BY DEF IInv
<1>4. QED
  BY <1>1, <1>2, <1>3, PTL DEF Spec

(* What is saved for a window, and what is ever set on it apart from the    *)
(* forced "on", is the user's own value -- under any interleaving of the    *)
(* operation, the poll's sweep, the hooks' scripts, shutdowns and crashes.  *)
THEOREM OwnValueIsKept == Spec => []SavedIsOwn
<1>1. Init => IInv
  BY Initially
<1>2. IInv /\ [Next]_vars => IInv'
  BY Inductive
<1>3. IInv => SavedIsOwn
  BY DEF IInv
<1>4. QED
  BY <1>1, <1>2, <1>3, PTL DEF Spec

-----------------------------------------------------------------------------
(* Which panes go.  Every content pane a process has marked for removal is  *)
(* dead and not kept by the user's value, or gone: it was when it was       *)
(* marked, and a dead pane only ever goes.                                  *)

Fine(p)  == pane[p] = "gone" \/ Removable(p, Effective(own))
Marks(a) == proc[a].doomed \cup proc[a].seen

(* A process that returns never returns to the titling or the closing.      *)
Marked(a) ==
    /\ proc[a].then \notin {"close", "title"}
    /\ \A p \in Contents \cap Marks(a) : Fine(p)

DInv ==
    /\ titled \subseteq Sidebars
    /\ At("operation", "title") => proc["operation"].seen \subseteq Sidebars
    /\ \A a \in Processes : Marked(a)

(* What every step does to panes that are dead or gone.                     *)
Aging ==
    /\ \A q \in Panes : pane[q] \in Statuses \cup {"gone"} => pane'[q] \in {pane[q], "gone"}
    /\ titled \subseteq titled' /\ titled' \subseteq Sidebars
    /\ UNCHANGED user

LEMMA FineLasts ==
    ASSUME Aging, NEW p \in Panes, Fine(p) PROVE Fine(p)'
BY DEF Aging, Fine, Removable, Dead, Effective, Keeps, user, Statuses

LEMMA StillPanesAge ==
    ASSUME DInv, UNCHANGED <<pane, titled, own, global>> PROVE Aging
BY DEF DInv, Aging, user

LEMMA LeavingAges ==
    ASSUME DInv, NEW ps, Leave(ps), UNCHANGED <<titled, own, global>> PROVE Aging
BY DEF DInv, Aging, Leave, user

(* Without a saved value nothing untitled is removable; with one it is what *)
(* the user's value does not keep.                                          *)
LEMMA ChosenIsFine ==
    ASSUME IInv, DInv, NEW value \in {NoValue, Saving(own)}, NEW p \in Contents,
           Removable(p, Chosen(value))
    PROVE  Fine(p)
<1>1. p \notin titled
  BY PanesAssumption DEF DInv
<1>2. own \in Settings \cup {NoValue}
  BY OwnIsSetting DEF IInv
<1>3. value = Saving(own) /\ value # NoValue
  BY <1>1, <1>2, SavingRestores DEF Removable, Chosen, Keeps
<1>4. Chosen(value) = Effective(own)
  BY <1>2, <1>3, SavingRestores DEF Chosen
<1>5. QED
  BY <1>4 DEF Fine

LEMMA Decides ==
    ASSUME IInv, DInv, Aging, NEW a \in Processes, NEW state, Become(a, state),
           state.then \notin {"close", "title"},
           state.pc = "title" => state.seen \subseteq Sidebars,
           \A p \in Contents \cap (state.doomed \cup state.seen) : Fine(p)
    PROVE  DInv'
<1>1. proc'[a] = state /\ \A b \in Processes : b # a => proc'[b] = proc[b]
  BY DEF IInv, TypeOK, Become
<1>2. Contents \subseteq Panes
  BY DEF Panes
<1>3. Marked(a)'
  BY <1>1, <1>2, FineLasts DEF Marked, Marks
<1>4. ASSUME NEW b \in Processes, b # a PROVE Marked(b)'
  <2>1. Marked(b) /\ proc'[b] = proc[b]
    BY <1>1, <1>4 DEF DInv
  <2>2. QED
    BY <1>2, <2>1, FineLasts DEF Marked, Marks
<1>5. "operation" \in Processes
  BY DEF Processes
<1>6. At("operation", "title")' => (proc["operation"].seen)' \subseteq Sidebars
  BY <1>1, <1>5 DEF DInv, At
<1>7. QED
  BY <1>3, <1>4, <1>6 DEF DInv, Aging

(* A process that goes on with what it had marked.                          *)
LEMMA GoesOn ==
    ASSUME IInv, DInv, Aging, NEW a \in Processes, NEW state, Become(a, state),
           state.then = proc[a].then, state.pc # "title",
           state.seen \subseteq proc[a].seen, state.doomed \subseteq proc[a].doomed
    PROVE  DInv'
<1>1. Marked(a)
  BY DEF DInv
<1>2. QED
  BY <1>1, Decides DEF Marked, Marks

(* A process that starts afresh.                                            *)
LEMMA StartsAfresh ==
    ASSUME IInv, DInv, Aging, NEW a \in Processes, NEW state, Become(a, state),
           state.then \notin {"close", "title"}, state.pc # "title", state.seen = {},
           \A p \in Contents \cap state.doomed : Fine(p)
    PROVE  DInv'
BY Decides

LEMMA Returns ==
    ASSUME IInv, DInv, Aging, NEW a \in Processes, Return(a) PROVE DInv'
<1> DEFINE state == [Idle EXCEPT !.pc = proc[a].then]
<1>1. Marked(a)
  BY DEF DInv
<1>2. /\ state.pc = proc[a].then /\ state.then = "idle"
      /\ state.seen = {} /\ state.doomed = {}
  BY DEF Idle
<1>3. Become(a, state)
  BY DEF Return
<1> HIDE DEF state
<1>4. QED
  BY <1>1, <1>2, <1>3, Decides DEF Marked

(* The commands that set options leave the panes alone.                     *)
LEMMA OptionsKeepMarks ==
    ASSUME IInv, DInv, NEW a \in Processes,
           EnsureReads(a) \/ EnsureForces(a) \/ EnsureSaves(a) \/ Restores(a) \/ Unmarks(a)
    PROVE  DInv'
<1>1. proc[a] \in States
  BY Acting
<1>2. Aging
  BY StillPanesAge DEF EnsureReads, EnsureForces, EnsureSaves, Restores, Unmarks, user
<1>3. ASSUME NEW pc, pc # "title", NEW previous,
             \/ Goto(a, pc)
             \/ Become(a, [proc[a] EXCEPT !.pc = pc, !.previous = previous])
      PROVE  DInv'
  <2>1. PICK state \in {[proc[a] EXCEPT !.pc = pc],
                        [proc[a] EXCEPT !.pc = pc, !.previous = previous]} : Become(a, state)
    BY <1>3 DEF Goto
  <2>2. /\ state.pc # "title" /\ state.then = proc[a].then
        /\ state.seen = proc[a].seen /\ state.doomed = proc[a].doomed
    BY <1>1, <1>3 DEF States
  <2>3. QED
    BY <1>2, <2>1, <2>2, GoesOn
<1>4. CASE Return(a)
  BY <1>2, <1>4, Returns
<1>5. \/ Return(a)
      \/ Become(a, [proc[a] EXCEPT !.pc = "force", !.previous = Saving(option)])
      \/ Goto(a, "save") \/ Goto(a, "unmark")
      \/ Become(a, [proc[a] EXCEPT !.pc = "kill", !.previous = NoValue])
  BY DEF EnsureReads, EnsureForces, EnsureSaves, Restores, Unmarks
<1>6. QED
  BY <1>3, <1>4, <1>5

LEMMA KillsKeepMarks ==
    ASSUME IInv, DInv, NEW a \in Processes, Kills(a) PROVE DInv'
<1> DEFINE left == proc[a].doomed \cap Window
<1>1. proc[a] \in States
  BY Acting
<1>2. Aging
  <2>1. UNCHANGED <<titled, own, global>>
    BY DEF Kills, user
  <2>2. UNCHANGED pane \/ \E p \in left : Leave({p})
    BY DEF Kills
  <2>3. QED
    BY <2>1, <2>2, StillPanesAge, LeavingAges
<1>3. Return(a) \/ \E p \in left : Become(a, [proc[a] EXCEPT !.doomed = left \ {p}])
  BY DEF Kills
<1>4. CASE Return(a)
  BY <1>2, <1>4, Returns
<1>5. ASSUME NEW p \in left, Become(a, [proc[a] EXCEPT !.doomed = left \ {p}]) PROVE DInv'
  <2> DEFINE state == [proc[a] EXCEPT !.doomed = left \ {p}]
  <2>1. /\ state.pc = "kill" /\ state.then = proc[a].then
        /\ state.seen = proc[a].seen /\ state.doomed \subseteq proc[a].doomed
    BY <1>1 DEF States, Kills, At
  <2>2. Become(a, state)
    BY <1>5
  <2> HIDE DEF state
  <2>3. QED
    BY <1>2, <2>1, <2>2, GoesOn
<1>6. QED
  BY <1>3, <1>4, <1>5

LEMMA SharedKeepsMarks ==
    ASSUME IInv, DInv, NEW a \in Processes, Shared(a) PROVE DInv'
BY OptionsKeepMarks, KillsKeepMarks DEF Shared

(* The sweep marks what the user's value does not keep -- and all the panes *)
(* of the window only if each of them is such a pane or a sidebar.          *)
LEMMA SweepMarks ==
    ASSUME IInv, DInv, NEW a \in Processes, SweepLists(a) PROVE DInv'
<1> DEFINE doomed == {p \in Window : Removable(p, Chosen(saved))}
           kill == [proc[a] EXCEPT !.pc = "kill", !.doomed = doomed]
           restore == [kill EXCEPT !.pc = "restore", !.previous = saved]
           close == [proc[a] EXCEPT !.pc = "close", !.seen = Window]
<1>1. proc[a] \in States /\ SavedIsOwn /\ Marked(a)
  BY Acting DEF DInv
<1>2. Aging
  BY StillPanesAge DEF SweepLists, user
<1>3. \A p \in Contents \cap doomed : Fine(p)
  BY <1>1, ChosenIsFine DEF SavedIsOwn
<1> HIDE DEF doomed
<1>4. \/ Return(a)
      \/ Become(a, restore)
      \/ Window \subseteq titled \cup doomed /\ Become(a, close)
      \/ Become(a, kill)
  BY DEF SweepLists, doomed
<1>5. CASE Return(a)
  BY <1>2, <1>5, Returns
<1>6. ASSUME NEW state \in {kill, restore}, Become(a, state) PROVE DInv'
  <2>1. /\ state.pc # "title" /\ state.then = proc[a].then
        /\ state.seen = proc[a].seen /\ state.doomed = doomed
    BY <1>1, <1>6 DEF States
  <2>2. QED
    BY <1>1, <1>2, <1>3, <1>6, <2>1, Decides DEF Marked, Marks
<1>7. CASE Window \subseteq titled \cup doomed /\ Become(a, close)
  <2>1. /\ close.pc = "close" /\ close.then = proc[a].then
        /\ close.seen = Window /\ close.doomed = proc[a].doomed
    BY <1>1 DEF States
  <2>2. \A p \in Contents \cap Window : Fine(p)
    BY <1>3, <1>7, PanesAssumption DEF DInv
  <2> HIDE DEF close
  <2>3. QED
    BY <1>1, <1>2, <1>7, <2>1, <2>2, Decides DEF Marked, Marks
<1>8. QED
  BY <1>4, <1>5, <1>6, <1>7

LEMMA SweepClosesKeepsMarks ==
    ASSUME IInv, DInv, NEW a \in Processes, SweepCloses(a) PROVE DInv'
<1>1. Aging
  BY StillPanesAge, LeavingAges DEF SweepCloses, user
<1>2. QED
  BY <1>1, Returns DEF SweepCloses

LEMMA ListsMarkedKeepsMarks ==
    ASSUME IInv, DInv, NEW a \in Processes, ListsMarked(a) PROVE DInv'
<1> DEFINE state == [proc[a] EXCEPT !.pc = "listed", !.previous = saved]
<1>1. proc[a] \in States
  BY Acting
<1>2. Aging
  BY StillPanesAge DEF ListsMarked, user
<1>3. Return(a) \/ Become(a, state)
  BY DEF ListsMarked
<1>4. /\ state.pc # "title" /\ state.then = proc[a].then
      /\ state.seen = proc[a].seen /\ state.doomed = proc[a].doomed
  BY <1>1 DEF States
<1> HIDE DEF state
<1>5. QED
  BY <1>2, <1>3, <1>4, Returns, GoesOn

LEMMA ListsPanesMarks ==
    ASSUME IInv, DInv, NEW a \in Processes, ListsPanes(a) PROVE DInv'
<1> DEFINE doomed == {p \in Window : Removable(p, Chosen(proc[a].previous))}
           state == [proc[a] EXCEPT !.pc = "restore", !.doomed = doomed]
<1>1. proc[a] \in States /\ Captured(a) /\ Marked(a)
  BY Acting DEF DInv
<1>2. Aging
  BY StillPanesAge DEF ListsPanes, user
<1>3. proc[a].previous \in {NoValue, Saving(own)}
  BY <1>1 DEF ListsPanes, At, Captured
<1>4. \A p \in Contents \cap doomed : Fine(p)
  BY <1>3, ChosenIsFine
<1>5. Return(a) \/ Become(a, state)
  BY DEF ListsPanes
<1> HIDE DEF doomed
<1>6. /\ state.pc # "title" /\ state.then = proc[a].then
      /\ state.seen = proc[a].seen /\ state.doomed = doomed
  BY <1>1 DEF States
<1> HIDE DEF state
<1>7. CASE Become(a, state)
  BY <1>1, <1>2, <1>4, <1>6, <1>7, Decides DEF Marked, Marks
<1>8. QED
  BY <1>2, <1>5, <1>7, Returns

(* What starts a process marks at most sidebars.                            *)
LEMMA BeginsMark ==
    ASSUME IInv, DInv, NEW a \in Processes, NEW pc, NEW then, NEW doomed,
           Become(a, [Idle EXCEPT !.pc = pc, !.then = then, !.doomed = doomed]),
           pc # "title", then \notin {"close", "title"}, doomed \cap Contents = {},
           UNCHANGED <<pane, titled, own, global>>
    PROVE  DInv'
<1> DEFINE state == [Idle EXCEPT !.pc = pc, !.then = then, !.doomed = doomed]
<1>1. state.pc = pc /\ state.then = then /\ state.seen = {} /\ state.doomed = doomed
  BY DEF Idle
<1>2. Become(a, state)
  OBVIOUS
<1> HIDE DEF state
<1>3. QED
  BY <1>1, <1>2, StartsAfresh, StillPanesAge

LEMMA SidebarsAreNoContents ==
    ASSUME DInv PROVE \A ps \in SUBSET (Window \cap titled) : ps \cap Contents = {}
BY PanesAssumption DEF DInv

LEMMA OperationsMark ==
    ASSUME IInv, DInv, Operations PROVE DInv'
<1>1. PICK pc \in {"split", "kill", "sweep", "ensure"},
           then \in {"idle", "marked", "orphans"},
           doomed \in {{}, Window \cap titled} : Begin(pc, then, doomed)
  BY DEF Operations, BeginShow, BeginHide, BeginPaneExited, BeginIdentify
<1>2. doomed \cap Contents = {}
  BY SidebarsAreNoContents
<1>3. UNCHANGED <<pane, titled, own, global>> /\ "operation" \in Processes
  BY <1>1 DEF Begin, user, Processes
<1>4. Become("operation", [Idle EXCEPT !.pc = pc, !.then = then, !.doomed = doomed])
  BY <1>1 DEF Begin
<1>5. pc # "title" /\ then \notin {"close", "title"}
  OBVIOUS
<1>6. QED
  BY <1>2, <1>3, <1>4, <1>5, BeginsMark

LEMMA SplitsMarks ==
    ASSUME IInv, DInv, Splits PROVE DInv'
<1> DEFINE a == "operation"
<1>1. PICK s \in Sidebars :
        /\ pane[s] = "unborn" /\ pane' = [pane EXCEPT ![s] = "alive"]
        /\ Become(a, [proc[a] EXCEPT !.pc = "title", !.seen = {s}])
  BY DEF Splits
<1> DEFINE state == [proc[a] EXCEPT !.pc = "title", !.seen = {s}]
<1>2. a \in Processes
  BY DEF Processes
<1>3. proc[a] \in States /\ Marked(a) /\ TypeOK
  BY <1>2, Acting DEF DInv
<1>4. Aging
  BY <1>1, <1>3 DEF Aging, Splits, DInv, TypeOK, user, Statuses
<1>5. /\ state.pc = "title" /\ state.then = proc[a].then
      /\ state.seen = {s} /\ state.doomed = proc[a].doomed
  BY <1>3 DEF States
<1>6. Become(a, state)
  BY <1>1
<1> HIDE DEF state
<1>7. s \notin Contents
  BY PanesAssumption
<1>8. QED
  BY <1>2, <1>3, <1>4, <1>5, <1>6, <1>7, Decides DEF Marked, Marks

(* Only what the operation has just split is titled.                        *)
LEMMA TitlesMarks ==
    ASSUME IInv, DInv, Titles PROVE DInv'
<1>1. Aging
  BY DEF Titles, Aging, DInv, user
<1>2. Become("operation", [Idle EXCEPT !.pc = "ensure"]) /\ "operation" \in Processes
  BY DEF Titles, Processes
<1> DEFINE state == [Idle EXCEPT !.pc = "ensure"]
<1>3. state.pc = "ensure" /\ state.then = "idle" /\ state.seen = {} /\ state.doomed = {}
  BY DEF Idle
<1> HIDE DEF state
<1>4. Become("operation", state)
  BY <1>2 DEF state
<1>5. QED
  BY <1>1, <1>2, <1>3, <1>4, StartsAfresh

LEMMA OrphansMark ==
    ASSUME IInv, DInv, ListsOrphans PROVE DInv'
<1>1. PICK ps \in SUBSET (Window \cap titled) :
        Become("operation", [Idle EXCEPT !.pc = "kill", !.then = "marked", !.doomed = ps])
  BY DEF ListsOrphans
<1>2. ps \cap Contents = {}
  BY SidebarsAreNoContents
<1>3. UNCHANGED <<pane, titled, own, global>> /\ "operation" \in Processes
  BY DEF ListsOrphans, user, Processes
<1> DEFINE state == [Idle EXCEPT !.pc = "kill", !.then = "marked", !.doomed = ps]
<1>4. /\ state.pc = "kill" /\ state.then = "marked"
      /\ state.seen = {} /\ state.doomed = ps
  BY DEF Idle
<1>5. Become("operation", state) /\ Aging
  BY <1>1, <1>3, StillPanesAge
<1> HIDE DEF state
<1>6. QED
  BY <1>2, <1>3, <1>4, <1>5, StartsAfresh

(* The poll loop, startup and shutdown start from nothing.                  *)
LEMMA PollBeginsMarks ==
    ASSUME IInv, DInv, PollBegins PROVE DInv'
<1> DEFINE state == [Idle EXCEPT !.pc = "sweep"]
<1>1. Become("poll", state) /\ "poll" \in Processes /\ Aging
  BY StillPanesAge DEF PollBegins, Processes, user
<1>2. state.pc = "sweep" /\ state.then = "idle" /\ state.seen = {} /\ state.doomed = {}
  BY DEF Idle
<1> HIDE DEF state
<1>3. QED
  BY <1>1, <1>2, StartsAfresh

LEMMA StartMarks ==
    ASSUME IInv, DInv, Start \/ Shutdown PROVE DInv'
<1>1. PICK pc \in {"ensure", "idle", "marked"} : Become("lifecycle", [Idle EXCEPT !.pc = pc])
  BY DEF Start, Shutdown
<1> DEFINE state == [Idle EXCEPT !.pc = pc]
<1>2. Become("lifecycle", state) /\ "lifecycle" \in Processes /\ Aging
  BY <1>1, StillPanesAge DEF Start, Shutdown, Processes, user
<1>3. state.pc # "title" /\ state.then = "idle" /\ state.seen = {} /\ state.doomed = {}
  BY DEF Idle
<1> HIDE DEF state
<1>4. QED
  BY <1>2, <1>3, StartsAfresh

LEMMA CleanupMarks ==
    ASSUME IInv, DInv, CleanupMarked \/ CleanupHooks \/ CleanupSidebars PROVE DInv'
<1>1. "lifecycle" \in Processes /\ Aging
  BY StillPanesAge DEF CleanupMarked, CleanupHooks, CleanupSidebars, Processes, user
<1>2. CASE CleanupMarked
  <2>1. PICK pc \in {"kill", "restore"} :
          Become("lifecycle", [Idle EXCEPT !.then = "unhook", !.previous = saved, !.pc = pc])
    BY <1>2 DEF CleanupMarked
  <2> DEFINE state == [Idle EXCEPT !.then = "unhook", !.previous = saved, !.pc = pc]
  <2>2. state.pc # "title" /\ state.then = "unhook" /\ state.seen = {} /\ state.doomed = {}
    BY DEF Idle
  <2>3. Become("lifecycle", state)
    BY <2>1
  <2> HIDE DEF state
  <2>4. QED
    BY <1>1, <2>2, <2>3, StartsAfresh
<1>3. CASE CleanupHooks
  <2> DEFINE state == [proc["lifecycle"] EXCEPT !.pc = "sidebars"]
  <2>1. proc["lifecycle"] \in States
    BY <1>1, Acting
  <2>2. /\ state.pc # "title" /\ state.then = proc["lifecycle"].then
        /\ state.seen = proc["lifecycle"].seen /\ state.doomed = proc["lifecycle"].doomed
    BY <2>1 DEF States
  <2>3. Become("lifecycle", state)
    BY <1>3 DEF CleanupHooks, Goto
  <2> HIDE DEF state
  <2>4. QED
    BY <1>1, <2>2, <2>3, GoesOn
<1>4. CASE CleanupSidebars
  <2> DEFINE state == [Idle EXCEPT !.pc = "kill", !.doomed = Window \cap titled]
  <2>1. /\ state.pc # "title" /\ state.then = "idle" /\ state.seen = {}
        /\ state.doomed = Window \cap titled
    BY DEF Idle
  <2>2. Become("lifecycle", state)
    BY <1>4 DEF CleanupSidebars
  <2> HIDE DEF state
  <2>3. (Window \cap titled) \cap Contents = {}
    BY SidebarsAreNoContents
  <2>4. QED
    BY <1>1, <2>1, <2>2, <2>3, StartsAfresh
<1>5. QED
  BY <1>2, <1>3, <1>4

LEMMA StopsKeepsMarks ==
    ASSUME IInv, DInv, Stops PROVE DInv'
<1>1. Aging
  BY StillPanesAge DEF Stops, user
<1>2. \A a \in Processes : proc'[a] \in {Idle, proc[a]}
  BY DEF Stops
<1>3. "operation" \in Processes /\ Contents \subseteq Panes
  BY DEF Processes, Panes
<1>4. Idle.pc = "idle" /\ Idle.then = "idle" /\ Idle.doomed = {} /\ Idle.seen = {}
  BY DEF Idle
<1>5. ASSUME NEW a \in Processes PROVE Marked(a)'
  <2>1. CASE proc'[a] = Idle
    BY <1>4, <2>1 DEF Marked, Marks
  <2>2. CASE proc'[a] = proc[a]
    BY <1>1, <1>3, <2>2, FineLasts DEF DInv, Marked, Marks
  <2>3. QED
    BY <1>2, <2>1, <2>2
<1>6. At("operation", "title")' => (proc["operation"].seen)' \subseteq Sidebars
  BY <1>2, <1>3, <1>4 DEF DInv, At
<1>7. QED
  BY <1>1, <1>5, <1>6 DEF DInv, Aging

(* The script of the pane-died hook decides by the value saved when it      *)
(* started, which is the user's.                                            *)
LEMMA DiedReadsMarks ==
    ASSUME IInv, DInv, NEW p \in Panes, DiedReads(p) PROVE DInv'
<1> DEFINE listed == [Idle EXCEPT !.pc = "listed", !.previous = saved, !.doomed = {p}]
<1>1. Aging /\ "died" \in Processes
  BY StillPanesAge DEF DiedReads, Processes, user
<1>2. SavedIsOwn
  BY DEF IInv
<1>3. \/ Removable(p, Chosen(saved)) /\ Become("died", listed)
      \/ Become("died", Idle)
  BY DEF DiedReads
<1>4. CASE Become("died", Idle)
  <2>1. Idle.pc = "idle" /\ Idle.then = "idle" /\ Idle.doomed = {} /\ Idle.seen = {}
    BY DEF Idle
  <2>2. QED
    BY <1>1, <1>4, <2>1, StartsAfresh
<1>5. CASE Removable(p, Chosen(saved)) /\ Become("died", listed)
  <2>1. /\ listed.pc = "listed" /\ listed.then = "idle" /\ listed.seen = {}
        /\ listed.doomed = {p}
    BY DEF Idle
  <2> HIDE DEF listed
  <2>2. p \in Contents => Fine(p)
    BY <1>2, <1>5, ChosenIsFine DEF SavedIsOwn
  <2>3. QED
    BY <1>1, <1>5, <2>1, <2>2, StartsAfresh
<1>6. QED
  BY <1>3, <1>4, <1>5

LEMMA DiedCountsMarks ==
    ASSUME IInv, DInv, DiedCounts PROVE DInv'
<1> DEFINE a == "died"
           close == [Idle EXCEPT !.pc = "close", !.seen = Window]
           kill == [proc[a] EXCEPT !.pc = "kill", !.previous = NoValue]
           restore == [proc[a] EXCEPT !.pc = "restore"]
           remaining == {p \in Window \ (titled \cup proc[a].doomed) :
                           ~Removable(p, Chosen(proc[a].previous))}
<1>1. Aging /\ a \in Processes
  BY StillPanesAge DEF DiedCounts, Processes, user
<1>2. proc[a] \in States /\ Captured(a) /\ Marked(a)
  BY <1>1, Acting DEF DInv
<1>3. \/ Become(a, restore) \/ Become(a, kill)
      \/ remaining = {} /\ Become(a, close)
  BY DEF DiedCounts, Goto
<1>4. ASSUME NEW state \in {kill, restore}, Become(a, state) PROVE DInv'
  <2>1. /\ state.pc # "title" /\ state.then = proc[a].then
        /\ state.seen = proc[a].seen /\ state.doomed = proc[a].doomed
    BY <1>2, <1>4 DEF States
  <2>2. QED
    BY <1>1, <1>4, <2>1, GoesOn
<1>5. CASE remaining = {} /\ Become(a, close)
  <2>1. close.pc = "close" /\ close.then = "idle" /\ close.seen = Window /\ close.doomed = {}
    BY DEF Idle
  <2>2. proc[a].previous \in {NoValue, Saving(own)}
    BY <1>2 DEF DiedCounts, At, Captured
  <2>3. ASSUME NEW p \in Contents \cap Window PROVE Fine(p)
    <3>1. p \in proc[a].doomed \/ Removable(p, Chosen(proc[a].previous))
      BY <1>5, PanesAssumption DEF DInv
    <3>2. QED
      BY <1>2, <2>2, <3>1, ChosenIsFine DEF Marked, Marks
  <2> HIDE DEF close
  <2>4. QED
    BY <1>1, <1>5, <2>1, <2>3, Decides
<1>6. QED
  BY <1>3, <1>4, <1>5

LEMMA DiedClosesKeepsMarks ==
    ASSUME IInv, DInv, DiedCloses PROVE DInv'
<1>1. Aging /\ "died" \in Processes
  BY LeavingAges DEF DiedCloses, user, Processes
<1>2. QED
  BY <1>1, Returns DEF DiedCloses

(* What moves no process keeps the marks if the panes only age.             *)
LEMMA OthersKeepMarks ==
    ASSUME DInv, Aging, UNCHANGED proc PROVE DInv'
<1>1. Contents \subseteq Panes
  BY DEF Panes
<1>2. \A a \in Processes : Marked(a)'
  BY <1>1, FineLasts DEF DInv, Marked, Marks
<1>3. QED
  BY <1>2 DEF DInv, Aging, At

LEMMA EnvironmentAges ==
    ASSUME IInv, DInv, Environment PROVE Aging /\ UNCHANGED proc
<1>1. PICK p \in Panes : \/ UserKills(p) \/ UserSplits(p)
                          \/ \E status \in Statuses : Exits(p, status)
  BY DEF Environment
<1>2. TypeOK
  BY DEF IInv
<1>3. CASE UserKills(p)
  BY <1>3, LeavingAges DEF UserKills, user
<1>4. CASE UserSplits(p)
  BY <1>2, <1>4 DEF UserSplits, Aging, DInv, TypeOK, user, Statuses
<1>5. ASSUME NEW status \in Statuses, Exits(p, status) PROVE Aging /\ UNCHANGED proc
  <2>1. UNCHANGED <<titled, own, global, proc>>
    BY <1>5 DEF Exits, user
  <2>2. Leave({p}) \/ (pane[p] = "alive" /\ pane' = [pane EXCEPT ![p] = status])
    BY <1>5 DEF Exits
  <2>3. CASE Leave({p})
    BY <2>1, <2>3, LeavingAges
  <2>4. CASE pane[p] = "alive" /\ pane' = [pane EXCEPT ![p] = status]
    BY <1>2, <2>1, <2>4 DEF Aging, DInv, TypeOK, user, Statuses
  <2>5. QED
    BY <2>1, <2>2, <2>3, <2>4
<1>6. QED
  BY <1>1, <1>3, <1>4, <1>5

LEMMA ExitedScriptAges ==
    ASSUME DInv, ExitedScript PROVE Aging /\ UNCHANGED proc
BY StillPanesAge, LeavingAges DEF ExitedScript, user

LEMMA MarksStayFine ==
    ASSUME IInv, DInv, [Next]_vars PROVE DInv'
<1>1. /\ "operation" \in Processes /\ "poll" \in Processes
      /\ "lifecycle" \in Processes /\ "died" \in Processes
  BY DEF Processes
<1>2. CASE Event
  BY <1>2, EnvironmentAges, OthersKeepMarks, OperationsMark, StartMarks, StopsKeepsMarks
     DEF Event, Crash
<1>3. CASE OperationStep
  BY <1>1, <1>3, SplitsMarks, TitlesMarks, OrphansMark, SharedKeepsMarks, SweepMarks,
     SweepClosesKeepsMarks, ListsMarkedKeepsMarks, ListsPanesMarks DEF OperationStep
<1>4. CASE PollBegins \/ PollStep
  BY <1>1, <1>4, PollBeginsMarks, SharedKeepsMarks, SweepMarks, SweepClosesKeepsMarks
     DEF PollStep
<1>5. CASE LifecycleStep \/ Exit
  BY <1>1, <1>5, CleanupMarks, SharedKeepsMarks, StopsKeepsMarks DEF LifecycleStep, Exit
<1>6. CASE DiedStep
  BY <1>1, <1>6, DiedReadsMarks, DiedCountsMarks, DiedClosesKeepsMarks, SharedKeepsMarks
     DEF DiedStep
<1>7. CASE ExitedScript
  BY <1>7, ExitedScriptAges, OthersKeepMarks
<1>8. CASE UNCHANGED vars
  BY <1>8, StillPanesAge, OthersKeepMarks DEF vars, user
<1>9. QED
  BY <1>2, <1>3, <1>4, <1>5, <1>6, <1>7, <1>8 DEF Next, Work

LEMMA NothingMarked ==
    ASSUME Init PROVE DInv
<1>1. titled = {} /\ \A a \in Processes : proc[a] = Idle
  BY DEF Init
<1>2. Idle.pc = "idle" /\ Idle.then = "idle" /\ Idle.doomed = {} /\ Idle.seen = {}
  BY DEF Idle
<1>3. "operation" \in Processes
  BY DEF Processes
<1>4. QED
  BY <1>1, <1>2, <1>3 DEF DInv, Marked, Marks, At

(* Which steps of the server and the scripts remove panes, and which.       *)
LEMMA Removals ==
    ASSUME IInv, Work
    PROVE  \/ \A p \in Panes : There(p) => pane'[p] = pane[p]
           \/ \E a \in Processes : Kills(a)
           \/ \E a \in Processes : SweepCloses(a) \/ (a = "died" /\ DiedCloses)
           \/ ExitedScript
<1>1. /\ "operation" \in Processes /\ "poll" \in Processes
      /\ "lifecycle" \in Processes /\ "died" \in Processes
  BY DEF Processes
<1>2. CASE Splits
  BY <1>2 DEF Splits, There, Dead, Statuses, IInv, TypeOK
<1>3. CASE \/ Titles \/ ListsOrphans \/ PollBegins \/ CleanupMarked \/ CleanupHooks
           \/ CleanupSidebars \/ Stops \/ DiedCounts
  BY <1>3 DEF Titles, ListsOrphans, PollBegins, CleanupMarked, CleanupHooks,
     CleanupSidebars, Stops, DiedCounts
<1>4. ASSUME NEW p \in Panes, DiedReads(p) PROVE UNCHANGED pane
  BY <1>4 DEF DiedReads
<1>5. ASSUME NEW a \in Processes,
             \/ EnsureReads(a) \/ EnsureForces(a) \/ EnsureSaves(a) \/ Restores(a)
             \/ Unmarks(a) \/ SweepLists(a) \/ ListsMarked(a) \/ ListsPanes(a)
      PROVE  UNCHANGED pane
  BY <1>5 DEF EnsureReads, EnsureForces, EnsureSaves, Restores, Unmarks, SweepLists,
     ListsMarked, ListsPanes
<1>6. QED
  BY <1>1, <1>2, <1>3, <1>4, <1>5
     DEF Work, OperationStep, PollStep, Exit, LifecycleStep, DiedStep, Shared

LEMMA RemovalsAreSparing ==
    ASSUME IInv, DInv, Work, NEW p \in Contents, Spared(p), pane'[p] = "gone"
    PROVE  \E a \in Processes : At(a, "close") /\ ~At(a, "close")' /\ p \notin proc[a].seen
<1>1. p \in Panes /\ pane[p] # "gone" /\ ~Fine(p) /\ There(p) /\ p \notin titled
  <2>1. p \notin titled
    BY PanesAssumption DEF DInv
  <2>2. QED
    BY <2>1 DEF Spared, There, Dead, Statuses, Fine, Panes
<1>2. ASSUME NEW a \in Processes, Kills(a) PROVE FALSE
  <2>1. \A q \in Contents \cap proc[a].doomed : Fine(q)
    BY DEF DInv, Marked, Marks
  <2>2. UNCHANGED pane \/ \E q \in proc[a].doomed : Leave({q})
    BY <1>2 DEF Kills
  <2>3. QED
    BY <1>1, <2>1, <2>2 DEF Leave
<1>3. ASSUME NEW a \in Processes, SweepCloses(a) \/ (a = "died" /\ DiedCloses)
      PROVE  At(a, "close") /\ ~At(a, "close")' /\ p \notin proc[a].seen
  <2>1. Marked(a) /\ proc[a] \in States
    BY Acting DEF DInv
  <2>2. At(a, "close") /\ Return(a)
    BY <1>3 DEF SweepCloses, DiedCloses
  <2>3. proc'[a].pc = proc[a].then
    BY <2>2 DEF Return, Become, IInv, TypeOK, Idle
  <2>4. QED
    BY <1>1, <2>1, <2>2, <2>3 DEF Marked, Marks, At
<1>4. CASE ExitedScript
  <2>1. UNCHANGED pane \/ (Window \subseteq titled /\ Leave(Window))
    BY <1>4 DEF ExitedScript
  <2>2. QED
    BY <1>1, <2>1 DEF Leave
<1>5. QED
  BY <1>1, <1>2, <1>3, <1>4, Removals

(* The server and the scripts of its hooks remove no content pane that is   *)
(* alive or that the user's own value keeps, if it was there when they      *)
(* listed the panes: whatever runs between a listing and the removal, a     *)
(* pane that was marked is still one to remove.                             *)
THEOREM OnlyMarkedPanesGo == Spec => OnlyRemovablePanesGo
<1>1. Init => IInv /\ DInv
  BY Initially, NothingMarked
<1>2. IInv /\ DInv /\ [Next]_vars => (IInv /\ DInv)'
  BY Inductive, MarksStayFine
<1>3. IInv /\ DInv /\ [Next]_vars =>
        [events' = events =>
           \A p \in Contents : Spared(p) /\ pane'[p] = "gone" =>
             \E a \in Processes : At(a, "close") /\ ~At(a, "close")' /\ p \notin proc[a].seen]_vars
  <2> SUFFICES ASSUME IInv, DInv, Next, events' = events, NEW p \in Contents,
                      Spared(p), pane'[p] = "gone"
               PROVE  \E a \in Processes : /\ At(a, "close") /\ ~At(a, "close")'
                                           /\ p \notin proc[a].seen
    OBVIOUS
  <2>1. events # events + 1
    BY PanesAssumption DEF IInv, TypeOK
  <2>2. Work
    BY <2>1 DEF Next
  <2>3. QED
    BY <2>2, RemovalsAreSparing
<1>4. QED
  BY <1>1, <1>2, <1>3, PTL DEF Spec, OnlyRemovablePanesGo
=============================================================================
