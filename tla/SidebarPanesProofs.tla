------------------------- MODULE SidebarPanesProofs -------------------------
(***************************************************************************)
(* Safety of the sidebar panes: where they are (SidebarVisibility) and how *)
(* wide (WidthRepair), for every set of windows, queue bound, number of    *)
(* server generations and set of widths.                                   *)
(*                                                                         *)
(* None of the safety properties is inductive: what makes them hold is     *)
(* where the operation in progress stands.  Choice says at which steps the *)
(* option may lag behind the coordinator, Listing what the listings taken  *)
(* under the lock still guarantee, Phase how the process phases, closing   *)
(* and the hooks go together.                                              *)
(*                                                                         *)
(* The scheduler of the width repairs loses no request.  That is inductive *)
(* together with the types: a request is counted before it notifies, the   *)
(* notification is stored, and the loop, once it has taken one, looks at   *)
(* the count before it waits again.                                        *)
(***************************************************************************)
EXTENDS SidebarVisibility, WidthRepair, TLAPS

NoSidebars == \A w \in Windows : ~HasSidebar(w)

(* The coordinator is visible in every lifecycle but idle, and a warmup has *)
(* a deadline.                                                              *)
Consistent(c) == /\ c.visible <=> c.lifecycle # "idle"
                 /\ c.lifecycle = "warming" => c.warmupUntil
                 /\ c.hiddenByUser => ~c.visible \/ IsClosing(c)
Label == Consistent(coordinator)

(* Which steps each operation can be at.                                    *)
Program ==
    /\ op.kind = "none" <=> op.pc = "idle"
    /\ op.pc = "idle" => op = NoOperation
    /\ op.pc \in {"kill", "hide", "recordOff"} => op.kind = "toggle"
    /\ op.pc \in {"list", "warm", "check"} => op.kind \in {"toggle"} \cup EnsureKinds
    /\ op.pc = "recordOn" => op.kind \in {"toggle", "identify"}
    /\ op.pc = "setup" => op.kind = "startup"
    /\ op.kind = "ensure" => op.window \in Windows

Phase ==
    /\ IsClosing(coordinator) <=> server \in {"draining", "unhooked", "cleaned", "disowned"}
    /\ server = "down" => op = NoOperation /\ coordinator = NewCoordinator
    /\ server = "starting" => op.kind = "startup"
    /\ op.kind = "startup" => server \in {"starting", "draining"}
    /\ server \in {"unhooked", "cleaned"} => ~hooks
    /\ exit = "clean" => server = "down" /\ ~hooks
    /\ op.late => /\ IsClosing(coordinator)
                  /\ op.pc \in {"check", "ack", "sweep"}

Listing ==
    /\ op.pc = "kill" => {w \in Windows : HasSidebar(w)} \subseteq op.todo
    /\ op.pc \in {"hide", "recordOff"} => NoSidebars
    /\ op.kind = "toggle" /\ op.pc \in {"warm", "recordOn"} => NoSidebars
    /\ op.pc \in {"warm", "spawn"} => \A w \in op.todo : ~HasSidebar(w)

Choice ==
    /\ SidebarsImplyRecordedOn
    /\ op.pc = "spawn" => preference = "on"
    /\ op.kind \in EnsureKinds /\ op.pc \in {"list", "warm"} => preference = "on"
    /\ coordinator.visible /\ ~IsClosing(coordinator) =>
           preference = "on" \/ op.pc = "recordOn"
    /\ coordinator.hiddenByUser /\ ~IsClosing(coordinator) =>
           preference = "off" \/ op.pc = "recordOff"
    /\ op.pc = "recordOn" => ~coordinator.hiddenByUser \/ IsClosing(coordinator)
    /\ op.pc = "recordOff" =>
           IsClosing(coordinator) \/ (coordinator.hiddenByUser /\ ~coordinator.visible)

IInv == TypeOK /\ Label /\ Program /\ Phase /\ Listing /\ Choice

-----------------------------------------------------------------------------
(* The methods of the coordinator return coordinators.                      *)
LEMMA CoordinatorTypes ==
    /\ NewCoordinator \in CoordinatorStates
    /\ \A c \in CoordinatorStates :
          /\ BeginWarmupUntil(c) \in CoordinatorStates
          /\ MarkReady(c) \in CoordinatorStates
          /\ AcknowledgeSidebarConnected(c) \in CoordinatorStates
          /\ Hide(c) \in CoordinatorStates
          /\ BeginClosing(c) \in CoordinatorStates
          /\ TickTimers(c) \in CoordinatorStates
<1> USE DEF CoordinatorStates, Lifecycles
<1>1. NewCoordinator \in CoordinatorStates
  BY DEF NewCoordinator
<1>2. ASSUME NEW c \in CoordinatorStates
      PROVE  BeginWarmupUntil(c) \in CoordinatorStates
  BY DEF BeginWarmupUntil
<1>3. ASSUME NEW c \in CoordinatorStates
      PROVE  MarkReady(c) \in CoordinatorStates
  BY DEF MarkReady
<1>4. ASSUME NEW c \in CoordinatorStates
      PROVE  AcknowledgeSidebarConnected(c) \in CoordinatorStates
  BY DEF AcknowledgeSidebarConnected
<1>5. ASSUME NEW c \in CoordinatorStates
      PROVE  Hide(c) \in CoordinatorStates
  BY DEF Hide
<1>6. ASSUME NEW c \in CoordinatorStates
      PROVE  BeginClosing(c) \in CoordinatorStates /\ TickTimers(c) \in CoordinatorStates
  BY DEF BeginClosing, TickTimers
<1> QED BY <1>1, <1>2, <1>3, <1>4, <1>5, <1>6

(* An accepted request names a kind of operation and its window.            *)
LEMMA RequestTypes ==
    ASSUME NEW r \in Requests
    PROVE  /\ r[1] \in Kinds
           /\ r[2] \in Windows \cup {NoWindow}
           /\ r[1] = "ensure" => r[2] \in Windows
           /\ FirstStep[r[1]] \in {"check", "ack", "sweep"}
           /\ FirstStep[r[1]] = "check" => r[1] \in {"toggle", "ensure", "ensureAll"}
  BY DEF Requests, Kinds, FirstStep

(* Before the first generation every variable has its type.                 *)
LEMMA InitTypeOK == Init => TypeOK
<1> SUFFICES ASSUME Init PROVE TypeOK
  OBVIOUS
<1>1. NoOperation \in Operations
  BY DEF NoOperation, Operations, OpSteps
<1>2. panes \in [Windows -> PaneStates]
  BY DEF Init, PaneStates
<1>3. <<>> \in Seq(Requests) /\ Len(<<>>) <= MaxQueue /\ NoSidebars
  BY SidebarAssumption DEF Init, NoSidebars, HasSidebar
<1>4. coordinator \in CoordinatorStates
  BY CoordinatorTypes DEF Init
<1>5. 0 \in 0..MaxGenerations
  BY SidebarAssumption
<1> QED
  BY <1>1, <1>2, <1>3, <1>4, <1>5
     DEF Init, TypeOK, NoSidebars, Preferences, Phases

(* Every step keeps every variable in its type.                             *)
LEMMA TypeStep == TypeOK /\ Program /\ [Next]_vars => TypeOK'
<1> SUFFICES ASSUME TypeOK, Program, [Next]_vars PROVE TypeOK'
  OBVIOUS
<1> USE SidebarAssumption, CoordinatorTypes
<1> USE DEF TypeOK, Operations, OpSteps, PaneStates, Preferences, Phases, HasSidebar
<1>f. ASSUME Finish PROVE op' \in Operations /\ server' \in Phases
  BY <1>f DEF Finish, NoOperation
<1>c. ASSUME NEW pc \in OpSteps, Continue(pc)
      PROVE  op' \in Operations /\ server' \in Phases
  BY <1>c DEF Continue
<1>e. ASSUME NEW r \in Requests, Enqueue(r)
      PROVE  queue' \in Seq(Requests) /\ Len(queue') <= MaxQueue
  BY <1>e DEF Enqueue
<1>p. ASSUME NEW w \in Windows, NEW p \in PaneStates
      PROVE  [panes EXCEPT ![w] = p] \in [Windows -> PaneStates]
  OBVIOUS
<1>d. /\ SweptPanes \in [Windows -> PaneStates]
      /\ Disconnected \in [Windows -> PaneStates]
      /\ \A w \in Windows : /\ SweptPanes[w] # "none" => HasSidebar(w)
                            /\ Disconnected[w] # "none" => HasSidebar(w)
  BY DEF SweptPanes, Disconnected
<1>q. <<>> \in Seq(Requests) /\ Len(<<>>) <= MaxQueue
  OBVIOUS
<1>n. NoOperation \in Operations /\ [NoOperation EXCEPT !.kind = "startup", !.pc = "setup"]
         \in Operations
  BY DEF NoOperation
<1>1. CASE UNCHANGED vars
  BY <1>1 DEF vars
<1>2. CASE OperationStep
  <2>1. CASE ToggleCheck
    BY <2>1, <1>f, <1>c DEF ToggleCheck
  <2>2. CASE ToggleList
    BY <2>2 DEF ToggleList
  <2>3. CASE ToggleHide
    BY <2>3, <1>c DEF ToggleHide, Coordinate
  <2>4. CASE ToggleRecordOff
    BY <2>4, <1>f DEF ToggleRecordOff
  <2>5. CASE ToggleWarm
    BY <2>5, <1>c DEF ToggleWarm, Coordinate
  <2>6. CASE ToggleRecordOn
    BY <2>6 DEF ToggleRecordOn
  <2>7. ASSUME NEW w \in Windows, ToggleKill(w) PROVE TypeOK'
    BY <2>7, <1>p DEF ToggleKill
  <2>8. ASSUME NEW w \in Windows, Spawn(w) PROVE TypeOK'
    BY <2>8, <1>p, <1>f DEF Spawn
  <2>9. CASE EnsureCheck
    BY <2>9, <1>f, <1>c DEF EnsureCheck
  <2>10. CASE EnsureList
    <3> DEFINE wanted  == IF op.kind = "ensure" THEN {op.window} ELSE windows
               missing == {w \in wanted : ~HasSidebar(w)}
    <3>1. missing \in SUBSET Windows
      BY DEF Program
    <3>2. CASE missing = {}
      BY <2>10, <3>2, <1>f DEF EnsureList
    <3>3. CASE missing # {}
      <4> HIDE DEF missing
      <4>1. /\ op' = [op EXCEPT !.todo = missing, !.pc = "warm"]
            /\ UNCHANGED <<server, windows, panes, hooks, preference, coordinator,
                           queue, generation, exit>>
        BY <2>10, <3>3 DEF EnsureList, missing
      <4> QED BY <3>1, <4>1
    <3> QED BY <3>2, <3>3
  <2>11. CASE EnsureWarm
    BY <2>11, <1>c DEF EnsureWarm, Coordinate
  <2>12. CASE IdentifyAck
    BY <2>12, <1>f, <1>c DEF IdentifyAck, Coordinate
  <2>13. CASE IdentifyRecordOn
    BY <2>13, <1>c DEF IdentifyRecordOn
  <2>14. CASE PaneExited
    BY <2>14, <1>f, <1>d DEF PaneExited
  <2>15. CASE StartupHooks
    BY <2>15 DEF StartupHooks
  <2>16. CASE StartupRestore
    BY <2>16, <1>f, <1>c DEF StartupRestore, Coordinate
  <2> QED
    BY <1>2, <2>1, <2>2, <2>3, <2>4, <2>5, <2>6, <2>7, <2>8, <2>9, <2>10, <2>11,
       <2>12, <2>13, <2>14, <2>15, <2>16 DEF OperationStep
<1>3. CASE BeginOperation
  <2>1. Head(queue) \in Requests /\ Tail(queue) \in Seq(Requests)
        /\ Len(Tail(queue)) <= MaxQueue
    BY <1>3 DEF BeginOperation
  <2>2. Operation(Head(queue)[1], FirstStep[Head(queue)[1]], Head(queue)[2])
           \in Operations
    BY <2>1, RequestTypes DEF Operation, IsClosing
  <2> QED
    BY <1>3, <2>1, <2>2 DEF BeginOperation
<1>4. CASE Environment
  <2> USE DEF Requests
  <2>1. CASE UserToggles
    BY <2>1, <1>e DEF UserToggles
  <2>2. ASSUME NEW w \in Windows,
               UserSelectsWindow(w) \/ CloseWindow(w) \/ ManualClientIdentifies(w)
        PROVE  TypeOK'
    BY <2>2, <1>e, <1>p DEF UserSelectsWindow, CloseWindow, ManualClientIdentifies
  <2>4. ASSUME NEW w \in Windows, OpenWindow(w)
        PROVE  TypeOK'
    <3>1. queue' \in Seq(Requests) /\ Len(queue') <= MaxQueue
      BY <2>4, <1>e DEF OpenWindow
    <3> QED BY <2>4, <3>1 DEF OpenWindow
  <2>3. ASSUME NEW w \in Windows, UserKillsSidebar(w)
        PROVE  TypeOK'
    BY <2>3, <1>e, <1>p DEF UserKillsSidebar
  <2>6. ASSUME NEW w \in Windows, ClientIdentifies(w)
        PROVE  TypeOK'
    BY <2>6, <1>e, <1>p DEF ClientIdentifies
  <2>5. ASSUME NEW w \in Windows, ClientExits(w)
        PROVE  TypeOK'
    <3>1. queue' \in Seq(Requests) /\ Len(queue') <= MaxQueue
      BY <2>5, <1>e DEF ClientExits
    <3>2. PICK left \in {"none", "dead"} : panes' = [panes EXCEPT ![w] = left]
      BY <2>5 DEF ClientExits
    <3>3. HasSidebar(w)
      BY <2>5 DEF ClientExits
    <3> QED BY <2>5, <3>1, <3>2, <3>3 DEF ClientExits
  <2> QED BY <1>4, <2>1, <2>2, <2>3, <2>4, <2>5, <2>6
         DEF Environment
<1>5. CASE Generation
  <2>1. CASE StartServer
    BY <2>1, <1>n DEF StartServer
  <2>2. CASE LifecycleTick \/ PollSweep
    BY <2>2, <1>d DEF LifecycleTick, PollSweep
  <2>3. CASE BeginShutdown
    BY <2>3, <1>d DEF BeginShutdown
  <2>4. CASE CleanupHooks \/ CleanupSidebars \/ SkipCleanup
    BY <2>4 DEF CleanupHooks, CleanupSidebars, SkipCleanup
  <2>5. CASE EndGeneration \/ Crash
    BY <2>5, <1>n, <1>d, <1>q DEF EndGeneration, Crash
  <2> QED BY <1>5, <2>1, <2>2, <2>3, <2>4, <2>5 DEF Generation, Cleanup
<1> QED BY <1>1, <1>2, <1>3, <1>4, <1>5 DEF Next

-----------------------------------------------------------------------------
(* The methods of the coordinator keep it consistent.                       *)
LEMMA CoordinatorLabels ==
    /\ Consistent(NewCoordinator)
    /\ \A c \in CoordinatorStates : Consistent(c) =>
          /\ Consistent(BeginWarmupUntil(c))
          /\ Consistent(MarkReady(c))
          /\ Consistent(AcknowledgeSidebarConnected(c))
          /\ Consistent(Hide(c))
          /\ Consistent(BeginClosing(c))
          /\ TimerExpires(c) => Consistent(TickTimers(c))
<1> USE DEF CoordinatorStates, Lifecycles, Consistent, IsClosing
<1>1. Consistent(NewCoordinator)
  BY DEF NewCoordinator
<1>2. ASSUME NEW c \in CoordinatorStates, Consistent(c)
      PROVE  Consistent(BeginWarmupUntil(c)) /\ Consistent(Hide(c))
  BY <1>2 DEF BeginWarmupUntil, Hide
<1>3. ASSUME NEW c \in CoordinatorStates, Consistent(c)
      PROVE  Consistent(MarkReady(c)) /\ Consistent(AcknowledgeSidebarConnected(c))
  BY <1>3 DEF MarkReady, AcknowledgeSidebarConnected
<1>4. ASSUME NEW c \in CoordinatorStates, Consistent(c)
      PROVE  /\ Consistent(BeginClosing(c))
             /\ TimerExpires(c) => Consistent(TickTimers(c))
  BY <1>4 DEF BeginClosing, TimerExpires, TickTimers
<1> QED BY <1>1, <1>2, <1>3, <1>4

(* No step makes the coordinator inconsistent: every method that changes it, *)
(* called by an operation, the timer or the shutdown, keeps it consistent.   *)
LEMMA LabelStep == IInv /\ [Next]_vars => Label'
<1> SUFFICES ASSUME IInv, [Next]_vars PROVE Label'
  OBVIOUS
<1>1. coordinator \in CoordinatorStates /\ Consistent(coordinator)
  BY DEF IInv, TypeOK, Label
<1>2. CASE UNCHANGED coordinator
  BY <1>1, <1>2 DEF Label
<1>3. \/ UNCHANGED coordinator
      \/ coordinator' \in {NewCoordinator, BeginWarmupUntil(coordinator),
                           MarkReady(coordinator), Hide(coordinator),
                           AcknowledgeSidebarConnected(coordinator),
                           BeginClosing(coordinator)}
      \/ TimerExpires(coordinator) /\ coordinator' = TickTimers(coordinator)
  <2> USE DEF Coordinate
  <2>1. CASE UNCHANGED vars
    BY <2>1 DEF vars
  <2>2. CASE OperationStep
    BY <2>2 DEF OperationStep, ToggleCheck, ToggleList, ToggleHide, ToggleRecordOff,
                ToggleWarm, ToggleRecordOn, ToggleKill, Spawn, EnsureCheck, EnsureList,
                EnsureWarm, IdentifyAck, IdentifyRecordOn, PaneExited, StartupHooks,
                StartupRestore
  <2>3. CASE BeginOperation \/ Environment
    BY <2>3 DEF BeginOperation, Environment, UserToggles, UserSelectsWindow,
                OpenWindow, CloseWindow, ManualClientIdentifies, UserKillsSidebar,
                ClientIdentifies, ClientExits
  <2>4. CASE Generation
    BY <2>4 DEF Generation, Cleanup, StartServer, LifecycleTick, PollSweep, BeginShutdown,
                CleanupHooks, CleanupSidebars, SkipCleanup, EndGeneration, Crash
  <2> QED BY <2>1, <2>2, <2>3, <2>4 DEF Next
<1> QED BY <1>1, <1>2, <1>3, CoordinatorLabels DEF Label

(* The queued requests are requests, so the operation begun is one.         *)
LEMMA HeadIsRequest ==
    ASSUME TypeOK, queue # <<>> PROVE Head(queue) \in Requests
  BY DEF TypeOK

(* EnsureList ends the operation, or goes on to the windows that miss a     *)
(* sidebar.                                                                 *)
LEMMA EnsureListResult ==
    ASSUME TypeOK, Program, EnsureList
    PROVE  \/ Finish
           \/ /\ op' \in Operations /\ server' = server
              /\ op'.kind = op.kind /\ op'.window = op.window /\ op'.late = op.late
              /\ op'.pc = "warm"
              /\ \A w \in op'.todo : ~HasSidebar(w)
<1> DEFINE wanted  == IF op.kind = "ensure" THEN {op.window} ELSE windows
           missing == {w \in wanted : ~HasSidebar(w)}
<1>1. missing \in SUBSET Windows /\ \A w \in missing : ~HasSidebar(w)
  BY DEF Program, TypeOK
<1>2. CASE missing = {}
  BY <1>2 DEF EnsureList
<1>3. CASE missing # {}
  <2> HIDE DEF missing
  <2>1. op' = [op EXCEPT !.todo = missing, !.pc = "warm"] /\ server' = server
    BY <1>3 DEF EnsureList, missing
  <2> QED BY <1>1, <2>1 DEF TypeOK, Operations, OpSteps
<1> QED BY <1>2, <1>3

(* The operation that holds the lock is always at a step its code has.       *)
LEMMA ProgramStep == IInv /\ [Next]_vars => Program'
<1> SUFFICES ASSUME IInv, [Next]_vars PROVE Program'
  OBVIOUS
<1> USE DEF Program, EnsureKinds
<1>1. TypeOK /\ Program
  BY DEF IInv
<1>2. CASE UNCHANGED op
  BY <1>1, <1>2
<1>3. CASE OperationStep
  <2> USE <1>1 DEF Finish, Continue, NoOperation, TypeOK, Operations
  <2>1. CASE ToggleCheck
    BY <2>1 DEF ToggleCheck
  <2>2. CASE ToggleList
    BY <2>2 DEF ToggleList
  <2>3. CASE ToggleHide
    BY <2>3 DEF ToggleHide
  <2>4. CASE ToggleRecordOff
    BY <2>4 DEF ToggleRecordOff
  <2>5. CASE ToggleWarm
    BY <2>5 DEF ToggleWarm
  <2>6. CASE ToggleRecordOn
    BY <2>6 DEF ToggleRecordOn
  <2>7. ASSUME NEW w \in Windows, ToggleKill(w) PROVE Program'
    BY <2>7 DEF ToggleKill
  <2>8. ASSUME NEW w \in Windows, Spawn(w) PROVE Program'
    BY <2>8 DEF Spawn
  <2>9. CASE EnsureCheck
    BY <2>9 DEF EnsureCheck
  <2>10. CASE EnsureList
    BY <2>10, EnsureListResult DEF EnsureList
  <2>11. CASE EnsureWarm
    BY <2>11 DEF EnsureWarm
  <2>12. CASE IdentifyAck
    BY <2>12 DEF IdentifyAck
  <2>13. CASE IdentifyRecordOn
    BY <2>13 DEF IdentifyRecordOn
  <2>14. CASE PaneExited
    BY <2>14 DEF PaneExited
  <2>15. CASE StartupHooks
    BY <2>15 DEF StartupHooks
  <2>16. CASE StartupRestore
    BY <2>16 DEF StartupRestore
  <2> QED
    BY <1>3, <2>1, <2>2, <2>3, <2>4, <2>5, <2>6, <2>7, <2>8,
       <2>9, <2>10, <2>11, <2>12, <2>13, <2>14, <2>15, <2>16 DEF OperationStep
<1>4. CASE BeginOperation
  <2>1. /\ queue # <<>>
        /\ op' = Operation(Head(queue)[1], FirstStep[Head(queue)[1]], Head(queue)[2])
    BY <1>4 DEF BeginOperation
  <2>2. Head(queue) \in Requests
    BY <1>1, <2>1, HeadIsRequest
  <2> QED BY <2>1, <2>2, RequestTypes DEF Operation, Kinds
<1>5. CASE Environment
  BY <1>2, <1>5 DEF Environment, UserToggles, UserSelectsWindow,
              OpenWindow, CloseWindow, ManualClientIdentifies, UserKillsSidebar,
              ClientIdentifies, ClientExits
<1>6. CASE Generation
  <2>1. UNCHANGED op \/ op' = [NoOperation EXCEPT !.kind = "startup", !.pc = "setup"]
        \/ op' = NoOperation
    BY <1>6 DEF Generation, Cleanup, StartServer, LifecycleTick, PollSweep, BeginShutdown,
                CleanupHooks, CleanupSidebars, SkipCleanup, EndGeneration, Crash
  <2>2. CASE op' = [NoOperation EXCEPT !.kind = "startup", !.pc = "setup"]
    BY <2>2 DEF NoOperation
  <2>3. CASE op' = NoOperation
    BY <2>3 DEF NoOperation
  <2> QED BY <1>2, <2>1, <2>2, <2>3
<1> QED BY <1>2, <1>3, <1>4, <1>5, <1>6 DEF Next, vars

(* The phase of the server, its coordinator, its startup task and its hooks  *)
(* agree: shutdown and startup may interleave, and the hooks still go last.  *)
LEMMA PhaseStep == IInv /\ [Next]_vars => Phase'
<1> SUFFICES ASSUME IInv, [Next]_vars PROVE Phase'
  OBVIOUS
<1> USE DEF Phase, IsClosing
<1>1. TypeOK /\ Program /\ Phase /\ coordinator \in CoordinatorStates
  BY DEF IInv, TypeOK
<1>2. CASE UNCHANGED <<coordinator, server, op, hooks, exit>>
  BY <1>1, <1>2
<1>3. CASE OperationStep
  <2> USE <1>1 DEF Finish, Continue, Coordinate, NoOperation, Program, TypeOK,
                   Operations, CoordinatorStates, EnsureKinds
  <2>1. CASE ToggleCheck
    BY <2>1 DEF ToggleCheck
  <2>2. CASE ToggleList
    BY <2>2 DEF ToggleList
  <2>3. CASE ToggleHide
    BY <2>3 DEF ToggleHide, Hide
  <2>4. CASE ToggleRecordOff
    BY <2>4 DEF ToggleRecordOff
  <2>5. CASE ToggleWarm
    BY <2>5 DEF ToggleWarm, BeginWarmupUntil
  <2>6. CASE ToggleRecordOn
    BY <2>6 DEF ToggleRecordOn
  <2>7. ASSUME NEW w \in Windows, ToggleKill(w) PROVE Phase'
    BY <2>7 DEF ToggleKill
  <2>8. ASSUME NEW w \in Windows, Spawn(w) PROVE Phase'
    BY <2>8 DEF Spawn
  <2>9. CASE EnsureCheck
    BY <2>9 DEF EnsureCheck
  <2>10. CASE EnsureList
    BY <2>10, EnsureListResult DEF EnsureList
  <2>11. CASE EnsureWarm
    BY <2>11 DEF EnsureWarm, BeginWarmupUntil
  <2>12. CASE IdentifyAck
    BY <2>12 DEF IdentifyAck, AcknowledgeSidebarConnected
  <2>13. CASE IdentifyRecordOn
    BY <2>13 DEF IdentifyRecordOn
  <2>14. CASE PaneExited
    BY <2>14 DEF PaneExited
  <2>15. CASE StartupHooks
    BY <2>15 DEF StartupHooks
  <2>16. CASE StartupRestore
    <3>1. CASE Finish /\ UNCHANGED coordinator
      BY <2>16, <3>1 DEF StartupRestore
    <3>2. CASE /\ Continue("check")
               /\ coordinator' \in {MarkReady(coordinator), BeginWarmupUntil(coordinator)}
      <4>1. IsClosing(coordinator) <=> IsClosing(coordinator')
        BY <3>2 DEF MarkReady, BeginWarmupUntil
      <4> QED BY <2>16, <3>2, <4>1 DEF StartupRestore
    <3> QED BY <2>16, <3>1, <3>2 DEF StartupRestore
  <2> QED
    BY <1>3, <2>1, <2>2, <2>3, <2>4, <2>5, <2>6, <2>7, <2>8,
       <2>9, <2>10, <2>11, <2>12, <2>13, <2>14, <2>15, <2>16 DEF OperationStep
<1>4. CASE BeginOperation
  <2>1. /\ queue # <<>>
        /\ op' = Operation(Head(queue)[1], FirstStep[Head(queue)[1]], Head(queue)[2])
        /\ server \notin {"down", "starting"}
        /\ UNCHANGED <<server, coordinator, hooks, exit>>
    BY <1>4 DEF BeginOperation
  <2>2. Head(queue) \in Requests
    BY <1>1, <2>1, HeadIsRequest
  <2> QED BY <1>1, <2>1, <2>2, RequestTypes DEF Operation, Kinds
<1>5. CASE Environment
  BY <1>2, <1>5 DEF Environment, UserToggles, UserSelectsWindow,
              OpenWindow, CloseWindow, ManualClientIdentifies, UserKillsSidebar,
              ClientIdentifies, ClientExits
<1>6. CASE Generation
  <2> USE <1>1 DEF TypeOK, Operations, CoordinatorStates, NoOperation, NewCoordinator
  <2>1. CASE StartServer
    BY <2>1 DEF StartServer
  <2>2. CASE EndGeneration
    <3>1. op = NoOperation /\ op' = NoOperation
      BY <2>2, <1>1 DEF EndGeneration, Busy, Program
    <3>2. server = "cleaned" => ~hooks
      OBVIOUS
    <3> QED BY <2>2, <3>1, <3>2 DEF EndGeneration
  <2>3. CASE Crash
    BY <2>3 DEF Crash
  <2>4. CASE BeginShutdown
    BY <2>4 DEF BeginShutdown, BeginClosing, Accepting
  <2>5. CASE CleanupHooks \/ CleanupSidebars \/ SkipCleanup
    BY <2>5 DEF CleanupHooks, CleanupSidebars, SkipCleanup
  <2>6. CASE LifecycleTick \/ PollSweep
    BY <2>6 DEF LifecycleTick, PollSweep, TimerExpires, TickTimers
  <2> QED BY <1>6, <2>1, <2>2, <2>3, <2>4, <2>5, <2>6 DEF Generation, Cleanup
<1> QED BY <1>2, <1>3, <1>4, <1>5, <1>6 DEF Next, vars

(* The windows an operation has listed as missing a sidebar keep missing it  *)
(* until it visits them, because nothing else spawns while it holds the lock.*)
LEMMA ListingStep == IInv /\ [Next]_vars => Listing'
<1> SUFFICES ASSUME IInv, [Next]_vars PROVE Listing'
  OBVIOUS
<1> USE DEF Listing, NoSidebars, HasSidebar
<1>1. TypeOK /\ Program /\ Phase /\ Listing
  BY DEF IInv
<1>2. CASE UNCHANGED <<panes, op>>
  BY <1>1, <1>2
<1>3. CASE OperationStep
  <2> USE <1>1 DEF Finish, Continue, NoOperation, Program, TypeOK, Operations,
                   EnsureKinds
  <2>1. CASE ToggleCheck
    BY <2>1 DEF ToggleCheck
  <2>2. CASE ToggleList
    BY <2>2 DEF ToggleList
  <2>3. CASE ToggleHide
    BY <2>3 DEF ToggleHide
  <2>4. CASE ToggleRecordOff
    BY <2>4 DEF ToggleRecordOff
  <2>5. CASE ToggleWarm
    BY <2>5 DEF ToggleWarm
  <2>6. CASE ToggleRecordOn
    BY <2>6 DEF ToggleRecordOn
  <2>7. ASSUME NEW w \in Windows, ToggleKill(w) PROVE Listing'
    BY <2>7 DEF ToggleKill
  <2>8. ASSUME NEW w \in Windows, Spawn(w) PROVE Listing'
    BY <2>8 DEF Spawn
  <2>9. CASE EnsureCheck
    BY <2>9 DEF EnsureCheck
  <2>10. CASE EnsureList
    BY <2>10, EnsureListResult DEF EnsureList
  <2>11. CASE EnsureWarm
    BY <2>11 DEF EnsureWarm
  <2>12. CASE IdentifyAck
    BY <2>12 DEF IdentifyAck
  <2>13. CASE IdentifyRecordOn
    BY <2>13 DEF IdentifyRecordOn
  <2>14. CASE PaneExited
    BY <2>14 DEF PaneExited
  <2>15. CASE StartupHooks
    BY <2>15 DEF StartupHooks
  <2>16. CASE StartupRestore
    BY <2>16 DEF StartupRestore
  <2> QED
    BY <1>3, <2>1, <2>2, <2>3, <2>4, <2>5, <2>6, <2>7, <2>8,
       <2>9, <2>10, <2>11, <2>12, <2>13, <2>14, <2>15, <2>16 DEF OperationStep
<1>4. CASE BeginOperation
  <2>1. /\ queue # <<>>
        /\ op' = Operation(Head(queue)[1], FirstStep[Head(queue)[1]], Head(queue)[2])
    BY <1>4 DEF BeginOperation
  <2>2. Head(queue) \in Requests
    BY <1>1, <2>1, HeadIsRequest
  <2>3. op'.pc \in {"check", "ack", "sweep"}
    BY <2>1, <2>2, RequestTypes DEF Operation
  <2> QED BY <2>3
<1>5. CASE Environment
  <2>1. UNCHANGED op /\ \A w \in Windows : panes[w] = "none" => panes'[w] = "none"
    BY <1>1, <1>5 DEF Environment, UserToggles, UserSelectsWindow, OpenWindow,
                CloseWindow, ManualClientIdentifies, UserKillsSidebar,
                ClientIdentifies, ClientExits, TypeOK
  <2> QED BY <1>1, <2>1 DEF TypeOK, Operations
<1>6. CASE Generation
  <2>1. \/ op'.pc \in {"setup", "idle"}
        \/ UNCHANGED op /\ \A w \in Windows : panes[w] = "none" => panes'[w] = "none"
    <3>1. CASE StartServer
      BY <3>1 DEF StartServer, NoOperation
    <3>2. CASE Crash
      BY <3>2 DEF Crash, NoOperation
    <3>3. CASE LifecycleTick \/ PollSweep \/ BeginShutdown
      BY <3>3 DEF LifecycleTick, PollSweep, BeginShutdown, SweptPanes, Disconnected
    <3>4. CASE CleanupHooks \/ CleanupSidebars \/ SkipCleanup \/ EndGeneration
      BY <3>4 DEF CleanupHooks, CleanupSidebars, SkipCleanup, EndGeneration
    <3> QED BY <1>6, <3>1, <3>2, <3>3, <3>4 DEF Generation, Cleanup
  <2> QED BY <1>1, <2>1 DEF TypeOK, Operations
<1> QED BY <1>2, <1>3, <1>4, <1>5, <1>6 DEF Next, vars

(* The recorded choice, the panes and the coordinator agree as far as the    *)
(* step of the operation allows: record before spawn, kill before record.    *)
LEMMA ChoiceStep == IInv /\ [Next]_vars => Choice'
<1> SUFFICES ASSUME IInv, [Next]_vars PROVE Choice'
  OBVIOUS
<1> USE DEF Choice, SidebarsImplyRecordedOn, HasSidebar, IsClosing
<1>1. TypeOK /\ Label /\ Program /\ Phase /\ Listing /\ Choice
  BY DEF IInv
<1>2. CASE UNCHANGED <<panes, op, coordinator, preference>>
  BY <1>1, <1>2
<1>3. CASE OperationStep
  <2> USE <1>1 DEF Finish, Continue, NoOperation, Program, TypeOK, Operations,
                   EnsureKinds, Label, Consistent, Coordinate, CoordinatorStates,
                   Listing, NoSidebars
  <2>1. CASE ToggleCheck
    BY <2>1 DEF ToggleCheck
  <2>2. CASE ToggleList
    BY <2>2 DEF ToggleList
  <2>3. CASE ToggleHide
    BY <2>3 DEF ToggleHide, Hide
  <2>4. CASE ToggleRecordOff
    BY <2>4 DEF ToggleRecordOff
  <2>5. CASE ToggleWarm
    BY <2>5 DEF ToggleWarm, BeginWarmupUntil
  <2>6. CASE ToggleRecordOn
    BY <2>6 DEF ToggleRecordOn
  <2>7. ASSUME NEW w \in Windows, ToggleKill(w) PROVE Choice'
    BY <2>7 DEF ToggleKill
  <2>8. ASSUME NEW w \in Windows, Spawn(w) PROVE Choice'
    BY <2>8 DEF Spawn
  <2>9. CASE EnsureCheck
    BY <2>9 DEF EnsureCheck
  <2>10. CASE EnsureList
    BY <2>10, EnsureListResult DEF EnsureList
  <2>11. CASE EnsureWarm
    BY <2>11 DEF EnsureWarm, BeginWarmupUntil
  <2>12. CASE IdentifyAck
    BY <2>12 DEF IdentifyAck, AcknowledgeSidebarConnected
  <2>13. CASE IdentifyRecordOn
    BY <2>13 DEF IdentifyRecordOn
  <2>14. CASE PaneExited
    BY <2>14 DEF PaneExited, SweptPanes
  <2>15. CASE StartupHooks
    BY <2>15 DEF StartupHooks
  <2>16. CASE StartupRestore
    <3>1. UNCHANGED <<panes, preference>>
      BY <2>16 DEF StartupRestore
    <3>2. CASE Finish /\ UNCHANGED coordinator
      BY <2>16, <3>1, <3>2 DEF StartupRestore
    <3>3. CASE /\ preference = "on" /\ Continue("check")
               /\ \/ coordinator' = MarkReady(coordinator)
                  \/ coordinator' = BeginWarmupUntil(coordinator)
      <4>1. \/ coordinator'.hiddenByUser = coordinator.hiddenByUser
            \/ ~coordinator'.hiddenByUser
        BY <3>3 DEF MarkReady, BeginWarmupUntil
      <4>2. IsClosing(coordinator) <=> IsClosing(coordinator')
        BY <3>3 DEF MarkReady, BeginWarmupUntil
      <4>3. op'.pc = "check" /\ op'.kind = op.kind /\ op.pc = "setup"
        BY <2>16, <3>3 DEF StartupRestore
      <4> QED BY <3>1, <3>3, <4>1, <4>2, <4>3
    <3> QED BY <2>16, <3>2, <3>3 DEF StartupRestore
  <2> QED
    BY <1>3, <2>1, <2>2, <2>3, <2>4, <2>5, <2>6, <2>7, <2>8,
       <2>9, <2>10, <2>11, <2>12, <2>13, <2>14, <2>15, <2>16 DEF OperationStep
<1>4. CASE BeginOperation
  <2>1. /\ queue # <<>>
        /\ op' = Operation(Head(queue)[1], FirstStep[Head(queue)[1]], Head(queue)[2])
        /\ UNCHANGED <<panes, coordinator, preference>>
        /\ op.pc = "idle"
    BY <1>4 DEF BeginOperation, Busy
  <2>2. Head(queue) \in Requests
    BY <1>1, <2>1, HeadIsRequest
  <2>3. op'.pc \in {"check", "ack", "sweep"}
    BY <2>1, <2>2, RequestTypes DEF Operation
  <2> QED BY <1>1, <2>1, <2>3
<1>5. CASE Environment
  <2>1. /\ UNCHANGED <<op, coordinator, preference>>
        /\ \A w \in Windows : panes[w] = "none" => panes'[w] = "none"
    BY <1>1, <1>5 DEF Environment, UserToggles, UserSelectsWindow, OpenWindow,
                CloseWindow, ManualClientIdentifies, UserKillsSidebar,
                ClientIdentifies, ClientExits, TypeOK
  <2> QED BY <1>1, <2>1
<1>6. CASE Generation
  <2>1. CASE StartServer
    BY <1>1, <2>1 DEF StartServer, NoOperation, NewCoordinator
  <2>2. CASE Crash
    BY <1>1, <2>2 DEF Crash, NoOperation, NewCoordinator, Disconnected
  <2>3. CASE EndGeneration
    BY <1>1, <2>3 DEF EndGeneration, NewCoordinator, Busy
  <2>4. CASE BeginShutdown
    BY <1>1, <2>4 DEF BeginShutdown, BeginClosing, Disconnected
  <2>5. CASE LifecycleTick
    BY <1>1, <2>5 DEF LifecycleTick, TimerExpires, TickTimers, TypeOK, Label, Consistent
  <2>6. CASE PollSweep \/ CleanupHooks \/ CleanupSidebars \/ SkipCleanup
    BY <1>1, <2>6 DEF PollSweep, SweptPanes, CleanupHooks, CleanupSidebars, SkipCleanup
  <2> QED BY <1>6, <2>1, <2>2, <2>3, <2>4, <2>5, <2>6 DEF Generation, Cleanup
<1> QED BY <1>2, <1>3, <1>4, <1>5, <1>6 DEF Next, vars

-----------------------------------------------------------------------------
(* Before the first generation the invariant holds.                         *)
LEMMA InitInvariant == Init => IInv
<1> SUFFICES ASSUME Init PROVE IInv
  OBVIOUS
<1>1. TypeOK
  BY InitTypeOK
<1>2. Label
  BY CoordinatorLabels DEF Init, Label
<1>3. Program /\ Phase /\ Listing /\ Choice
  BY DEF Init, NoOperation, NewCoordinator, Program, Phase, IsClosing, Listing,
         Choice, SidebarsImplyRecordedOn, HasSidebar, EnsureKinds
<1> QED BY <1>1, <1>2, <1>3 DEF IInv

(* The invariant of the module holds in every reachable state, whatever the *)
(* windows, the queue bound and the number of generations.                  *)
THEOREM InvariantHolds == Spec => []IInv
<1>1. Init => IInv
  BY InitInvariant
<1>2. IInv /\ [Next]_vars => IInv'
  BY TypeStep, LabelStep, ProgramStep, PhaseStep, ListingStep, ChoiceStep DEF IInv
<1> QED BY <1>1, <1>2, PTL DEF Spec

(* Every variable keeps its type.                                           *)
THEOREM TypeCorrect == Spec => []TypeOK
<1>1. IInv => TypeOK
  BY DEF IInv
<1> QED BY <1>1, InvariantHolds, PTL

(* No step, not even a crash between two steps of an operation, leaves a    *)
(* sidebar on screen that the recorded choice would not restore.            *)
THEOREM RestartKeepsSidebars == Spec => []SidebarsImplyRecordedOn
<1>1. IInv => SidebarsImplyRecordedOn
  BY DEF IInv, Choice
<1> QED BY <1>1, InvariantHolds, PTL

(* Between operations the recorded choice is the coordinator's.             *)
THEOREM RecordedChoice == Spec => []RecordedChoiceAgrees
<1>1. IInv => RecordedChoiceAgrees
  BY DEF IInv, Choice, Program, Phase, RecordedChoiceAgrees, Busy
<1> QED BY <1>1, InvariantHolds, PTL

(* While the user hides the sidebar and nothing runs, no window has one.    *)
THEOREM HiddenStaysHidden == Spec => []HiddenMeansNoSidebar
<1>1. IInv => HiddenMeansNoSidebar
  BY DEF IInv, Choice, Program, Phase, HiddenMeansNoSidebar, Busy,
         SidebarsImplyRecordedOn
<1> QED BY <1>1, InvariantHolds, PTL

(* No operation spawns a second sidebar in a window.                        *)
THEOREM NoSecondSidebar == Spec => []OneSidebarPerWindow
<1>1. IInv => OneSidebarPerWindow
  BY DEF IInv, Listing, OneSidebarPerWindow
<1> QED BY <1>1, InvariantHolds, PTL

(* A clean exit, also one announced during startup, leaves no hook.         *)
THEOREM HooksRemoved == Spec => []CleanExitRemovesHooks
<1>1. IInv => CleanExitRemovesHooks
  BY DEF IInv, Phase, CleanExitRemovesHooks
<1> QED BY <1>1, InvariantHolds, PTL

(* A generation that has begun to close stays closing until its process ends.*)
THEOREM ClosingStays == Spec => ClosingIsTerminal
<1> DEFINE Stays == IsClosing(coordinator) /\ server' # "down" =>
                        IsClosing(coordinator') /\ coordinator'.visible
<1>1. IInv /\ [Next]_vars => [Stays]_vars
  <2> SUFFICES ASSUME IInv, Next, IsClosing(coordinator), server' # "down"
               PROVE  IsClosing(coordinator') /\ coordinator'.visible
    OBVIOUS
  <2>1. /\ server \in {"draining", "unhooked", "cleaned", "disowned"}
        /\ coordinator \in CoordinatorStates
        /\ coordinator.visible
    BY DEF IInv, Phase, TypeOK, Label, Consistent, IsClosing
  <2>2. \/ UNCHANGED coordinator
        \/ coordinator' \in {BeginWarmupUntil(coordinator), MarkReady(coordinator),
                             Hide(coordinator), AcknowledgeSidebarConnected(coordinator)}
    <3> USE DEF Coordinate
    <3>1. CASE OperationStep
      BY <3>1 DEF OperationStep, ToggleCheck, ToggleList, ToggleHide, ToggleRecordOff,
                ToggleWarm, ToggleRecordOn, ToggleKill, Spawn, EnsureCheck, EnsureList,
                EnsureWarm, IdentifyAck, IdentifyRecordOn, PaneExited, StartupHooks,
                StartupRestore
    <3>2. CASE BeginOperation \/ Environment
      BY <3>2 DEF BeginOperation, Environment, UserToggles, UserSelectsWindow,
                OpenWindow, CloseWindow, ManualClientIdentifies, UserKillsSidebar,
                ClientIdentifies, ClientExits
    <3>3. CASE Generation
      BY <2>1, <3>3 DEF Generation, Cleanup, StartServer, LifecycleTick, PollSweep,
                BeginShutdown, Accepting, CleanupHooks, CleanupSidebars, SkipCleanup, EndGeneration, Crash
    <3> QED BY <3>1, <3>2, <3>3 DEF Next
  <2>3. \A c \in CoordinatorStates : IsClosing(c) /\ c.visible =>
            \A d \in {BeginWarmupUntil(c), MarkReady(c), Hide(c),
                      AcknowledgeSidebarConnected(c)} : IsClosing(d) /\ d.visible
    BY DEF CoordinatorStates, IsClosing, BeginWarmupUntil, MarkReady, Hide,
           AcknowledgeSidebarConnected
  <2> QED BY <2>1, <2>2, <2>3
<1> QED BY <1>1, InvariantHolds, PTL DEF Spec, ClosingIsTerminal

(* What was queued before shutdown and runs after it changes nothing.       *)
THEOREM LateOperationsAreInert == Spec => LateOperationsChangeNothing
<1> DEFINE Inert == op.late =>
              /\ preference' = preference
              /\ \A w \in Windows : panes'[w] = "starting" => panes[w] = "starting"
<1>1. IInv /\ [Next]_vars => [Inert]_vars
  <2> SUFFICES ASSUME IInv, Next, op.late PROVE Inert
    OBVIOUS
  <2>1. /\ op.pc \in {"check", "ack", "sweep"}
        /\ panes \in [Windows -> PaneStates]
        /\ coordinator.lifecycle = "closing"
    BY DEF IInv, Phase, TypeOK, IsClosing
  <2>2. CASE OperationStep
    BY <2>1, <2>2 DEF OperationStep, ToggleCheck, ToggleList, ToggleHide,
         ToggleRecordOff, ToggleWarm, ToggleRecordOn, ToggleKill, Spawn, EnsureCheck,
         EnsureList, EnsureWarm, IdentifyAck, IdentifyRecordOn, PaneExited, SweptPanes,
         StartupHooks, StartupRestore
  <2>3. CASE BeginOperation \/ Environment
    BY <2>1, <2>3 DEF BeginOperation, Environment, UserToggles, UserSelectsWindow,
         OpenWindow, CloseWindow, ManualClientIdentifies, UserKillsSidebar,
         ClientIdentifies, ClientExits
  <2>4. CASE Generation
    BY <2>1, <2>4 DEF Generation, Cleanup, StartServer, LifecycleTick, PollSweep, SweptPanes,
         BeginShutdown, CleanupHooks, CleanupSidebars, SkipCleanup, EndGeneration, Crash, Disconnected
  <2> QED BY <2>2, <2>3, <2>4 DEF Next
<1> QED BY <1>1, InvariantHolds, PTL DEF Spec, LateOperationsChangeNothing

(* No step but one of a toggle, or the shutdown, shows a sidebar the user    *)
(* has hidden.                                                              *)
THEOREM HideIsTheUsers == Spec => OnlyToggleUndoesHide
<1> DEFINE Theirs == coordinator.hiddenByUser /\ ~coordinator.visible /\ coordinator'.visible
                       => op.kind = "toggle" \/ IsClosing(coordinator')
<1>1. IInv /\ [Next]_vars => [Theirs]_vars
  <2> SUFFICES ASSUME IInv, Next, coordinator.hiddenByUser, ~coordinator.visible,
                      op.kind # "toggle"
               PROVE  ~coordinator'.visible \/ IsClosing(coordinator')
    OBVIOUS
  <2>1. /\ coordinator \in CoordinatorStates
        /\ ~IsClosing(coordinator)
        /\ preference = "off"
        /\ op.pc \notin {"kill", "hide", "recordOff"}
    BY DEF IInv, TypeOK, Label, Consistent, Choice, Program, IsClosing
  <2>2. CASE OperationStep
    <3>1. op.kind \in EnsureKinds => op.pc \notin {"list", "warm"}
      BY <2>1 DEF IInv, Choice
    <3>2. \/ UNCHANGED coordinator
          \/ coordinator' \in {MarkReady(coordinator),
                               AcknowledgeSidebarConnected(coordinator)}
      BY <2>1, <2>2, <3>1 DEF OperationStep, Coordinate, ToggleCheck, ToggleList,
         ToggleHide, ToggleRecordOff, ToggleWarm, ToggleRecordOn, ToggleKill, Spawn,
         EnsureCheck, EnsureList, EnsureWarm, IdentifyAck, IdentifyRecordOn, PaneExited,
         StartupHooks, StartupRestore
    <3> QED BY <3>2 DEF MarkReady, AcknowledgeSidebarConnected
  <2>3. CASE BeginOperation \/ Environment
    BY <2>3 DEF BeginOperation, Environment, UserToggles, UserSelectsWindow,
         OpenWindow, CloseWindow, ManualClientIdentifies, UserKillsSidebar,
         ClientIdentifies, ClientExits
  <2>4. CASE Generation
    <3>1. coordinator.lifecycle = "idle"
      BY <2>1 DEF IInv, Label, Consistent
    <3>2. IsClosing(BeginClosing(coordinator))
      BY <2>1 DEF BeginClosing, CoordinatorStates, IsClosing
    <3>3. ~NewCoordinator.visible
      BY DEF NewCoordinator
    <3>4. \/ UNCHANGED coordinator
          \/ coordinator' \in {NewCoordinator, BeginClosing(coordinator)}
      BY <2>4, <3>1 DEF Generation, Cleanup, StartServer, LifecycleTick, TimerExpires, PollSweep,
         BeginShutdown, CleanupHooks, CleanupSidebars, SkipCleanup, EndGeneration, Crash
    <3> QED BY <3>2, <3>3, <3>4 DEF IsClosing
  <2> QED BY <2>2, <2>3, <2>4 DEF Next
<1> QED BY <1>1, InvariantHolds, PTL DEF Spec, OnlyToggleUndoesHide

-----------------------------------------------------------------------------
(* SidebarVisibility implements SidebarChoice.  A step that changes no pane, *)
(* no record and no coordinator is none of the choice; ...                   *)
SameLife == server = "down" <=> server' = "down"

LEMMA Untouched ==
    ASSUME UNCHANGED <<panes, preference, coordinator>>, SameLife
    PROVE  UNCHANGED Promise!vars
BY DEF SameLife, Promise!vars, Shown, HasSidebar, Life, IsClosing

(* ... sidebars that go make a step of their own; ...                        *)
LEMMA Vanishing ==
    ASSUME UNCHANGED <<preference, coordinator>>, SameLife,
           \A w \in Windows : panes[w] = "none" => panes'[w] = "none"
    PROVE  Promise!Next
<1>1. Shown' \in SUBSET Shown
  BY DEF Shown, HasSidebar
<1>2. UNCHANGED <<preference, Life>>
  BY DEF SameLife, Life, IsClosing
<1> QED BY <1>1, <1>2 DEF Promise!Disappear, Promise!Next

(* ... and a coordinator that hides nothing new leaves the choice alone, or  *)
(* shows again what was hidden.                                              *)
LEMMA Unhiding ==
    ASSUME UNCHANGED <<panes, preference>>, server # "down", server' # "down",
           IsClosing(coordinator') <=> IsClosing(coordinator),
           coordinator'.hiddenByUser => coordinator.hiddenByUser
    PROVE  Promise!Next \/ UNCHANGED Promise!vars
<1>1. Shown' = Shown
  BY DEF Shown, HasSidebar
<1>2. Life' = Life \/ (Life = "hidden" /\ Life' = "open")
  BY DEF Life, IsClosing
<1> QED BY <1>1, <1>2 DEF Promise!vars, Promise!Shows, Promise!Next

(* The methods of the coordinator, but for hiding and closing, are such.     *)
LEMMA CoordinatorUnhides ==
    ASSUME NEW c \in CoordinatorStates
    PROVE  \A d \in {BeginWarmupUntil(c), MarkReady(c), AcknowledgeSidebarConnected(c)} :
               /\ IsClosing(d) <=> IsClosing(c)
               /\ d.hiddenByUser => c.hiddenByUser
BY DEF CoordinatorStates, BeginWarmupUntil, MarkReady, AcknowledgeSidebarConnected, IsClosing

(* A sidebar is spawned where there is none, with the choice recorded.       *)
LEMMA SpawnAppears ==
    ASSUME IInv, NEW w \in Windows, Spawn(w)
    PROVE  Promise!Next \/ UNCHANGED Promise!vars
<1>1. /\ server # "down" /\ UNCHANGED <<preference, coordinator>> /\ SameLife
      /\ panes \in [Windows -> PaneStates]
  BY DEF IInv, TypeOK, Phase, NoOperation, Spawn, Finish, SameLife
<1>2. CASE w \notin windows
  BY <1>1, <1>2, Untouched DEF Spawn
<1>3. CASE w \in windows
  <2>1. preference = "on" /\ w \notin Shown
    BY DEF IInv, Choice, Listing, Spawn, Shown, HasSidebar
  <2>2. Shown' = Shown \cup {w}
    BY <1>1, <1>3 DEF Spawn, Shown, HasSidebar
  <2>3. UNCHANGED Life
    BY <1>1 DEF SameLife, Life, IsClosing
  <2>4. Life \in {"open", "closing"}
    BY <1>1, <2>1 DEF IInv, Choice, Spawn, Life
  <2> QED BY <1>1, <2>1, <2>2, <2>3, <2>4 DEF Promise!Appears, Promise!Next
<1> QED BY <1>2, <1>3

LEMMA OperationRefines ==
    ASSUME IInv, OperationStep PROVE Promise!Next \/ UNCHANGED Promise!vars
<1>1. coordinator \in CoordinatorStates /\ panes \in [Windows -> PaneStates]
  BY DEF IInv, TypeOK
<1>a. op.pc # "idle"
  BY DEF OperationStep, ToggleCheck, ToggleList, ToggleHide, ToggleRecordOff, ToggleWarm,
         ToggleRecordOn, ToggleKill, Spawn, EnsureCheck, EnsureList, EnsureWarm,
         IdentifyAck, IdentifyRecordOn, PaneExited, StartupHooks, StartupRestore
<1>b. server # "down"
  BY <1>a DEF IInv, Phase, NoOperation
<1>c. server' \in {server, "up"}
  BY DEF OperationStep, Finish, Continue, ToggleCheck, ToggleList, ToggleHide,
         ToggleRecordOff, ToggleWarm, ToggleRecordOn, ToggleKill, Spawn, EnsureCheck,
         EnsureList, EnsureWarm, IdentifyAck, IdentifyRecordOn, PaneExited, StartupHooks,
         StartupRestore
<1>d. server' # "down" /\ SameLife
  BY <1>b, <1>c DEF SameLife
<1>2. CASE ToggleCheck \/ ToggleList \/ EnsureCheck \/ EnsureList \/ StartupHooks
  BY <1>1, <1>b, <1>d, <1>2, Untouched DEF ToggleCheck, ToggleList, EnsureCheck, EnsureList, StartupHooks
<1>3. CASE PaneExited \/ \E w \in Windows : ToggleKill(w)
  BY <1>1, <1>b, <1>d, <1>3, Vanishing DEF PaneExited, SweptPanes, ToggleKill
<1>4. CASE ToggleWarm \/ EnsureWarm \/ IdentifyAck \/ StartupRestore
  <2>1. /\ UNCHANGED <<panes, preference>>
        /\ \/ UNCHANGED coordinator
           \/ coordinator' \in {BeginWarmupUntil(coordinator), MarkReady(coordinator),
                                AcknowledgeSidebarConnected(coordinator)}
    BY <1>4 DEF ToggleWarm, EnsureWarm, IdentifyAck, StartupRestore, Coordinate
  <2>2. CASE UNCHANGED coordinator
    BY <1>1, <1>b, <1>d, <2>1, <2>2, Untouched
  <2>3. CASE coordinator' \in {BeginWarmupUntil(coordinator), MarkReady(coordinator),
                               AcknowledgeSidebarConnected(coordinator)}
    BY <1>1, <1>b, <1>d, <2>1, <2>3, CoordinatorUnhides, Unhiding
  <2> QED BY <2>1, <2>2, <2>3
<1>5. CASE ToggleHide
  <2>1. Shown = {} /\ UNCHANGED <<Shown, preference>>
    BY <1>5 DEF IInv, Listing, NoSidebars, ToggleHide, Shown, HasSidebar
  <2>2. coordinator' = Hide(coordinator)
    BY <1>5 DEF ToggleHide, Coordinate
  <2>3. \/ Life' = Life
        \/ Life = "open" /\ Life' = "hidden"
    BY <1>1, <1>b, <1>d, <2>2 DEF Life, IsClosing, Hide, CoordinatorStates
  <2> QED BY <2>1, <2>3 DEF Promise!vars, Promise!Hides, Promise!Next
<1>6. CASE ToggleRecordOff
  <2>1. /\ Shown = {} /\ UNCHANGED <<Shown, Life>> /\ preference' = "off"
    BY <1>1, <1>b, <1>d, <1>6 DEF IInv, Listing, NoSidebars, ToggleRecordOff, Shown, HasSidebar, SameLife,
                Life, IsClosing
  <2>2. Life \in {"hidden", "closing"}
    BY <1>1, <1>b, <1>d, <1>6 DEF IInv, Choice, ToggleRecordOff, Life
  <2> QED BY <2>1, <2>2 DEF Promise!RecordsOff, Promise!Next
<1>7. CASE ToggleRecordOn \/ IdentifyRecordOn
  <2>1. /\ UNCHANGED <<Shown, Life>> /\ preference' = "on"
    BY <1>1, <1>b, <1>d, <1>7 DEF ToggleRecordOn, IdentifyRecordOn, Shown, HasSidebar, SameLife, Life,
                IsClosing
  <2>2. Life \in {"open", "closing"}
    BY <1>1, <1>b, <1>d, <1>7 DEF IInv, Choice, ToggleRecordOn, IdentifyRecordOn, Life
  <2> QED BY <2>1, <2>2 DEF Promise!RecordsOn, Promise!Next
<1> QED
  BY <1>2, <1>3, <1>4, <1>5, <1>6, <1>7, SpawnAppears DEF OperationStep

LEMMA GenerationRefines ==
    ASSUME IInv, Generation PROVE Promise!Next \/ UNCHANGED Promise!vars
<1>1. TypeOK /\ Phase
  BY DEF IInv
<1>2. CASE StartServer
  <2>1. Life = "none" /\ Life' = "open" /\ UNCHANGED <<Shown, preference>>
    BY <1>2 DEF StartServer, Life, NewCoordinator, IsClosing, Shown, HasSidebar
  <2> QED BY <2>1 DEF Promise!Starts, Promise!Next
<1>3. CASE LifecycleTick
  BY <1>1, <1>3, Unhiding DEF LifecycleTick, TimerExpires, TickTimers, IsClosing, TypeOK,
                CoordinatorStates
<1>4. CASE PollSweep
  BY <1>4, Vanishing DEF PollSweep, SweptPanes, SameLife
<1>5. CASE BeginShutdown
  <2>1. UNCHANGED <<Shown, preference>>
    BY <1>1, <1>5 DEF BeginShutdown, Disconnected, Shown, HasSidebar, TypeOK
  <2>2. Life \in {"open", "hidden"} /\ Life' = "closing"
    BY <1>1, <1>5 DEF BeginShutdown, Accepting, BeginClosing, Life, IsClosing, TypeOK, Phase,
                CoordinatorStates
  <2> QED BY <2>1, <2>2 DEF Promise!Closes, Promise!Next
<1>6. CASE CleanupHooks
  BY <1>6, Untouched DEF CleanupHooks, SameLife
<1>7. CASE CleanupSidebars
  BY <1>7, Vanishing DEF CleanupSidebars, SameLife
<1>9. CASE SkipCleanup
  BY <1>9 DEF SkipCleanup, Promise!vars, Shown, HasSidebar, Life
<1>8. CASE EndGeneration \/ Crash
  <2>1. UNCHANGED <<Shown, preference>>
    BY <1>1, <1>8 DEF EndGeneration, Crash, Disconnected, Shown, HasSidebar, TypeOK
  <2>2. Life # "none" /\ Life' = "none"
    BY <1>8 DEF EndGeneration, Crash, Life
  <2> QED BY <2>1, <2>2 DEF Promise!Ends, Promise!Next
<1> QED
  BY <1>2, <1>3, <1>4, <1>5, <1>6, <1>7, <1>8, <1>9 DEF Generation, Cleanup

LEMMA StepRefines == IInv /\ [Next]_vars => [Promise!Next]_(Promise!vars)
<1> SUFFICES ASSUME IInv, [Next]_vars PROVE Promise!Next \/ UNCHANGED Promise!vars
  BY DEF Promise!vars
<1>1. panes \in [Windows -> PaneStates]
  BY DEF IInv, TypeOK
<1>2. CASE Environment
  BY <1>1, <1>2, Vanishing DEF Environment, UserToggles, UserSelectsWindow, OpenWindow,
     CloseWindow, ManualClientIdentifies, UserKillsSidebar, ClientIdentifies,
     ClientExits, SameLife
<1>3. CASE BeginOperation \/ UNCHANGED vars
  BY <1>3, Untouched DEF BeginOperation, vars, SameLife
<1> QED BY <1>2, <1>3, OperationRefines, GenerationRefines DEF Next

(* For any windows, queue and number of generations: what operations, users *)
(* and crashes do between any two tmux commands is a step of the choice, or *)
(* none (toggle_sidebar, ensure_sidebar, startup and cleanup).              *)
THEOREM ChoiceIsImplemented == Spec => ImplementsChoice
<1>1. Init => Promise!Init
  BY DEF Init, Promise!Init, Shown, HasSidebar, Life
<1> QED
  BY <1>1, StepRefines, InvariantHolds, PTL DEF Spec, ImplementsChoice, Promise!Spec

-----------------------------------------------------------------------------
(* The repair of the widths.                                                *)
WidthIInv == WidthTypeOK /\ RequestIsNotLost

LEMMA IdleIsAProc ==
    /\ AnyWidth \in Widths /\ Idle \in Procs
    /\ \A pc \in Stages : [Idle EXCEPT !.pc = pc] \in Procs
<1>1. AnyWidth \in Widths
  BY WidthsAssumption DEF AnyWidth
<1>2. QED
  BY <1>1 DEF Idle, Procs, Stages, Attempts

(* A repairer or the operation becomes a state, and the other one keeps its *)
(* own.                                                                     *)
LEMMA Becoming ==
    ASSUME proc \in [Repairers -> Procs], NEW a \in Repairers, NEW state \in Procs,
           Become(a, state)
    PROVE  /\ proc' \in [Repairers -> Procs] /\ proc'[a] = state
           /\ \A b \in Repairers \ {a} : proc'[b] = proc[b]
BY DEF Become

(* Taking stale layouts away moves nobody.                                  *)
LEMMA Staleness ==
    ASSUME NEW procs \in [Repairers -> Procs], NEW w,
           proc' = Stale(w, procs)
    PROVE  /\ proc' \in [Repairers -> Procs]
           /\ \A a \in Repairers : proc'[a].pc = procs[a].pc
<1>1. \A a \in Repairers : procs[a] \in Procs
  OBVIOUS
<1>2. \A a \in Repairers : [procs[a] EXCEPT !.fresh = @ \ {w}] \in Procs
  BY <1>1 DEF Procs
<1>3. \A a \in Repairers : proc'[a] = [procs[a] EXCEPT !.fresh = @ \ {w}]
  BY DEF Stale
<1>4. proc' \in [Repairers -> Procs]
  BY <1>2 DEF Stale
<1>5. \A a \in Repairers : [procs[a] EXCEPT !.fresh = @ \ {w}].pc = procs[a].pc
  BY <1>1 DEF Procs
<1>6. QED
  BY <1>3, <1>4, <1>5

(* A post that is sent and one that is lost keep the types.                 *)
LEMMA PostingIsTyped ==
    ASSUME WidthTypeOK, NEW post \in Posts, NEW w \in BarWindows, Posting(post, {w})
    PROVE  posts' \subseteq Posts /\ untold' \subseteq BarWindows
BY DEF Posting, WidthTypeOK

LEMMA NotifiesStep ==
    ASSUME WidthIInv, Notifies, moves' = moves PROVE WidthIInv'
<1>1. WidthTypeOK /\ RequestIsNotLost
  BY DEF WidthIInv
<1> DEFINE state == Idle
<1>2. state \in Procs
  BY <1>1, IdleIsAProc DEF WidthTypeOK, Repairers, Procs, Stages
<1>3. Become("operation", state)
  BY DEF Notifies
<1>4. "operation" \in Repairers /\ proc \in [Repairers -> Procs]
  BY <1>1 DEF WidthTypeOK, Repairers
<1> HIDE DEF state
<1>5. /\ proc' \in [Repairers -> Procs] /\ proc'["operation"] = state
      /\ \A b \in Repairers \ {"operation"} : proc'[b] = proc[b]
  BY <1>2, <1>3, <1>4, Becoming
<1> USE DEF state
<1>6. UNCHANGED <<bar, configured, hint, marker, pending, posts, due, drag, untold>>
      /\ permit' = TRUE
  BY <1>1 DEF Notifies, WidthTypeOK, Adds
<1>7. WidthTypeOK'
  BY <1>1, <1>5, <1>6 DEF WidthTypeOK
<1>8. RequestIsNotLost'
  BY <1>1, <1>4, <1>5, <1>6 DEF Notifies, RequestIsNotLost, At, Repairers, Idle
<1>9. QED
  BY <1>7, <1>8 DEF WidthIInv

LEMMA AddsRequestStep ==
    ASSUME WidthIInv, AddsRequest, moves' = moves PROVE WidthIInv'
<1>1. WidthTypeOK /\ RequestIsNotLost
  BY DEF WidthIInv
<1> DEFINE state == [Idle EXCEPT !.pc = "notify"]
<1>2. state \in Procs
  BY <1>1, IdleIsAProc DEF WidthTypeOK, Repairers, Procs, Stages
<1>3. Become("operation", state)
  BY DEF AddsRequest
<1>4. "operation" \in Repairers /\ proc \in [Repairers -> Procs]
  BY <1>1 DEF WidthTypeOK, Repairers
<1> HIDE DEF state
<1>5. /\ proc' \in [Repairers -> Procs] /\ proc'["operation"] = state
      /\ \A b \in Repairers \ {"operation"} : proc'[b] = proc[b]
  BY <1>2, <1>3, <1>4, Becoming
<1> USE DEF state
<1>6. UNCHANGED <<bar, configured, hint, marker, permit, posts, due, drag>>
      /\ pending' = TRUE /\ untold' = {}
  BY <1>1 DEF AddsRequest, WidthTypeOK, Adds
<1>7. WidthTypeOK'
  BY <1>1, <1>5, <1>6 DEF WidthTypeOK
<1>8. RequestIsNotLost'
  BY <1>1, <1>4, <1>5, <1>6 DEF AddsRequest, RequestIsNotLost, At, Repairers, Idle
<1>9. QED
  BY <1>7, <1>8 DEF WidthIInv

LEMMA LoopWakesStep ==
    ASSUME WidthIInv, LoopWakes, moves' = moves PROVE WidthIInv'
<1>1. WidthTypeOK /\ RequestIsNotLost
  BY DEF WidthIInv
<1> DEFINE state == [Idle EXCEPT !.pc = "take"]
<1>2. state \in Procs
  BY <1>1, IdleIsAProc DEF WidthTypeOK, Repairers, Procs, Stages
<1>3. Become("loop", state)
  BY DEF LoopWakes
<1>4. "loop" \in Repairers /\ proc \in [Repairers -> Procs]
  BY <1>1 DEF WidthTypeOK, Repairers
<1> HIDE DEF state
<1>5. /\ proc' \in [Repairers -> Procs] /\ proc'["loop"] = state
      /\ \A b \in Repairers \ {"loop"} : proc'[b] = proc[b]
  BY <1>2, <1>3, <1>4, Becoming
<1> USE DEF state
<1>6. UNCHANGED <<bar, configured, hint, marker, pending, posts, due, drag, untold>>
      /\ permit' = FALSE
  BY <1>1 DEF LoopWakes, WidthTypeOK, Adds
<1>7. WidthTypeOK'
  BY <1>1, <1>5, <1>6 DEF WidthTypeOK
<1>8. RequestIsNotLost'
  BY <1>1, <1>4, <1>5, <1>6 DEF LoopWakes, RequestIsNotLost, At, Repairers, Idle
<1>9. QED
  BY <1>7, <1>8 DEF WidthIInv

LEMMA LoopTakesStep ==
    ASSUME WidthIInv, LoopTakes, moves' = moves PROVE WidthIInv'
<1>1. WidthTypeOK /\ RequestIsNotLost
  BY DEF WidthIInv
<1> DEFINE state == IF ~pending THEN [Idle EXCEPT !.pc = "over"]
                    ELSE IF {w \in BarWindows : bar[w] # configured} = {} THEN Done("loop")
                    ELSE [Idle EXCEPT !.pc = "check", !.target = configured,
                                      !.left = {w \in BarWindows : bar[w] # configured}]
<1>2. state \in Procs
  BY <1>1, IdleIsAProc DEF WidthTypeOK, Repairers, Procs, Stages, Done, Idle, Attempts
<1>3. Become("loop", state)
  BY DEF LoopTakes
<1>4. "loop" \in Repairers /\ proc \in [Repairers -> Procs]
  BY <1>1 DEF WidthTypeOK, Repairers
<1> HIDE DEF state
<1>5. /\ proc' \in [Repairers -> Procs] /\ proc'["loop"] = state
      /\ \A b \in Repairers \ {"loop"} : proc'[b] = proc[b]
  BY <1>2, <1>3, <1>4, Becoming
<1> USE DEF state
<1>6. UNCHANGED <<bar, configured, hint, marker, permit, posts, due, drag, untold>>
      /\ pending' = FALSE
  BY <1>1 DEF LoopTakes, WidthTypeOK, Adds
<1>7. WidthTypeOK'
  BY <1>1, <1>5, <1>6 DEF WidthTypeOK
<1>8. RequestIsNotLost'
  BY <1>1, <1>4, <1>5, <1>6 DEF LoopTakes, RequestIsNotLost, At, Repairers, Idle
<1>9. QED
  BY <1>7, <1>8 DEF WidthIInv

LEMMA LoopWaitsStep ==
    ASSUME WidthIInv, LoopWaits, moves' = moves PROVE WidthIInv'
<1>1. WidthTypeOK /\ RequestIsNotLost
  BY DEF WidthIInv
<1> DEFINE state == Idle
<1>2. state \in Procs
  BY <1>1, IdleIsAProc DEF WidthTypeOK, Repairers, Procs, Stages
<1>3. Become("loop", state)
  BY DEF LoopWaits
<1>4. "loop" \in Repairers /\ proc \in [Repairers -> Procs]
  BY <1>1 DEF WidthTypeOK, Repairers
<1> HIDE DEF state
<1>5. /\ proc' \in [Repairers -> Procs] /\ proc'["loop"] = state
      /\ \A b \in Repairers \ {"loop"} : proc'[b] = proc[b]
  BY <1>2, <1>3, <1>4, Becoming
<1> USE DEF state
<1>6. UNCHANGED <<bar, configured, hint, marker, pending, permit, posts, due, drag, untold>>
  BY <1>1 DEF LoopWaits, WidthTypeOK, Adds
<1>7. WidthTypeOK'
  BY <1>1, <1>5, <1>6 DEF WidthTypeOK
<1>8. RequestIsNotLost'
  BY <1>1, <1>4, <1>5, <1>6 DEF LoopWaits, RequestIsNotLost, At, Repairers, Idle
<1>9. QED
  BY <1>7, <1>8 DEF WidthIInv

LEMMA SetsHintStep ==
    ASSUME WidthIInv, SetsHint, moves' = moves PROVE WidthIInv'
<1>1. WidthTypeOK /\ RequestIsNotLost
  BY DEF WidthIInv
<1> DEFINE state == [Idle EXCEPT !.pc = "add"]
<1>2. state \in Procs
  BY <1>1, IdleIsAProc DEF WidthTypeOK, Repairers, Procs, Stages
<1>3. Become("operation", state)
  BY DEF SetsHint
<1>4. "operation" \in Repairers /\ proc \in [Repairers -> Procs]
  BY <1>1 DEF WidthTypeOK, Repairers
<1> HIDE DEF state
<1>5. /\ proc' \in [Repairers -> Procs] /\ proc'["operation"] = state
      /\ \A b \in Repairers \ {"operation"} : proc'[b] = proc[b]
  BY <1>2, <1>3, <1>4, Becoming
<1> USE DEF state
<1>6. UNCHANGED <<bar, configured, marker, pending, permit, posts, due, drag, untold>>
      /\ hint' = configured
  BY <1>1 DEF SetsHint, WidthTypeOK, Adds
<1>7. WidthTypeOK'
  BY <1>1, <1>5, <1>6 DEF WidthTypeOK
<1>8. RequestIsNotLost'
  BY <1>1, <1>4, <1>5, <1>6 DEF SetsHint, RequestIsNotLost, At, Repairers, Idle
<1>9. QED
  BY <1>7, <1>8 DEF WidthIInv

(* Whoever repairs is at a stage that is neither waiting nor notifying.     *)
LEMMA DoneStep ==
    ASSUME NEW a \in Repairers
    PROVE  /\ Done(a) \in Procs
           /\ a = "loop" => Done(a).pc = "take"
           /\ a # "loop" => Done(a) = Idle
BY IdleIsAProc DEF Done, Stages, Repairers, Idle

(* A step of a repair keeps the invariant: the loop is not waiting after    *)
(* it, and the operation was not notifying before it.                       *)
LEMMA Repairing ==
    ASSUME WidthIInv, NEW a \in Repairers, ~At(a, "notify"),
           proc' \in [Repairers -> Procs],
           a = "loop" => ~At("loop", "idle")' /\ ~At("loop", "over")',
           \A b \in Repairers \ {a} : proc'[b].pc = proc[b].pc,
           bar' \in [BarWindows -> Widths], due' \subseteq BarWindows,
           untold' \subseteq BarWindows,
           UNCHANGED <<configured, hint, marker, pending, permit, posts, drag, moves>>
    PROVE  WidthIInv'
<1>1. WidthTypeOK /\ RequestIsNotLost
  BY DEF WidthIInv
<1>2. WidthTypeOK'
  BY <1>1 DEF WidthTypeOK
<1>3. RequestIsNotLost'
  BY <1>1 DEF RequestIsNotLost, At, Repairers
<1>4. QED
  BY <1>2, <1>3 DEF WidthIInv

LEMMA LoopChecksStep ==
    ASSUME WidthIInv, NEW w \in BarWindows, LoopChecks(w) PROVE WidthIInv'
<1> DEFINE me == [proc["loop"] EXCEPT !.left = @ \ {w},
                                      !.todo = IF marker = w THEN @ ELSE @ \cup {w}]
           state == IF me.left # {} THEN me ELSE Resize("loop", me)
<1>1. WidthTypeOK /\ proc["loop"] \in Procs /\ "loop" \in Repairers /\ proc["loop"].pc = "check"
  BY DEF WidthIInv, WidthTypeOK, Repairers, LoopChecks, At
<1>2. me \in Procs /\ me.pc = "check" /\ [me EXCEPT !.pc = "list"] \in Procs
      /\ [me EXCEPT !.pc = "list"].pc = "list"
  BY <1>1 DEF Procs, Stages
<1>3. state \in Procs /\ state.pc \in {"check", "take", "list"}
  <2> HIDE DEF me
  <2>1. QED
    BY <1>1, <1>2, DoneStep DEF Resize
<1>4. Become("loop", state)
  BY DEF LoopChecks
<1> HIDE DEF state
<1>5. /\ proc' \in [Repairers -> Procs] /\ proc'["loop"] = state
      /\ \A b \in Repairers \ {"loop"} : proc'[b] = proc[b]
  BY <1>1, <1>3, <1>4, Becoming DEF WidthTypeOK
<1>6. /\ UNCHANGED <<bar, configured, hint, marker, pending, permit, posts, due, drag, moves>>
      /\ untold' \subseteq BarWindows
  BY <1>1 DEF LoopChecks, WidthTypeOK
<1>7. bar' \in [BarWindows -> Widths] /\ due' \subseteq BarWindows
  BY <1>1, <1>6 DEF WidthTypeOK
<1>8. ~At("loop", "notify") /\ ~At("loop", "idle")' /\ ~At("loop", "over")'
  BY <1>1, <1>3, <1>5 DEF At
<1>9. QED
  BY <1>1, <1>5, <1>6, <1>7, <1>8, Repairing

LEMMA ListsStep ==
    ASSUME WidthIInv, NEW a \in Repairers, Lists(a) PROVE WidthIInv'
<1> DEFINE me == proc[a]
           todo == IF me.attempt = 1 THEN me.todo ELSE {w \in me.todo : bar[w] # me.target}
           state == IF todo = {} THEN Done(a)
                    ELSE [me EXCEPT !.pc = "run", !.todo = todo, !.left = todo,
                                    !.fresh = todo]
<1>1. WidthTypeOK /\ me \in Procs /\ me.pc = "list"
  BY DEF WidthIInv, WidthTypeOK, Lists, At
<1>2. todo \subseteq BarWindows
  BY <1>1 DEF Procs
<1>3. state \in Procs /\ (a = "loop" => state.pc \in {"take", "run"})
  <2> HIDE DEF todo
  <2>1. [me EXCEPT !.pc = "run", !.todo = todo, !.left = todo, !.fresh = todo] \in Procs
        /\ [me EXCEPT !.pc = "run", !.todo = todo, !.left = todo, !.fresh = todo].pc = "run"
    BY <1>1, <1>2 DEF Procs, Stages
  <2>2. QED
    BY <2>1, DoneStep
<1>4. Become(a, state)
  BY DEF Lists
<1> HIDE DEF state
<1>5. /\ proc' \in [Repairers -> Procs] /\ proc'[a] = state
      /\ \A b \in Repairers \ {a} : proc'[b] = proc[b]
  BY <1>1, <1>3, <1>4, Becoming DEF WidthTypeOK
<1>6. UNCHANGED <<bar, configured, hint, marker, pending, permit, posts, due, drag, moves,
                  untold>>
  BY DEF Lists
<1>7. bar' \in [BarWindows -> Widths] /\ due' \subseteq BarWindows /\ untold' \subseteq BarWindows
  BY <1>1, <1>6 DEF WidthTypeOK
<1>8. ~At(a, "notify") /\ (a = "loop" => ~At("loop", "idle")' /\ ~At("loop", "over")')
  BY <1>1, <1>3, <1>5 DEF At
<1>9. QED
  BY <1>5, <1>6, <1>7, <1>8, Repairing

LEMMA RunsStep ==
    ASSUME WidthIInv, NEW a \in Repairers, NEW w \in BarWindows, Runs(a, w) PROVE WidthIInv'
<1> DEFINE me == proc[a]
           after == [me EXCEPT !.left = @ \ {w}]
           next == IF after.left # {} THEN after
                   ELSE IF me.attempt = Attempts THEN Done(a)
                   ELSE [after EXCEPT !.pc = "list", !.attempt = @ + 1]
           stepped == [proc EXCEPT ![a] = next]
<1>1. WidthTypeOK /\ me \in Procs /\ me.pc = "run" /\ proc \in [Repairers -> Procs]
  BY DEF WidthIInv, WidthTypeOK, Runs, At
<1>2. after \in Procs /\ after.pc = "run" /\ after.attempt = me.attempt
  BY <1>1 DEF Procs
<1>3. next \in Procs /\ (a = "loop" => next.pc \in {"run", "take", "list"})
  <2> HIDE DEF after
  <2>1. ASSUME me.attempt # Attempts
        PROVE  /\ [after EXCEPT !.pc = "list", !.attempt = @ + 1] \in Procs
               /\ [after EXCEPT !.pc = "list", !.attempt = @ + 1].pc = "list"
    <3>1. after.attempt + 1 \in 1..Attempts
      BY <1>1, <1>2, <2>1 DEF Procs, Attempts
    <3>2. QED
      BY <1>2, <3>1 DEF Procs, Stages
  <2>2. QED
    BY <1>2, <2>1, DoneStep
<1> HIDE DEF next
<1>4. /\ stepped \in [Repairers -> Procs] /\ stepped[a] = next
      /\ \A b \in Repairers \ {a} : stepped[b] = proc[b]
  BY <1>1, <1>3
<1>5. proc' = stepped \/ proc' = Stale(w, stepped)
  BY DEF Runs, next
<1> HIDE DEF stepped
<1>6. /\ proc' \in [Repairers -> Procs]
      /\ \A b \in Repairers : proc'[b].pc = stepped[b].pc
  BY <1>4, <1>5, Staleness
<1>7. UNCHANGED <<configured, hint, marker, pending, permit, posts, drag, moves, untold>>
  BY DEF Runs
<1>8. bar' \in [BarWindows -> Widths] /\ due' \subseteq BarWindows /\ untold' \subseteq BarWindows
  <2>1. me.target \in Widths
    BY <1>1 DEF Procs
  <2>2. \/ bar' = [bar EXCEPT ![w] = me.target] /\ due' = due \cup {w}
        \/ UNCHANGED <<bar, due>>
    BY DEF Runs, Takes
  <2>3. QED
    BY <1>1, <1>7, <2>1, <2>2 DEF WidthTypeOK
<1>9. ~At(a, "notify") /\ (a = "loop" => ~At("loop", "idle")' /\ ~At("loop", "over")')
  BY <1>1, <1>3, <1>4, <1>6 DEF At
<1>10. QED
  BY <1>4, <1>6, <1>7, <1>8, <1>9, Repairing

(* What users and tmux do moves neither the loop nor the operation.         *)
LEMMA Outside ==
    ASSUME WidthIInv, WidthTypeOK', UNCHANGED <<pending, permit>>,
           \A a \in Repairers : proc'[a].pc = proc[a].pc
    PROVE  WidthIInv'
BY DEF WidthIInv, RequestIsNotLost, At, Repairers

LEMMA HookRunsStep ==
    ASSUME WidthIInv, NEW w \in BarWindows, HookRuns(w) PROVE WidthIInv'
<1>1. WidthTypeOK /\ <<"repair", w>> \in Posts
  BY DEF WidthIInv, Posts
<1>2. posts' \subseteq Posts /\ untold' \subseteq BarWindows
  BY <1>1, PostingIsTyped DEF HookRuns, WidthTypeOK
<1>3. QED
  <2>1. WidthTypeOK'
    BY <1>1, <1>2 DEF HookRuns, WidthTypeOK
  <2>2. UNCHANGED <<pending, permit, proc>>
    BY DEF HookRuns
  <2>3. QED
    BY <2>1, <2>2, Outside

LEMMA DragMovesStep ==
    ASSUME WidthIInv, NEW v \in Widths, DragMoves(v) PROVE WidthIInv'
<1>1. WidthTypeOK /\ proc' = Stale(drag.window, proc)
  BY DEF WidthIInv, DragMoves
<1>2. proc' \in [Repairers -> Procs] /\ \A a \in Repairers : proc'[a].pc = proc[a].pc
  BY <1>1, Staleness DEF WidthTypeOK
<1>3. bar' \in [BarWindows -> Widths]
  BY <1>1 DEF DragMoves, Takes, WidthTypeOK
<1>4. due' = due \cup {drag.window} /\ drag.window \in BarWindows
      /\ drag' = [drag EXCEPT !.pc = "moved"]
      /\ UNCHANGED <<configured, hint, marker, pending, permit, posts, moves, untold>>
  BY <1>1 DEF DragMoves, WidthTypeOK, NoDrag
<1>4a. drag' \in [pc : {"marked", "moved", "read", "unmark"}, window : BarWindows, width : Widths]
  BY <1>1, <1>4 DEF DragMoves, WidthTypeOK, NoDrag
<1>5. WidthTypeOK'
  BY <1>1, <1>2, <1>3, <1>4, <1>4a DEF WidthTypeOK
<1>6. QED
  BY <1>2, <1>4, <1>5, Outside

LEMMA DragReadsStep ==
    ASSUME WidthIInv, DragReads PROVE WidthIInv'
<1>1. WidthTypeOK /\ drag.pc = "moved"
  BY DEF WidthIInv, DragReads
<1>2. drag \in [pc : {"marked", "moved", "read", "unmark"}, window : BarWindows, width : Widths]
  BY <1>1 DEF WidthTypeOK, NoDrag
<1>3. bar[drag.window] \in Widths
  BY <1>1, <1>2 DEF WidthTypeOK
<1>4. drag' \in [pc : {"marked", "moved", "read", "unmark"}, window : BarWindows, width : Widths]
  BY <1>2, <1>3 DEF DragReads
<1>5. UNCHANGED <<bar, configured, hint, marker, pending, permit, proc, posts, due,
                  moves, untold>>
  BY DEF DragReads
<1>6. WidthTypeOK'
  BY <1>1, <1>4, <1>5 DEF WidthTypeOK
<1>7. QED
  BY <1>5, <1>6, Outside

LEMMA DragReportsStep ==
    ASSUME WidthIInv, DragReports PROVE WidthIInv'
<1>1. WidthTypeOK /\ drag.pc = "read"
  BY DEF WidthIInv, DragReports
<1>2. drag \in [pc : {"marked", "moved", "read", "unmark"}, window : BarWindows, width : Widths]
  BY <1>1 DEF WidthTypeOK, NoDrag
<1>3. drag' \in [pc : {"marked", "moved", "read", "unmark"}, window : BarWindows, width : Widths]
  BY <1>2 DEF DragReports
<1>4. <<"set", drag.width>> \in Posts
  BY <1>2 DEF Posts
<1>5. posts' \subseteq Posts /\ untold' \subseteq BarWindows
  <2>1. CASE drag.width # hint
    <3>1. Posting(<<"set", drag.width>>, {drag.window})
      BY <2>1 DEF DragReports
    <3>2. QED
      BY <1>1, <1>2, <1>4, <3>1, PostingIsTyped
  <2>2. CASE drag.width = hint
    BY <1>1, <2>2 DEF DragReports, WidthTypeOK
  <2>3. QED
    BY <2>1, <2>2
<1>6. UNCHANGED <<bar, configured, hint, marker, pending, permit, proc, due, moves>>
  BY DEF DragReports
<1>7. WidthTypeOK'
  BY <1>1, <1>3, <1>5, <1>6 DEF WidthTypeOK
<1>8. QED
  BY <1>6, <1>7, Outside

LEMMA DragUnmarksStep ==
    ASSUME WidthIInv, DragUnmarks PROVE WidthIInv'
<1>1. WidthTypeOK'
  BY DEF WidthIInv, WidthTypeOK, DragUnmarks
<1>2. UNCHANGED <<pending, permit, proc>>
  BY DEF DragUnmarks
<1>3. QED
  BY <1>1, <1>2, Outside

LEMMA DragStartsStep ==
    ASSUME WidthIInv, NEW w \in BarWindows, DragStarts(w), moves' \in 0..MaxMoves PROVE WidthIInv'
<1>1. drag' \in [pc : {"marked", "moved", "read", "unmark"}, window : BarWindows, width : Widths]
  BY IdleIsAProc DEF DragStarts, NoDrag
<1>2. WidthTypeOK'
  BY <1>1 DEF WidthIInv, WidthTypeOK, DragStarts
<1>3. UNCHANGED <<pending, permit, proc>>
  BY DEF DragStarts
<1>4. QED
  BY <1>2, <1>3, Outside

LEMMA RedistributesStep ==
    ASSUME WidthIInv, NEW w \in BarWindows, NEW v \in Widths, Redistributes(w, v),
           moves' \in 0..MaxMoves
    PROVE  WidthIInv'
<1>1. WidthTypeOK /\ proc' = Stale(w, proc) /\ <<"resized">> \in Posts
  BY DEF WidthIInv, Redistributes, Posts
<1>2. proc' \in [Repairers -> Procs] /\ \A a \in Repairers : proc'[a].pc = proc[a].pc
  BY <1>1, Staleness DEF WidthTypeOK
<1>3. posts' \subseteq Posts /\ untold' \subseteq BarWindows
  BY <1>1, PostingIsTyped DEF Redistributes
<1>4. bar' \in [BarWindows -> Widths]
  BY <1>1 DEF Redistributes, Takes, WidthTypeOK
<1>5. UNCHANGED <<configured, hint, marker, pending, permit, due, drag>>
  BY DEF Redistributes
<1>6. WidthTypeOK'
  BY <1>1, <1>2, <1>3, <1>4, <1>5 DEF WidthTypeOK
<1>7. QED
  BY <1>2, <1>5, <1>6, Outside

LEMMA ResizesPaneStep ==
    ASSUME WidthIInv, NEW w \in BarWindows, NEW v \in Widths, ResizesPane(w, v),
           moves' \in 0..MaxMoves
    PROVE  WidthIInv'
<1>1. WidthTypeOK /\ proc' = Stale(w, proc)
  BY DEF WidthIInv, ResizesPane
<1>2. proc' \in [Repairers -> Procs] /\ \A a \in Repairers : proc'[a].pc = proc[a].pc
  BY <1>1, Staleness DEF WidthTypeOK
<1>3. bar' \in [BarWindows -> Widths] /\ due' \subseteq BarWindows
  BY <1>1 DEF ResizesPane, Takes, WidthTypeOK
<1>4. UNCHANGED <<configured, hint, marker, pending, permit, posts, drag, untold>>
  BY DEF ResizesPane
<1>5. WidthTypeOK'
  BY <1>1, <1>2, <1>3, <1>4 DEF WidthTypeOK
<1>6. QED
  BY <1>2, <1>4, <1>5, Outside

(* An operation starts when none holds the lock: neither the count nor the  *)
(* permit changes, and nobody was notifying.                                *)
LEMMA Starting ==
    ASSUME WidthIInv, At("operation", "idle"), NEW state \in Procs, Become("operation", state),
           configured' \in Widths, posts' \subseteq Posts, untold' \subseteq BarWindows,
           moves' \in 0..MaxMoves,
           UNCHANGED <<bar, hint, marker, pending, permit, due, drag>>
    PROVE  WidthIInv'
<1>1. WidthTypeOK /\ RequestIsNotLost /\ "operation" \in Repairers
  BY DEF WidthIInv, Repairers
<1>2. /\ proc' \in [Repairers -> Procs]
      /\ \A b \in Repairers \ {"operation"} : proc'[b] = proc[b]
  BY <1>1, Becoming DEF WidthTypeOK
<1>3. WidthTypeOK'
  BY <1>1, <1>2 DEF WidthTypeOK
<1>4. RequestIsNotLost'
  BY <1>1, <1>2 DEF RequestIsNotLost, At, Repairers
<1>5. QED
  BY <1>3, <1>4 DEF WidthIInv

LEMMA SetsWidthStep ==
    ASSUME WidthIInv, NEW v \in Widths, SetsWidth(v), posts' \subseteq Posts, moves' \in 0..MaxMoves
    PROVE  WidthIInv'
<1>1. [Idle EXCEPT !.pc = "hint"] \in Procs
  BY IdleIsAProc DEF Stages
<1>2. QED
  BY <1>1, Starting DEF SetsWidth, WidthIInv, WidthTypeOK

LEMMA RepairsPaneStep ==
    ASSUME WidthIInv, NEW w \in BarWindows, RepairsPane(w), posts' \subseteq Posts,
           moves' \in 0..MaxMoves
    PROVE  WidthIInv'
<1> DEFINE resized == [Idle EXCEPT !.target = configured, !.todo = {w}]
           state == IF marker = w THEN Idle ELSE Resize("operation", resized)
<1>1. WidthTypeOK
  BY DEF WidthIInv
<1>2. resized \in Procs /\ [resized EXCEPT !.pc = "list"] \in Procs
  <2>1. Idle \in Procs /\ configured \in Widths /\ {w} \in SUBSET BarWindows
    BY <1>1, IdleIsAProc DEF WidthTypeOK
  <2>2. resized \in Procs
    BY <2>1 DEF Procs
  <2>3. QED
    <3> HIDE DEF resized
    <3>1. QED
      BY <2>2 DEF Procs, Stages
<1>3. state \in Procs
  <2>1. Resize("operation", resized) \in Procs
    <3> HIDE DEF resized
    <3>1. Done("operation") \in Procs
      BY DoneStep DEF Repairers
    <3>2. QED
      BY <1>2, <3>1 DEF Resize
  <2>2. QED
    BY <2>1, IdleIsAProc
<1>4. Become("operation", state)
  BY DEF RepairsPane
<1> HIDE DEF state
<1>5. untold' \subseteq BarWindows /\ configured' \in Widths
  BY <1>1 DEF RepairsPane, WidthTypeOK
<1>6. At("operation", "idle") /\ UNCHANGED <<bar, hint, marker, pending, permit, due, drag>>
  BY DEF RepairsPane
<1>7. QED
  BY <1>3, <1>4, <1>5, <1>6, Starting

LEMMA RequestsRepairStep ==
    ASSUME WidthIInv, RequestsRepair, posts' \subseteq Posts, moves' \in 0..MaxMoves
    PROVE  WidthIInv'
<1>1. [Idle EXCEPT !.pc = "add"] \in Procs
  BY IdleIsAProc DEF Stages
<1>2. QED
  BY <1>1, Starting DEF RequestsRepair, WidthIInv, WidthTypeOK

LEMMA ServesStep ==
    ASSUME WidthIInv, NEW post \in Posts, Serves(post) PROVE WidthIInv'
<1>1. posts' \subseteq Posts /\ moves' \in 0..MaxMoves
  BY DEF Serves, WidthIInv, WidthTypeOK
<1>2. CASE RequestsRepair
  BY <1>1, <1>2, RequestsRepairStep
<1>3. CASE \E w \in BarWindows : RepairsPane(w)
  BY <1>1, <1>3, RepairsPaneStep
<1>4. CASE \E v \in Widths : SetsWidth(v)
  BY <1>1, <1>4, SetsWidthStep
<1>5. QED
  BY <1>2, <1>3, <1>4 DEF Serves

LEMMA MovesStep ==
    ASSUME WidthIInv, Moves, moves < MaxMoves, moves' = moves + 1 PROVE WidthIInv'
<1>1. moves' \in 0..MaxMoves
  BY WidthsAssumption DEF WidthIInv, WidthTypeOK
<1>2. CASE \E w \in BarWindows : DragStarts(w)
  BY <1>1, <1>2, DragStartsStep
<1>3. CASE \E w \in BarWindows : Asks(w)
  BY <1>1, <1>3, RepairsPaneStep DEF Asks, WidthIInv, WidthTypeOK
<1>4. CASE \E w \in BarWindows, v \in Widths : Redistributes(w, v)
  BY <1>1, <1>4, RedistributesStep
<1>5. CASE \E w \in BarWindows, v \in Widths : ResizesPane(w, v)
  BY <1>1, <1>5, ResizesPaneStep
<1>6. CASE \E v \in Widths : Slides(v)
  BY <1>1, <1>6, SetsWidthStep DEF Slides, WidthIInv, WidthTypeOK
<1>7. QED
  BY <1>2, <1>3, <1>4, <1>5, <1>6 DEF Moves

LEMMA StutterStep ==
    ASSUME WidthIInv, UNCHANGED widthVars PROVE WidthIInv'
BY DEF WidthIInv, WidthTypeOK, RequestIsNotLost, At, widthVars

(* The initial states.                                                      *)
LEMMA WidthInitially == WidthInit => WidthIInv
<1> SUFFICES ASSUME WidthInit PROVE WidthIInv
  OBVIOUS
<1>1. WidthTypeOK
  <2>1. proc \in [Repairers -> Procs]
    BY IdleIsAProc DEF WidthInit
  <2>2. bar \in [BarWindows -> Widths] /\ configured \in Widths /\ hint \in Widths
    BY DEF WidthInit
  <2>3. drag = NoDrag /\ moves \in 0..MaxMoves
    BY WidthsAssumption DEF WidthInit
  <2>4. QED
    BY <2>1, <2>2, <2>3 DEF WidthInit, WidthTypeOK
<1>2. RequestIsNotLost
  BY DEF WidthInit, RequestIsNotLost
<1>3. QED
  BY <1>1, <1>2 DEF WidthIInv

(* Every step.                                                              *)
LEMMA WidthInductive == WidthIInv /\ [WidthNext]_widthVars => WidthIInv'
<1> SUFFICES ASSUME WidthIInv, [WidthNext]_widthVars PROVE WidthIInv'
  OBVIOUS
<1>1. CASE Moves /\ moves < MaxMoves /\ moves' = moves + 1
  BY <1>1, MovesStep
<1>2. CASE LoopStep
  <2>1. CASE LoopWakes
    BY <2>1, LoopWakesStep DEF LoopWakes
  <2>2. CASE LoopTakes
    BY <2>2, LoopTakesStep DEF LoopTakes
  <2>3. CASE LoopWaits
    BY <2>3, LoopWaitsStep DEF LoopWaits
  <2>4. CASE Lists("loop")
    BY <2>4, ListsStep DEF Repairers
  <2>5. CASE \E w \in BarWindows : LoopChecks(w)
    BY <2>5, LoopChecksStep
  <2>6. CASE \E w \in BarWindows : Runs("loop", w)
    BY <2>6, RunsStep DEF Repairers
  <2>7. QED
    BY <1>2, <2>1, <2>2, <2>3, <2>4, <2>5, <2>6 DEF LoopStep
<1>3. CASE RepairStep
  <2>1. CASE SetsHint
    BY <2>1, SetsHintStep DEF SetsHint
  <2>2. CASE AddsRequest
    BY <2>2, AddsRequestStep DEF AddsRequest
  <2>3. CASE Notifies
    BY <2>3, NotifiesStep DEF Notifies
  <2>4. CASE Lists("operation")
    BY <2>4, ListsStep DEF Repairers
  <2>5. CASE \E w \in BarWindows : Runs("operation", w)
    BY <2>5, RunsStep DEF Repairers
  <2>6. QED
    BY <1>3, <2>1, <2>2, <2>3, <2>4, <2>5 DEF RepairStep
<1>4. CASE DragStep
  BY <1>4, DragReadsStep, DragReportsStep, DragUnmarksStep, DragMovesStep DEF DragStep
<1>5. CASE \E post \in Posts : Serves(post)
  BY <1>5, ServesStep
<1>6. CASE \E w \in BarWindows : HookRuns(w)
  BY <1>6, HookRunsStep
<1>7. CASE UNCHANGED widthVars
  BY <1>7, StutterStep
<1>8. QED
  BY <1>1, <1>2, <1>3, <1>4, <1>5, <1>6, <1>7 DEF WidthNext, Work

(* For any windows, widths and number of moves, every state is typed.       *)
THEOREM WidthsTypeCorrect == WidthSpec => []WidthTypeOK
<1>1. WidthIInv => WidthTypeOK
  BY DEF WidthIInv
<1>2. QED
  BY <1>1, WidthInitially, WidthInductive, PTL DEF WidthSpec

(* For any windows and widths: no request for a repair is lost between the  *)
(* loop's last look at the count and its wait (SidebarWidthRepairScheduler  *)
(* and run_coalesced_sidebar_width_repairs).                                *)
THEOREM NoRequestIsLost == WidthSpec => []RequestIsNotLost
<1>1. WidthIInv => RequestIsNotLost
  BY DEF WidthIInv
<1>2. QED
  BY <1>1, WidthInitially, WidthInductive, PTL DEF WidthSpec
=============================================================================
