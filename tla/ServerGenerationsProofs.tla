----------------------- MODULE ServerGenerationsProofs -----------------------
(***************************************************************************)
(* Proofs about ServerGenerations, for any set of processes and any number *)
(* of lost files, outages and upgrades: the types, the hooks a serving     *)
(* generation keeps, the token beside its pid, that nobody waits for the   *)
(* lock while it serves, that a clean exit leaves no identity of its own   *)
(* behind, and the refinement of GenerationRegistry.                       *)
(*                                                                         *)
(* The argument is about who may write the token file.  Only the process   *)
(* that holds the port publishes or repairs, so once it serves the token   *)
(* file holds its token or nothing; a process that cleans up found its own *)
(* token there while it held the lock, so none serves, and none begins to  *)
(* while it keeps the lock.                                                *)
(***************************************************************************)
EXTENDS ServerGenerations, TLAPS

StartPhases    == {"new", "bound", "publishing", "tokened"}
PortPhases     == {"bound", "publishing", "tokened", "serving", "draining"}
CleaningPhases == {"unhooking", "removing", "removingToken"}

(* Who holds the port and the lock, and which task may be running.          *)
PortHeld == \A s \in Servers : gen[s].pc \in PortPhases <=> port = s
LockHeld ==
    \A s \in Servers :
        (\/ gen[s].pc \in {"publishing", "tokened"} \cup CleaningPhases
         \/ gen[s].identity \in {"token", "pid"}) => lock = s
IdentityServes == \A s \in Servers : gen[s].identity # "off" => Serves(s)

(* What the files can hold.                                                 *)
TokenIsOwn == \A s \in Servers : Serves(s) => tokenFile \in {s, NoServer}
CleaningAlone ==
    \A s \in Servers : gen[s].pc \in CleaningPhases
                           => \A t \in Servers : ~Serves(t)
NotYetServed ==
    \A s \in Servers : gen[s].pc \in StartPhases =>
        /\ pidFile # s
        /\ gen[s].startup = "none"
        /\ ~gen[s].installed
TokenWritten ==
    \A s \in Servers : gen[s].pc = "tokened" \/ gen[s].identity = "pid" =>
        /\ tokenFile \in {s, NoServer}
        /\ tampers = 0 => tokenFile = s

IInv == /\ TypeOK
        /\ PortHeld /\ LockHeld /\ IdentityServes
        /\ TokenIsOwn /\ CleaningAlone /\ NotYetServed /\ TokenWritten
        /\ ServingKeepsHooks /\ PidComesWithToken

-----------------------------------------------------------------------------
(* A step of one process replaces its record and leaves the others alone.   *)
LEMMA Becoming ==
    ASSUME TypeOK, NEW s \in Servers, NEW g \in Generations, Becomes(s, g)
    PROVE  /\ gen' \in [Servers -> Generations]
           /\ gen'[s] = g
           /\ \A t \in Servers : t # s => gen'[t] = gen[t]
  BY DEF TypeOK, Becomes

(* What the signal, a probe and a crash leave of a process.                 *)
LEMMA Records ==
    /\ \A g \in Generations :
          /\ Signalled(g) \in Generations
          /\ [Signalled(g) EXCEPT !.announced = TRUE] \in Generations
          /\ Signalled(g).pc = g.pc
          /\ Signalled(g).identity = g.identity
          /\ Signalled(g).startup = g.startup
          /\ Signalled(g).installed = g.installed
          /\ g.watcher = "watching" =>
                /\ Probed(g) \in Generations
                /\ Probed(g).pc = g.pc
                /\ Probed(g).identity = g.identity
                /\ Probed(g).startup = g.startup
                /\ Probed(g).installed = g.installed
    /\ [NewGeneration EXCEPT !.pc = "crashed"] \in Generations
<1> USE DEF Generations
<1>1. ASSUME NEW g \in Generations
      PROVE  /\ Signalled(g) \in Generations
             /\ Signalled(g).pc = g.pc
             /\ Signalled(g).identity = g.identity
             /\ Signalled(g).startup = g.startup
             /\ Signalled(g).installed = g.installed
  BY DEF Signalled
<1>2. ASSUME NEW g \in Generations
      PROVE  [g EXCEPT !.announced = TRUE] \in Generations
  OBVIOUS
<1>3. ASSUME NEW g \in Generations, g.watcher = "watching"
      PROVE  /\ Probed(g) \in Generations
             /\ Probed(g).pc = g.pc
             /\ Probed(g).identity = g.identity
             /\ Probed(g).startup = g.startup
             /\ Probed(g).installed = g.installed
  <2>1. CASE tmux
    BY <2>1 DEF Probed, Missed
  <2>2. CASE ~tmux /\ g.misses + 1 < Missed
    BY <2>2 DEF Probed, Missed
  <2>3. CASE ~tmux /\ ~(g.misses + 1 < Missed)
    <3> DEFINE a == [g EXCEPT !.misses = 2]
               b == [a EXCEPT !.signalled = TRUE]
               c == [b EXCEPT !.watcher = "done"]
               Same(x, y) == /\ x.pc = y.pc /\ x.identity = y.identity
                             /\ x.startup = y.startup /\ x.installed = y.installed
    <3>1. Probed(g) = c
      BY <2>3 DEF Probed, Missed
    <3>2. a \in Generations /\ Same(a, g)
      BY DEF Missed
    <3> HIDE DEF a
    <3>3. b \in Generations /\ Same(b, a)
      BY <3>2
    <3> HIDE DEF b
    <3>4. c \in Generations /\ Same(c, b)
      BY <3>3
    <3> QED BY <3>1, <3>2, <3>3, <3>4
  <2> QED BY <2>1, <2>2, <2>3
<1>4. [NewGeneration EXCEPT !.pc = "crashed"] \in Generations
  <2>1. NewGeneration \in Generations
    BY DEF NewGeneration, Phases, Missed
  <2>2. \A g \in Generations : [g EXCEPT !.pc = "crashed"] \in Generations
    BY DEF Phases
  <2> QED BY <2>1, <2>2
<1> QED BY <1>1, <1>2, <1>3, <1>4

(* Every step keeps the inductive invariant.                                *)
LEMMA InvariantStep == IInv /\ [Next]_vars => IInv'
<1> SUFFICES ASSUME IInv, [Next]_vars PROVE IInv'
  OBVIOUS
<1> USE GenerationAssumption
<1>t. TypeOK /\ gen \in [Servers -> Generations]
  BY DEF IInv, TypeOK
<1>1. ASSUME NEW s \in Servers, BindPort(s) PROVE IInv'
  <2> DEFINE g == [gen[s] EXCEPT !.pc = "bound"]
  <2>1. g \in Generations
    BY <1>t, <1>1 DEF BindPort, Generations, Phases
  <2>2. /\ g.pc = "bound"
        /\ g.startup = gen[s].startup
        /\ g.identity = gen[s].identity
        /\ g.installed = gen[s].installed
    BY <1>t DEF Generations
  <2>3. /\ gen' \in [Servers -> Generations]
        /\ gen'[s] = g
        /\ \A t \in Servers : t # s => gen'[t] = gen[t]
    BY <1>t, <1>1, <2>1, Becoming DEF BindPort, Goto
  <2> HIDE DEF g
  <2>4. TypeOK'
    BY <1>t, <1>1, <2>3 DEF BindPort, TypeOK, ServerOrNone, files, bounds
  <2> QED
    BY <1>t, <1>1, <2>2, <2>3, <2>4
       DEF BindPort, IInv, PortHeld, LockHeld, IdentityServes, TokenIsOwn, CleaningAlone,
           NotYetServed, TokenWritten, ServingKeepsHooks, PidComesWithToken,
           StartPhases, PortPhases, CleaningPhases, Serves, TypeOK, files, bounds
<1>2. ASSUME NEW s \in Servers, BindRefused(s) PROVE IInv'
  <2> DEFINE g == [gen[s] EXCEPT !.pc = "failed"]
  <2>1. g \in Generations
    BY <1>t, <1>2 DEF BindRefused, Generations, Phases
  <2>2. /\ g.pc = "failed"
        /\ g.startup = gen[s].startup
        /\ g.identity = gen[s].identity
        /\ g.installed = gen[s].installed
    BY <1>t DEF Generations
  <2>3. /\ gen' \in [Servers -> Generations]
        /\ gen'[s] = g
        /\ \A t \in Servers : t # s => gen'[t] = gen[t]
    BY <1>t, <1>2, <2>1, Becoming DEF BindRefused, Goto
  <2> HIDE DEF g
  <2>4. TypeOK'
    BY <1>t, <1>2, <2>3 DEF BindRefused, TypeOK, ServerOrNone, files, bounds
  <2> QED
    BY <1>t, <1>2, <2>2, <2>3, <2>4
       DEF BindRefused, IInv, PortHeld, LockHeld, IdentityServes, TokenIsOwn, CleaningAlone,
           NotYetServed, TokenWritten, ServingKeepsHooks, PidComesWithToken,
           StartPhases, PortPhases, CleaningPhases, Serves, TypeOK, files, bounds
<1>3. ASSUME NEW s \in Servers, LockForPublish(s) PROVE IInv'
  <2> DEFINE g == [gen[s] EXCEPT !.pc = "publishing"]
  <2>1. g \in Generations
    BY <1>t, <1>3 DEF LockForPublish, Generations, Phases
  <2>2. /\ g.pc = "publishing"
        /\ g.startup = gen[s].startup
        /\ g.identity = gen[s].identity
        /\ g.installed = gen[s].installed
    BY <1>t DEF Generations
  <2>3. /\ gen' \in [Servers -> Generations]
        /\ gen'[s] = g
        /\ \A t \in Servers : t # s => gen'[t] = gen[t]
    BY <1>t, <1>3, <2>1, Becoming DEF LockForPublish, Goto
  <2> HIDE DEF g
  <2>4. TypeOK'
    BY <1>t, <1>3, <2>3 DEF LockForPublish, TypeOK, ServerOrNone, files, bounds
  <2> QED
    BY <1>t, <1>3, <2>2, <2>3, <2>4
       DEF LockForPublish, IInv, PortHeld, LockHeld, IdentityServes, TokenIsOwn, CleaningAlone,
           NotYetServed, TokenWritten, ServingKeepsHooks, PidComesWithToken,
           StartPhases, PortPhases, CleaningPhases, Serves, TypeOK, files, bounds
<1>4. ASSUME NEW s \in Servers, PublishToken(s) PROVE IInv'
  <2> DEFINE g == [gen[s] EXCEPT !.pc = "tokened"]
  <2>1. g \in Generations
    BY <1>t, <1>4 DEF PublishToken, Generations, Phases
  <2>2. /\ g.pc = "tokened"
        /\ g.startup = gen[s].startup
        /\ g.identity = gen[s].identity
        /\ g.installed = gen[s].installed
    BY <1>t DEF Generations
  <2>3. /\ gen' \in [Servers -> Generations]
        /\ gen'[s] = g
        /\ \A t \in Servers : t # s => gen'[t] = gen[t]
    BY <1>t, <1>4, <2>1, Becoming DEF PublishToken, Goto
  <2> HIDE DEF g
  <2>4. TypeOK'
    BY <1>t, <1>4, <2>3 DEF PublishToken, TypeOK, ServerOrNone, files, bounds
  <2> QED
    BY <1>t, <1>4, <2>2, <2>3, <2>4
       DEF PublishToken, IInv, PortHeld, LockHeld, IdentityServes, TokenIsOwn, CleaningAlone,
           NotYetServed, TokenWritten, ServingKeepsHooks, PidComesWithToken,
           StartPhases, PortPhases, CleaningPhases, Serves, TypeOK, files, bounds
<1>5. ASSUME NEW s \in Servers, PublishPid(s) PROVE IInv'
  <2> DEFINE g == [gen[s] EXCEPT !.pc = "serving", !.startup = "hooks", !.identity = "running"]
  <2>1. g \in Generations
    BY <1>t, <1>5 DEF PublishPid, Generations, Phases
  <2>2. /\ g.pc = "serving"
        /\ g.startup = "hooks"
        /\ g.identity = "running"
        /\ g.installed = gen[s].installed
    BY <1>t DEF Generations
  <2>3. /\ gen' \in [Servers -> Generations]
        /\ gen'[s] = g
        /\ \A t \in Servers : t # s => gen'[t] = gen[t]
    BY <1>t, <1>5, <2>1, Becoming DEF PublishPid
  <2> HIDE DEF g
  <2>4. TypeOK'
    BY <1>t, <1>5, <2>3 DEF PublishPid, TypeOK, ServerOrNone, files, bounds
  <2> QED
    BY <1>t, <1>5, <2>2, <2>3, <2>4
       DEF PublishPid, IInv, PortHeld, LockHeld, IdentityServes, TokenIsOwn, CleaningAlone,
           NotYetServed, TokenWritten, ServingKeepsHooks, PidComesWithToken,
           StartPhases, PortPhases, CleaningPhases, Serves, TypeOK, files, bounds
<1>6. ASSUME NEW s \in Servers, PublishFails(s) PROVE IInv'
  <2> DEFINE g == [gen[s] EXCEPT !.pc = "failed"]
  <2>1. g \in Generations
    BY <1>t, <1>6 DEF PublishFails, Generations, Phases
  <2>2. /\ g.pc = "failed"
        /\ g.startup = gen[s].startup
        /\ g.identity = gen[s].identity
        /\ g.installed = gen[s].installed
    BY <1>t DEF Generations
  <2>3. /\ gen' \in [Servers -> Generations]
        /\ gen'[s] = g
        /\ \A t \in Servers : t # s => gen'[t] = gen[t]
    BY <1>t, <1>6, <2>1, Becoming DEF PublishFails, Goto
  <2> HIDE DEF g
  <2>4. TypeOK'
    BY <1>t, <1>6, <2>3 DEF PublishFails, TypeOK, ServerOrNone, files, bounds
  <2> QED
    BY <1>t, <1>6, <2>2, <2>3, <2>4
       DEF PublishFails, IInv, PortHeld, LockHeld, IdentityServes, TokenIsOwn, CleaningAlone,
           NotYetServed, TokenWritten, ServingKeepsHooks, PidComesWithToken,
           StartPhases, PortPhases, CleaningPhases, Serves, TypeOK, files, bounds
<1>7. ASSUME NEW s \in Servers, InstallHooks(s) PROVE IInv'
  <2> DEFINE g == [gen[s] EXCEPT !.startup = "snapshot", !.installed = tmux]
  <2>1. g \in Generations
    BY <1>t, <1>7 DEF InstallHooks, Generations, Phases, TypeOK
  <2>2. /\ g.pc = gen[s].pc
        /\ g.startup = "snapshot"
        /\ g.identity = gen[s].identity
        /\ g.installed = tmux
    BY <1>t DEF Generations
  <2>3. /\ gen' \in [Servers -> Generations]
        /\ gen'[s] = g
        /\ \A t \in Servers : t # s => gen'[t] = gen[t]
    BY <1>t, <1>7, <2>1, Becoming DEF InstallHooks
  <2> HIDE DEF g
  <2>4. TypeOK'
    BY <1>t, <1>7, <2>3 DEF InstallHooks, TypeOK, ServerOrNone, files, bounds
  <2> QED
    BY <1>t, <1>7, <2>2, <2>3, <2>4
       DEF InstallHooks, IInv, PortHeld, LockHeld, IdentityServes, TokenIsOwn, CleaningAlone,
           NotYetServed, TokenWritten, ServingKeepsHooks, PidComesWithToken,
           StartPhases, PortPhases, CleaningPhases, Serves, TypeOK, files, bounds
<1>8. ASSUME NEW s \in Servers, FinishStartup(s) PROVE IInv'
  <2> DEFINE g == [gen[s] EXCEPT !.startup = "done", !.watcher = IF gen[s].announced THEN "none" ELSE "starting"]
  <2>1. g \in Generations
    BY <1>t, <1>8 DEF FinishStartup, Generations, Phases
  <2>2. /\ g.pc = gen[s].pc
        /\ g.startup = "done"
        /\ g.identity = gen[s].identity
        /\ g.installed = gen[s].installed
    BY <1>t DEF Generations
  <2>3. /\ gen' \in [Servers -> Generations]
        /\ gen'[s] = g
        /\ \A t \in Servers : t # s => gen'[t] = gen[t]
    BY <1>t, <1>8, <2>1, Becoming DEF FinishStartup
  <2> HIDE DEF g
  <2>4. TypeOK'
    BY <1>t, <1>8, <2>3 DEF FinishStartup, TypeOK, ServerOrNone, files, bounds
  <2> QED
    BY <1>t, <1>8, <2>2, <2>3, <2>4
       DEF FinishStartup, IInv, PortHeld, LockHeld, IdentityServes, TokenIsOwn, CleaningAlone,
           NotYetServed, TokenWritten, ServingKeepsHooks, PidComesWithToken,
           StartPhases, PortPhases, CleaningPhases, Serves, TypeOK, files, bounds
<1>9. ASSUME NEW s \in Servers, BeginRepair(s) PROVE IInv'
  <2> DEFINE g == [gen[s] EXCEPT !.identity = "token"]
  <2>1. g \in Generations
    BY <1>t, <1>9 DEF BeginRepair, Generations, Phases
  <2>2. /\ g.pc = gen[s].pc
        /\ g.startup = gen[s].startup
        /\ g.identity = "token"
        /\ g.installed = gen[s].installed
    BY <1>t DEF Generations
  <2>3. /\ gen' \in [Servers -> Generations]
        /\ gen'[s] = g
        /\ \A t \in Servers : t # s => gen'[t] = gen[t]
    BY <1>t, <1>9, <2>1, Becoming DEF BeginRepair
  <2> HIDE DEF g
  <2>4. TypeOK'
    BY <1>t, <1>9, <2>3 DEF BeginRepair, TypeOK, ServerOrNone, files, bounds, MayRepair, Owns, Foreign
  <2> QED
    BY <1>t, <1>9, <2>2, <2>3, <2>4
       DEF BeginRepair, IInv, PortHeld, LockHeld, IdentityServes, TokenIsOwn, CleaningAlone,
           NotYetServed, TokenWritten, ServingKeepsHooks, PidComesWithToken,
           StartPhases, PortPhases, CleaningPhases, Serves, TypeOK, files, bounds, MayRepair, Owns, Foreign
<1>10. ASSUME NEW s \in Servers, RepairToken(s) PROVE IInv'
  <2> DEFINE g == [gen[s] EXCEPT !.identity = "pid"]
  <2>1. g \in Generations
    BY <1>t, <1>10 DEF RepairToken, Generations, Phases
  <2>2. /\ g.pc = gen[s].pc
        /\ g.startup = gen[s].startup
        /\ g.identity = "pid"
        /\ g.installed = gen[s].installed
    BY <1>t DEF Generations
  <2>3. /\ gen' \in [Servers -> Generations]
        /\ gen'[s] = g
        /\ \A t \in Servers : t # s => gen'[t] = gen[t]
    BY <1>t, <1>10, <2>1, Becoming DEF RepairToken
  <2> HIDE DEF g
  <2>4. TypeOK'
    BY <1>t, <1>10, <2>3 DEF RepairToken, TypeOK, ServerOrNone, files, bounds
  <2> QED
    BY <1>t, <1>10, <2>2, <2>3, <2>4
       DEF RepairToken, IInv, PortHeld, LockHeld, IdentityServes, TokenIsOwn, CleaningAlone,
           NotYetServed, TokenWritten, ServingKeepsHooks, PidComesWithToken,
           StartPhases, PortPhases, CleaningPhases, Serves, TypeOK, files, bounds
<1>11. ASSUME NEW s \in Servers, RepairPid(s) PROVE IInv'
  <2> DEFINE g == [gen[s] EXCEPT !.identity = "running"]
  <2>1. g \in Generations
    BY <1>t, <1>11 DEF RepairPid, Generations, Phases
  <2>2. /\ g.pc = gen[s].pc
        /\ g.startup = gen[s].startup
        /\ g.identity = "running"
        /\ g.installed = gen[s].installed
    BY <1>t DEF Generations
  <2>3. /\ gen' \in [Servers -> Generations]
        /\ gen'[s] = g
        /\ \A t \in Servers : t # s => gen'[t] = gen[t]
    BY <1>t, <1>11, <2>1, Becoming DEF RepairPid
  <2> HIDE DEF g
  <2>4. TypeOK'
    BY <1>t, <1>11, <2>3 DEF RepairPid, TypeOK, ServerOrNone, files, bounds
  <2> QED
    BY <1>t, <1>11, <2>2, <2>3, <2>4
       DEF RepairPid, IInv, PortHeld, LockHeld, IdentityServes, TokenIsOwn, CleaningAlone,
           NotYetServed, TokenWritten, ServingKeepsHooks, PidComesWithToken,
           StartPhases, PortPhases, CleaningPhases, Serves, TypeOK, files, bounds
<1>12. ASSUME NEW s \in Servers, RepairFails(s) PROVE IInv'
  <2> DEFINE g == [gen[s] EXCEPT !.identity = "running"]
  <2>1. g \in Generations
    BY <1>t, <1>12 DEF RepairFails, Generations, Phases
  <2>2. /\ g.pc = gen[s].pc
        /\ g.startup = gen[s].startup
        /\ g.identity = "running"
        /\ g.installed = gen[s].installed
    BY <1>t DEF Generations
  <2>3. /\ gen' \in [Servers -> Generations]
        /\ gen'[s] = g
        /\ \A t \in Servers : t # s => gen'[t] = gen[t]
    BY <1>t, <1>12, <2>1, Becoming DEF RepairFails
  <2> HIDE DEF g
  <2>4. TypeOK'
    BY <1>t, <1>12, <2>3 DEF RepairFails, TypeOK, ServerOrNone, files, bounds
  <2> QED
    BY <1>t, <1>12, <2>2, <2>3, <2>4
       DEF RepairFails, IInv, PortHeld, LockHeld, IdentityServes, TokenIsOwn, CleaningAlone,
           NotYetServed, TokenWritten, ServingKeepsHooks, PidComesWithToken,
           StartPhases, PortPhases, CleaningPhases, Serves, TypeOK, files, bounds
<1>13. ASSUME NEW s \in Servers, IdentityHears(s) PROVE IInv'
  <2> DEFINE g == [gen[s] EXCEPT !.identity = "off"]
  <2>1. g \in Generations
    BY <1>t, <1>13 DEF IdentityHears, Generations, Phases
  <2>2. /\ g.pc = gen[s].pc
        /\ g.startup = gen[s].startup
        /\ g.identity = "off"
        /\ g.installed = gen[s].installed
    BY <1>t DEF Generations
  <2>3. /\ gen' \in [Servers -> Generations]
        /\ gen'[s] = g
        /\ \A t \in Servers : t # s => gen'[t] = gen[t]
    BY <1>t, <1>13, <2>1, Becoming DEF IdentityHears
  <2> HIDE DEF g
  <2>4. TypeOK'
    BY <1>t, <1>13, <2>3 DEF IdentityHears, TypeOK, ServerOrNone, files, bounds
  <2> QED
    BY <1>t, <1>13, <2>2, <2>3, <2>4
       DEF IdentityHears, IInv, PortHeld, LockHeld, IdentityServes, TokenIsOwn, CleaningAlone,
           NotYetServed, TokenWritten, ServingKeepsHooks, PidComesWithToken,
           StartPhases, PortPhases, CleaningPhases, Serves, TypeOK, files, bounds
<1>14. ASSUME NEW s \in Servers, WatcherSubscribes(s) PROVE IInv'
  <2> DEFINE g == [gen[s] EXCEPT !.watcher = "watching"]
  <2>1. g \in Generations
    BY <1>t, <1>14 DEF WatcherSubscribes, Generations, Phases
  <2>2. /\ g.pc = gen[s].pc
        /\ g.startup = gen[s].startup
        /\ g.identity = gen[s].identity
        /\ g.installed = gen[s].installed
    BY <1>t DEF Generations
  <2>3. /\ gen' \in [Servers -> Generations]
        /\ gen'[s] = g
        /\ \A t \in Servers : t # s => gen'[t] = gen[t]
    BY <1>t, <1>14, <2>1, Becoming DEF WatcherSubscribes
  <2> HIDE DEF g
  <2>4. TypeOK'
    BY <1>t, <1>14, <2>3 DEF WatcherSubscribes, TypeOK, ServerOrNone, files, bounds
  <2> QED
    BY <1>t, <1>14, <2>2, <2>3, <2>4
       DEF WatcherSubscribes, IInv, PortHeld, LockHeld, IdentityServes, TokenIsOwn, CleaningAlone,
           NotYetServed, TokenWritten, ServingKeepsHooks, PidComesWithToken,
           StartPhases, PortPhases, CleaningPhases, Serves, TypeOK, files, bounds
<1>15. ASSUME NEW s \in Servers, WatcherProbes(s) PROVE IInv'
  <2> DEFINE g == Probed(gen[s])
  <2>1. g \in Generations
    BY <1>t, <1>15, Records DEF WatcherProbes
  <2>2. /\ g.pc = gen[s].pc
        /\ g.startup = gen[s].startup
        /\ g.identity = gen[s].identity
        /\ g.installed = gen[s].installed
    BY <1>t, <1>15, Records DEF WatcherProbes
  <2>3. /\ gen' \in [Servers -> Generations]
        /\ gen'[s] = g
        /\ \A t \in Servers : t # s => gen'[t] = gen[t]
    BY <1>t, <1>15, <2>1, Becoming DEF WatcherProbes
  <2> HIDE DEF g
  <2>4. TypeOK'
    BY <1>t, <1>15, <2>3 DEF WatcherProbes, TypeOK, ServerOrNone, files, bounds
  <2> QED
    BY <1>t, <1>15, <2>2, <2>3, <2>4
       DEF WatcherProbes, IInv, PortHeld, LockHeld, IdentityServes, TokenIsOwn, CleaningAlone,
           NotYetServed, TokenWritten, ServingKeepsHooks, PidComesWithToken,
           StartPhases, PortPhases, CleaningPhases, Serves, TypeOK, files, bounds
<1>16. ASSUME NEW s \in Servers, WatcherHears(s) PROVE IInv'
  <2> DEFINE g == [gen[s] EXCEPT !.watcher = "done"]
  <2>1. g \in Generations
    BY <1>t, <1>16 DEF WatcherHears, Generations, Phases
  <2>2. /\ g.pc = gen[s].pc
        /\ g.startup = gen[s].startup
        /\ g.identity = gen[s].identity
        /\ g.installed = gen[s].installed
    BY <1>t DEF Generations
  <2>3. /\ gen' \in [Servers -> Generations]
        /\ gen'[s] = g
        /\ \A t \in Servers : t # s => gen'[t] = gen[t]
    BY <1>t, <1>16, <2>1, Becoming DEF WatcherHears
  <2> HIDE DEF g
  <2>4. TypeOK'
    BY <1>t, <1>16, <2>3 DEF WatcherHears, TypeOK, ServerOrNone, files, bounds
  <2> QED
    BY <1>t, <1>16, <2>2, <2>3, <2>4
       DEF WatcherHears, IInv, PortHeld, LockHeld, IdentityServes, TokenIsOwn, CleaningAlone,
           NotYetServed, TokenWritten, ServingKeepsHooks, PidComesWithToken,
           StartPhases, PortPhases, CleaningPhases, Serves, TypeOK, files, bounds
<1>17. ASSUME NEW s \in Servers, Terminate(s) PROVE IInv'
  <2> DEFINE g == Signalled(gen[s])
  <2>1. g \in Generations
    BY <1>t, <1>17, Records DEF Terminate
  <2>2. /\ g.pc = gen[s].pc
        /\ g.startup = gen[s].startup
        /\ g.identity = gen[s].identity
        /\ g.installed = gen[s].installed
    BY <1>t, Records
  <2>3. /\ gen' \in [Servers -> Generations]
        /\ gen'[s] = g
        /\ \A t \in Servers : t # s => gen'[t] = gen[t]
    BY <1>t, <1>17, <2>1, Becoming DEF Terminate
  <2> HIDE DEF g
  <2>4. TypeOK'
    BY <1>t, <1>17, <2>3 DEF Terminate, TypeOK, ServerOrNone, files, bounds
  <2> QED
    BY <1>t, <1>17, <2>2, <2>3, <2>4
       DEF Terminate, IInv, PortHeld, LockHeld, IdentityServes, TokenIsOwn, CleaningAlone,
           NotYetServed, TokenWritten, ServingKeepsHooks, PidComesWithToken,
           StartPhases, PortPhases, CleaningPhases, Serves, TypeOK, files, bounds
<1>18. ASSUME NEW s \in Servers, RequestShutdown(s) PROVE IInv'
  <2> DEFINE g == [Signalled(gen[s]) EXCEPT !.announced = TRUE]
  <2>1. g \in Generations
    BY <1>t, <1>18, Records DEF RequestShutdown
  <2>s. Signalled(gen[s]) \in Generations
    BY <1>t, Records
  <2>2. /\ g.pc = gen[s].pc
        /\ g.startup = gen[s].startup
        /\ g.identity = gen[s].identity
        /\ g.installed = gen[s].installed
    BY <1>t, <2>s, Records DEF Generations
  <2>3. /\ gen' \in [Servers -> Generations]
        /\ gen'[s] = g
        /\ \A t \in Servers : t # s => gen'[t] = gen[t]
    BY <1>t, <1>18, <2>1, Becoming DEF RequestShutdown
  <2> HIDE DEF g
  <2>4. TypeOK'
    BY <1>t, <1>18, <2>3 DEF RequestShutdown, TypeOK, ServerOrNone, files, bounds
  <2> QED
    BY <1>t, <1>18, <2>2, <2>3, <2>4
       DEF RequestShutdown, IInv, PortHeld, LockHeld, IdentityServes, TokenIsOwn, CleaningAlone,
           NotYetServed, TokenWritten, ServingKeepsHooks, PidComesWithToken,
           StartPhases, PortPhases, CleaningPhases, Serves, TypeOK, files, bounds
<1>19. ASSUME NEW s \in Servers, BeginDrain(s) PROVE IInv'
  <2> DEFINE g == [gen[s] EXCEPT !.pc = "draining", !.announced = TRUE]
  <2>1. g \in Generations
    BY <1>t, <1>19 DEF BeginDrain, Generations, Phases
  <2>2. /\ g.pc = "draining"
        /\ g.startup = gen[s].startup
        /\ g.identity = gen[s].identity
        /\ g.installed = gen[s].installed
    BY <1>t DEF Generations
  <2>3. /\ gen' \in [Servers -> Generations]
        /\ gen'[s] = g
        /\ \A t \in Servers : t # s => gen'[t] = gen[t]
    BY <1>t, <1>19, <2>1, Becoming DEF BeginDrain
  <2> HIDE DEF g
  <2>4. TypeOK'
    BY <1>t, <1>19, <2>3 DEF BeginDrain, TypeOK, ServerOrNone, files, bounds
  <2> QED
    BY <1>t, <1>19, <2>2, <2>3, <2>4
       DEF BeginDrain, IInv, PortHeld, LockHeld, IdentityServes, TokenIsOwn, CleaningAlone,
           NotYetServed, TokenWritten, ServingKeepsHooks, PidComesWithToken,
           StartPhases, PortPhases, CleaningPhases, Serves, TypeOK, files, bounds
<1>20. ASSUME NEW s \in Servers, EndDrain(s) PROVE IInv'
  <2> DEFINE g == [gen[s] EXCEPT !.pc = "waiting"]
  <2>1. g \in Generations
    BY <1>t, <1>20 DEF EndDrain, Generations, Phases
  <2>2. /\ g.pc = "waiting"
        /\ g.startup = gen[s].startup
        /\ g.identity = gen[s].identity
        /\ g.installed = gen[s].installed
    BY <1>t DEF Generations
  <2>3. /\ gen' \in [Servers -> Generations]
        /\ gen'[s] = g
        /\ \A t \in Servers : t # s => gen'[t] = gen[t]
    BY <1>t, <1>20, <2>1, Becoming DEF EndDrain, Goto
  <2> HIDE DEF g
  <2>4. TypeOK'
    BY <1>t, <1>20, <2>3 DEF EndDrain, TypeOK, ServerOrNone, files, bounds
  <2> QED
    BY <1>t, <1>20, <2>2, <2>3, <2>4
       DEF EndDrain, IInv, PortHeld, LockHeld, IdentityServes, TokenIsOwn, CleaningAlone,
           NotYetServed, TokenWritten, ServingKeepsHooks, PidComesWithToken,
           StartPhases, PortPhases, CleaningPhases, Serves, TypeOK, files, bounds
<1>21. ASSUME NEW s \in Servers, BeginCleanup(s) PROVE IInv'
  <2> DEFINE g == [gen[s] EXCEPT !.pc = IF tmux THEN "unhooking" ELSE "removing"]
  <2>1. g \in Generations
    BY <1>t, <1>21 DEF BeginCleanup, Generations, Phases
  <2>2. /\ g.pc = IF tmux THEN "unhooking" ELSE "removing"
        /\ g.startup = gen[s].startup
        /\ g.identity = gen[s].identity
        /\ g.installed = gen[s].installed
    BY <1>t DEF Generations
  <2>3. /\ gen' \in [Servers -> Generations]
        /\ gen'[s] = g
        /\ \A t \in Servers : t # s => gen'[t] = gen[t]
    BY <1>t, <1>21, <2>1, Becoming DEF BeginCleanup, Goto
  <2> HIDE DEF g
  <2>4. TypeOK'
    BY <1>t, <1>21, <2>3 DEF BeginCleanup, TypeOK, ServerOrNone, files, bounds, MayCleanUp, Owns
  <2> QED
    BY <1>t, <1>21, <2>2, <2>3, <2>4
       DEF BeginCleanup, IInv, PortHeld, LockHeld, IdentityServes, TokenIsOwn, CleaningAlone,
           NotYetServed, TokenWritten, ServingKeepsHooks, PidComesWithToken,
           StartPhases, PortPhases, CleaningPhases, Serves, TypeOK, files, bounds, MayCleanUp, Owns
<1>22. ASSUME NEW s \in Servers, SkipCleanup(s) PROVE IInv'
  <2> DEFINE g == [gen[s] EXCEPT !.pc = "leaving"]
  <2>1. g \in Generations
    BY <1>t, <1>22 DEF SkipCleanup, Generations, Phases
  <2>2. /\ g.pc = "leaving"
        /\ g.startup = gen[s].startup
        /\ g.identity = gen[s].identity
        /\ g.installed = gen[s].installed
    BY <1>t DEF Generations
  <2>3. /\ gen' \in [Servers -> Generations]
        /\ gen'[s] = g
        /\ \A t \in Servers : t # s => gen'[t] = gen[t]
    BY <1>t, <1>22, <2>1, Becoming DEF SkipCleanup, Goto
  <2> HIDE DEF g
  <2>4. TypeOK'
    BY <1>t, <1>22, <2>3 DEF SkipCleanup, TypeOK, ServerOrNone, files, bounds
  <2> QED
    BY <1>t, <1>22, <2>2, <2>3, <2>4
       DEF SkipCleanup, IInv, PortHeld, LockHeld, IdentityServes, TokenIsOwn, CleaningAlone,
           NotYetServed, TokenWritten, ServingKeepsHooks, PidComesWithToken,
           StartPhases, PortPhases, CleaningPhases, Serves, TypeOK, files, bounds
<1>23. ASSUME NEW s \in Servers, RemoveHooks(s) PROVE IInv'
  <2> DEFINE g == [gen[s] EXCEPT !.pc = "removing"]
  <2>1. g \in Generations
    BY <1>t, <1>23 DEF RemoveHooks, Generations, Phases
  <2>2. /\ g.pc = "removing"
        /\ g.startup = gen[s].startup
        /\ g.identity = gen[s].identity
        /\ g.installed = gen[s].installed
    BY <1>t DEF Generations
  <2>3. /\ gen' \in [Servers -> Generations]
        /\ gen'[s] = g
        /\ \A t \in Servers : t # s => gen'[t] = gen[t]
    BY <1>t, <1>23, <2>1, Becoming DEF RemoveHooks, Goto
  <2> HIDE DEF g
  <2>4. TypeOK'
    BY <1>t, <1>23, <2>3 DEF RemoveHooks, TypeOK, ServerOrNone, files, bounds
  <2> QED
    BY <1>t, <1>23, <2>2, <2>3, <2>4
       DEF RemoveHooks, IInv, PortHeld, LockHeld, IdentityServes, TokenIsOwn, CleaningAlone,
           NotYetServed, TokenWritten, ServingKeepsHooks, PidComesWithToken,
           StartPhases, PortPhases, CleaningPhases, Serves, TypeOK, files, bounds
<1>24. ASSUME NEW s \in Servers, RemovePid(s) PROVE IInv'
  <2> DEFINE g == [gen[s] EXCEPT !.pc = "removingToken"]
  <2>1. g \in Generations
    BY <1>t, <1>24 DEF RemovePid, Generations, Phases
  <2>2. /\ g.pc = "removingToken"
        /\ g.startup = gen[s].startup
        /\ g.identity = gen[s].identity
        /\ g.installed = gen[s].installed
    BY <1>t DEF Generations
  <2>3. /\ gen' \in [Servers -> Generations]
        /\ gen'[s] = g
        /\ \A t \in Servers : t # s => gen'[t] = gen[t]
    BY <1>t, <1>24, <2>1, Becoming DEF RemovePid, Goto
  <2> HIDE DEF g
  <2>4. TypeOK'
    BY <1>t, <1>24, <2>3 DEF RemovePid, TypeOK, ServerOrNone, files, bounds
  <2> QED
    BY <1>t, <1>24, <2>2, <2>3, <2>4
       DEF RemovePid, IInv, PortHeld, LockHeld, IdentityServes, TokenIsOwn, CleaningAlone,
           NotYetServed, TokenWritten, ServingKeepsHooks, PidComesWithToken,
           StartPhases, PortPhases, CleaningPhases, Serves, TypeOK, files, bounds
<1>25. ASSUME NEW s \in Servers, RemoveToken(s) PROVE IInv'
  <2> DEFINE g == [gen[s] EXCEPT !.pc = "leaving"]
  <2>1. g \in Generations
    BY <1>t, <1>25 DEF RemoveToken, Generations, Phases
  <2>2. /\ g.pc = "leaving"
        /\ g.startup = gen[s].startup
        /\ g.identity = gen[s].identity
        /\ g.installed = gen[s].installed
    BY <1>t DEF Generations
  <2>3. /\ gen' \in [Servers -> Generations]
        /\ gen'[s] = g
        /\ \A t \in Servers : t # s => gen'[t] = gen[t]
    BY <1>t, <1>25, <2>1, Becoming DEF RemoveToken, Goto
  <2> HIDE DEF g
  <2>4. TypeOK'
    BY <1>t, <1>25, <2>3 DEF RemoveToken, TypeOK, ServerOrNone, files, bounds
  <2> QED
    BY <1>t, <1>25, <2>2, <2>3, <2>4
       DEF RemoveToken, IInv, PortHeld, LockHeld, IdentityServes, TokenIsOwn, CleaningAlone,
           NotYetServed, TokenWritten, ServingKeepsHooks, PidComesWithToken,
           StartPhases, PortPhases, CleaningPhases, Serves, TypeOK, files, bounds
<1>26. ASSUME NEW s \in Servers, Exit(s) PROVE IInv'
  <2> DEFINE g == [gen[s] EXCEPT !.pc = "exited", !.watcher = "done"]
  <2>1. g \in Generations
    BY <1>t, <1>26 DEF Exit, Generations, Phases
  <2>2. /\ g.pc = "exited"
        /\ g.startup = gen[s].startup
        /\ g.identity = gen[s].identity
        /\ g.installed = gen[s].installed
    BY <1>t DEF Generations
  <2>3. /\ gen' \in [Servers -> Generations]
        /\ gen'[s] = g
        /\ \A t \in Servers : t # s => gen'[t] = gen[t]
    BY <1>t, <1>26, <2>1, Becoming DEF Exit
  <2> HIDE DEF g
  <2>4. TypeOK'
    BY <1>t, <1>26, <2>3 DEF Exit, TypeOK, ServerOrNone, files, bounds
  <2> QED
    BY <1>t, <1>26, <2>2, <2>3, <2>4
       DEF Exit, IInv, PortHeld, LockHeld, IdentityServes, TokenIsOwn, CleaningAlone,
           NotYetServed, TokenWritten, ServingKeepsHooks, PidComesWithToken,
           StartPhases, PortPhases, CleaningPhases, Serves, TypeOK, files, bounds
<1>27. ASSUME NEW s \in Servers, Crash(s) PROVE IInv'
  <2> DEFINE g == [NewGeneration EXCEPT !.pc = "crashed"]
  <2>1. g \in Generations
    BY <1>t, <1>27, Records DEF Crash
  <2>2. /\ g.pc = "crashed"
        /\ g.startup = "none"
        /\ g.identity = "off"
        /\ g.installed = FALSE
    BY DEF NewGeneration
  <2>3. /\ gen' \in [Servers -> Generations]
        /\ gen'[s] = g
        /\ \A t \in Servers : t # s => gen'[t] = gen[t]
    BY <1>t, <1>27, <2>1, Becoming DEF Crash
  <2> HIDE DEF g
  <2>4. TypeOK'
    BY <1>t, <1>27, <2>3 DEF Crash, TypeOK, ServerOrNone, files, bounds, Free
  <2> QED
    BY <1>t, <1>27, <2>2, <2>3, <2>4
       DEF Crash, IInv, PortHeld, LockHeld, IdentityServes, TokenIsOwn, CleaningAlone,
           NotYetServed, TokenWritten, ServingKeepsHooks, PidComesWithToken,
           StartPhases, PortPhases, CleaningPhases, Serves, TypeOK, files, bounds, Free
<1>28. CASE FileVanishes
  BY <1>28 DEF FileVanishes,
           IInv, PortHeld, LockHeld, IdentityServes, TokenIsOwn, CleaningAlone,
           NotYetServed, TokenWritten, ServingKeepsHooks, PidComesWithToken,
           StartPhases, PortPhases, CleaningPhases, Serves, TypeOK, ServerOrNone, files, bounds
<1>29. CASE UpgradeRemoves
  BY <1>29 DEF UpgradeRemoves,
           IInv, PortHeld, LockHeld, IdentityServes, TokenIsOwn, CleaningAlone,
           NotYetServed, TokenWritten, ServingKeepsHooks, PidComesWithToken,
           StartPhases, PortPhases, CleaningPhases, Serves, TypeOK, ServerOrNone, files, bounds
<1>30. CASE TmuxStarts
  BY <1>30 DEF TmuxStarts,
           IInv, PortHeld, LockHeld, IdentityServes, TokenIsOwn, CleaningAlone,
           NotYetServed, TokenWritten, ServingKeepsHooks, PidComesWithToken,
           StartPhases, PortPhases, CleaningPhases, Serves, TypeOK, ServerOrNone, files, bounds
<1>31. CASE UpgradeKills
  <2>1. CASE UNCHANGED gen
    BY <1>31, <2>1 DEF UpgradeKills,
           IInv, PortHeld, LockHeld, IdentityServes, TokenIsOwn, CleaningAlone,
           NotYetServed, TokenWritten, ServingKeepsHooks, PidComesWithToken,
           StartPhases, PortPhases, CleaningPhases, Serves, TypeOK, ServerOrNone, files, bounds
  <2>2. CASE pidFile \in Servers /\ Becomes(pidFile, Signalled(gen[pidFile]))
    <3>1. /\ gen' \in [Servers -> Generations]
          /\ gen'[pidFile] = Signalled(gen[pidFile])
          /\ \A t \in Servers : t # pidFile => gen'[t] = gen[t]
      BY <1>t, <2>2, Records, Becoming
    <3>2. ASSUME NEW t \in Servers
          PROVE  /\ gen'[t].pc = gen[t].pc
                 /\ gen'[t].identity = gen[t].identity
                 /\ gen'[t].startup = gen[t].startup
                 /\ gen'[t].installed = gen[t].installed
      <4>1. CASE t = pidFile
        BY <1>t, <3>1, <4>1, Records
      <4>2. CASE t # pidFile
        BY <3>1, <4>2
      <4> QED BY <4>1, <4>2
    <3> QED
      BY <1>t, <1>31, <2>2, <3>1, <3>2 DEF UpgradeKills,
           IInv, PortHeld, LockHeld, IdentityServes, TokenIsOwn, CleaningAlone,
           NotYetServed, TokenWritten, ServingKeepsHooks, PidComesWithToken,
           StartPhases, PortPhases, CleaningPhases, Serves, TypeOK, ServerOrNone, files, bounds
  <2> QED BY <1>t, <1>31, <2>1, <2>2 DEF UpgradeKills, TypeOK, ServerOrNone
<1>32. CASE TmuxStops
  <2>1. gen' \in [Servers -> Generations]
    BY <1>t, <1>32 DEF TmuxStops, Generations
  <2>2. \A t \in Servers : /\ gen'[t].pc = gen[t].pc
                           /\ gen'[t].identity = gen[t].identity
                           /\ gen'[t].startup = gen[t].startup
                 /\ gen'[t].startup = gen[t].startup
                           /\ gen'[t].installed = FALSE
    BY <1>t, <1>32 DEF TmuxStops, Generations
  <2>o. outages' \in 0..MaxOutages
    BY <1>t, <1>32 DEF TmuxStops, TypeOK
  <2>3. TypeOK'
    BY <1>t, <1>32, <2>1, <2>o DEF TmuxStops, TypeOK, ServerOrNone, files
  <2>4. (PortHeld /\ LockHeld /\ IdentityServes)'
    BY <1>32, <2>2 DEF TmuxStops, IInv, PortHeld, LockHeld, IdentityServes, Serves
  <2> QED
    BY <1>32, <2>2, <2>3, <2>4
       DEF TmuxStops, IInv, TokenIsOwn, CleaningAlone, NotYetServed, TokenWritten,
           ServingKeepsHooks, PidComesWithToken, Serves, files, bounds
<1>33. CASE UNCHANGED vars
  BY <1>33 DEF vars,
           IInv, PortHeld, LockHeld, IdentityServes, TokenIsOwn, CleaningAlone,
           NotYetServed, TokenWritten, ServingKeepsHooks, PidComesWithToken,
           StartPhases, PortPhases, CleaningPhases, Serves, TypeOK, ServerOrNone, files, bounds
<1> QED
  BY <1>1, <1>2, <1>3, <1>4, <1>5, <1>6, <1>7, <1>8, <1>9, <1>10, <1>11, 
   <1>12, <1>13, <1>14, <1>15, <1>16, <1>17, <1>18, <1>19, <1>20, <1>21, <1>22, 
   <1>23, <1>24, <1>25, <1>26, <1>27, <1>28, <1>29, <1>30, <1>31, <1>32, <1>33
  DEF Next, ServerStep, Environment, Starting, Identity, Watcher, Stopping

LEMMA InitInvariant == Init => IInv
<1> SUFFICES ASSUME Init PROVE IInv
  OBVIOUS
<1>1. NewGeneration \in Generations
  BY DEF NewGeneration, Generations, Phases, Missed
<1>2. /\ NewGeneration.pc = "new" /\ NewGeneration.identity = "off"
      /\ NewGeneration.startup = "none" /\ NewGeneration.installed = FALSE
  BY DEF NewGeneration
<1>3. /\ gen \in [Servers -> Generations]
      /\ \A s \in Servers : gen[s] = NewGeneration
  BY <1>1 DEF Init
<1>4. TypeOK
  <2>1. 0 \in 0..MaxTampers /\ 0 \in 0..MaxOutages /\ 0 \in 0..MaxUpgrades
    BY GenerationAssumption
  <2> QED BY <1>3, <2>1 DEF Init, TypeOK, ServerOrNone
<1> QED
  BY <1>2, <1>3, <1>4, GenerationAssumption
     DEF Init, IInv, PortHeld, LockHeld, IdentityServes, TokenIsOwn, CleaningAlone,
         NotYetServed, TokenWritten, ServingKeepsHooks, PidComesWithToken,
         StartPhases, PortPhases, CleaningPhases, Serves

(* The inductive invariant holds in every behaviour.                        *)
THEOREM InvariantHolds == Spec => []IInv
  BY InitInvariant, InvariantStep, PTL DEF Spec

(* Every variable keeps its type; the bounds are never exceeded.            *)
THEOREM TypeCorrect == Spec => []TypeOK
<1>1. IInv => TypeOK
  BY DEF IInv
<1> QED BY <1>1, InvariantHolds, PTL

(* No generation loses the hooks it installed while it serves, however many *)
(* predecessors are still cleaning up after themselves.                     *)
THEOREM HooksAreKept == Spec => []ServingKeepsHooks
<1>1. IInv => ServingKeepsHooks
  BY DEF IInv
<1> QED BY <1>1, InvariantHolds, PTL

(* The pid of the generation that holds the port stands beside its token.   *)
THEOREM PidAndToken == Spec => []PidComesWithToken
<1>1. IInv => PidComesWithToken
  BY DEF IInv
<1> QED BY <1>1, InvariantHolds, PTL

-----------------------------------------------------------------------------
(* The identity lock.  Whoever holds it publishes, repairs or cleans up, and*)
(* while a generation maintains its identity nobody else does any of these. *)
HoldsLock(g) == \/ g.pc \in {"publishing", "tokened"} \cup CleaningPhases
                \/ g.identity \in {"token", "pid"}

LockInUse == \A s \in Servers : lock = s => HoldsLock(gen[s])

LEMMA LockPasses ==
    ASSUME LockInUse, NEW s \in Servers, lock' \in {lock, s, NoServer},
           lock' = s => HoldsLock(gen'[s]),
           \A t \in Servers : t # s => gen'[t] = gen[t]
    PROVE  LockInUse'
  BY GenerationAssumption DEF LockInUse, HoldsLock

LEMMA LockStep ==
    ASSUME IInv, LockInUse, [Next]_vars
    PROVE  LockInUse'
<1> USE GenerationAssumption
<1>t. TypeOK /\ gen \in [Servers -> Generations]
  BY DEF IInv, TypeOK
<1>1. ASSUME NEW s \in Servers,
             \/ BindPort(s) \/ BindRefused(s) \/ LockForPublish(s) \/ PublishToken(s)
             \/ PublishPid(s) \/ PublishFails(s)
      PROVE  LockInUse'
  <2>1. /\ lock' \in {lock, s, NoServer}
        /\ (lock' = s => HoldsLock(gen'[s]))
        /\ \A t \in Servers : t # s => gen'[t] = gen[t]
    BY <1>t, <1>1 DEF BindPort, BindRefused, LockForPublish, PublishToken, PublishPid,
       PublishFails, Goto, Becomes, Generations, LockInUse, HoldsLock, CleaningPhases
  <2> QED BY <2>1, LockPasses
<1>2. ASSUME NEW s \in Servers,
             \/ BeginRepair(s) \/ RepairToken(s) \/ RepairPid(s) \/ RepairFails(s)
             \/ IdentityHears(s)
      PROVE  LockInUse'
  <2>1. /\ lock' \in {lock, s, NoServer}
        /\ (lock' = s => HoldsLock(gen'[s]))
        /\ \A t \in Servers : t # s => gen'[t] = gen[t]
    BY <1>t, <1>2 DEF BeginRepair, RepairToken, RepairPid, RepairFails, IdentityHears,
       Becomes, Generations, LockInUse, HoldsLock, CleaningPhases
  <2> QED BY <2>1, LockPasses
<1>3. ASSUME NEW s \in Servers,
             \/ BeginDrain(s) \/ EndDrain(s) \/ BeginCleanup(s) \/ SkipCleanup(s)
             \/ RemoveHooks(s) \/ RemovePid(s) \/ RemoveToken(s) \/ Exit(s)
      PROVE  LockInUse'
  <2> DEFINE Passes == /\ lock' \in {lock, s, NoServer}
                       /\ (lock' = s => HoldsLock(gen'[s]))
                       /\ \A t \in Servers : t # s => gen'[t] = gen[t]
  <2>1. ASSUME BeginDrain(s) PROVE Passes
    BY <1>t, <2>1, GenerationAssumption DEF BeginDrain, Goto, Becomes, Generations, LockInUse,
       HoldsLock, CleaningPhases
  <2>2. ASSUME EndDrain(s) PROVE Passes
    BY <1>t, <2>2, GenerationAssumption DEF EndDrain, Goto, Becomes, Generations, LockInUse,
       HoldsLock, CleaningPhases
  <2>3. ASSUME BeginCleanup(s) PROVE Passes
    BY <1>t, <2>3, GenerationAssumption DEF BeginCleanup, Goto, Becomes, Generations, LockInUse,
       HoldsLock, CleaningPhases
  <2>4. ASSUME SkipCleanup(s) PROVE Passes
    BY <1>t, <2>4, GenerationAssumption DEF SkipCleanup, Goto, Becomes, Generations, LockInUse,
       HoldsLock, CleaningPhases
  <2>5. ASSUME RemoveHooks(s) PROVE Passes
    BY <1>t, <2>5, GenerationAssumption DEF RemoveHooks, Goto, Becomes, Generations, LockInUse,
       HoldsLock, CleaningPhases
  <2>6. ASSUME RemovePid(s) PROVE Passes
    BY <1>t, <2>6, GenerationAssumption DEF RemovePid, Goto, Becomes, Generations, LockInUse,
       HoldsLock, CleaningPhases
  <2>7. ASSUME RemoveToken(s) PROVE Passes
    BY <1>t, <2>7, GenerationAssumption DEF RemoveToken, Goto, Becomes, Generations, LockInUse,
       HoldsLock, CleaningPhases
  <2>8. ASSUME Exit(s) PROVE Passes
    BY <1>t, <2>8, GenerationAssumption DEF Exit, Goto, Becomes, Generations, LockInUse,
       HoldsLock, CleaningPhases
  <2> QED BY <1>3, <2>1, <2>2, <2>3, <2>4, <2>5, <2>6, <2>7, <2>8, LockPasses
<1>4. ASSUME NEW s \in Servers,
             \/ InstallHooks(s) \/ FinishStartup(s) \/ WatcherSubscribes(s)
             \/ WatcherProbes(s) \/ WatcherHears(s) \/ Terminate(s) \/ RequestShutdown(s)
      PROVE  LockInUse'
  <2>1. lock' = lock /\ \A t \in Servers : t # s => gen'[t] = gen[t]
    BY <1>t, <1>4 DEF InstallHooks, FinishStartup, WatcherSubscribes, WatcherProbes,
       WatcherHears, Terminate, RequestShutdown, Becomes
  <2>2. gen'[s].pc = gen[s].pc /\ gen'[s].identity = gen[s].identity
    <3>1. CASE InstallHooks(s)
      BY <1>t, <3>1 DEF InstallHooks, Becomes, Generations
    <3>2. CASE FinishStartup(s)
      BY <1>t, <3>2 DEF FinishStartup, Becomes, Generations
    <3>3. CASE WatcherSubscribes(s)
      BY <1>t, <3>3 DEF WatcherSubscribes, Becomes, Generations
    <3>4. CASE WatcherHears(s)
      BY <1>t, <3>4 DEF WatcherHears, Becomes, Generations
    <3>5. CASE WatcherProbes(s)
      <4> DEFINE g == Probed(gen[s])
      <4>1. g \in Generations /\ g.pc = gen[s].pc /\ g.identity = gen[s].identity
        BY <1>t, <3>5, Records DEF WatcherProbes
      <4> QED BY <1>t, <3>5, <4>1, Becoming DEF WatcherProbes
    <3>6. CASE Terminate(s)
      <4> DEFINE g == Signalled(gen[s])
      <4>1. g \in Generations /\ g.pc = gen[s].pc /\ g.identity = gen[s].identity
        BY <1>t, Records
      <4> QED BY <1>t, <3>6, <4>1, Becoming DEF Terminate
    <3>7. CASE RequestShutdown(s)
      <4> DEFINE g == [Signalled(gen[s]) EXCEPT !.announced = TRUE]
      <4>1. g \in Generations /\ g.pc = gen[s].pc /\ g.identity = gen[s].identity
        BY <1>t, Records DEF Generations
      <4> QED BY <1>t, <3>7, <4>1, Becoming DEF RequestShutdown
    <3> QED BY <1>4, <3>1, <3>2, <3>3, <3>4, <3>5, <3>6, <3>7
  <2> QED BY <2>1, <2>2 DEF LockInUse, HoldsLock
<1>5. ASSUME NEW s \in Servers, Crash(s) PROVE LockInUse'
  <2>1. /\ lock' \in {lock, s, NoServer} /\ lock' # s
        /\ \A t \in Servers : t # s => gen'[t] = gen[t]
    BY <1>t, <1>5, Records, Becoming DEF Crash, Free
  <2> QED BY <2>1, LockPasses
<1>6. CASE TmuxStops
  <2>1. \A t \in Servers : gen'[t].pc = gen[t].pc /\ gen'[t].identity = gen[t].identity
    BY <1>t, <1>6 DEF TmuxStops, Generations
  <2> QED BY <1>6, <2>1 DEF TmuxStops, LockInUse, HoldsLock
<1>7. CASE FileVanishes \/ UpgradeRemoves \/ TmuxStarts \/ UNCHANGED vars
  BY <1>7 DEF FileVanishes, UpgradeRemoves, TmuxStarts, vars, LockInUse
<1>8. CASE UpgradeKills
  <2>1. pidFile \in Servers /\ lock' = lock
    BY <1>t, <1>8 DEF UpgradeKills, TypeOK, ServerOrNone
  <2>2. CASE UNCHANGED gen
    BY <2>1, <2>2 DEF LockInUse
  <2>3. CASE Becomes(pidFile, Signalled(gen[pidFile]))
    <3> DEFINE g == Signalled(gen[pidFile])
    <3>1. g \in Generations /\ g.pc = gen[pidFile].pc /\ g.identity = gen[pidFile].identity
      BY <1>t, <2>1, Records
    <3>2. /\ gen'[pidFile] = g
          /\ \A t \in Servers : t # pidFile => gen'[t] = gen[t]
      BY <1>t, <2>1, <2>3, <3>1, Becoming
    <3> HIDE DEF g
    <3> QED BY <2>1, <3>1, <3>2 DEF LockInUse, HoldsLock
  <2> QED BY <1>8, <2>2, <2>3 DEF UpgradeKills
<1> QED
  BY <1>1, <1>2, <1>3, <1>4, <1>5, <1>6, <1>7, <1>8
     DEF Next, ServerStep, Environment, Starting, Identity, Watcher, Stopping

(* The identity task takes the lock on the runtime's own thread, and never  *)
(* waits for it: no other generation publishes, repairs or cleans up while  *)
(* this one maintains its identity.                                         *)
THEOREM TicksDoNotWait == Spec => []TicksNeverWait
<1>1. Init => LockInUse
  BY GenerationAssumption DEF Init, LockInUse
<1>2. IInv /\ LockInUse => TicksNeverWait
  <2> SUFFICES ASSUME IInv, LockInUse, NEW s \in Servers, gen[s].identity # "off",
                      lock \notin {NoServer, s}
               PROVE  FALSE
    BY DEF TicksNeverWait
  <2>1. lock \in Servers /\ HoldsLock(gen[lock])
    BY DEF IInv, TypeOK, ServerOrNone, LockInUse
  <2>2. Serves(s) /\ port = s
    BY DEF IInv, IdentityServes, PortHeld, Serves, PortPhases
  <2>3. CASE gen[lock].pc \in CleaningPhases
    BY <2>1, <2>2, <2>3 DEF IInv, CleaningAlone
  <2>4. CASE gen[lock].pc \in {"publishing", "tokened"}
    BY <2>1, <2>2, <2>4 DEF IInv, PortHeld, PortPhases
  <2>5. CASE gen[lock].identity \in {"token", "pid"}
    BY <2>1, <2>2, <2>5 DEF IInv, IdentityServes, PortHeld, Serves, PortPhases
  <2> QED BY <2>1, <2>3, <2>4, <2>5 DEF HoldsLock
<1>3. IInv /\ LockInUse /\ [Next]_vars => LockInUse'
  BY LockStep
<1> QED BY <1>1, <1>2, <1>3, InvariantHolds, PTL DEF Spec

-----------------------------------------------------------------------------
(* Leaving.  The two files are only ever changed under the lock, so whoever *)
(* takes it finds them in agreement: they name one process or none.  What a *)
(* process finds when it leaves therefore names it twice, and then it       *)
(* removes both, or not at all.                                             *)
FilesInOrder ==
    Orderly =>
        /\ lock = NoServer => pidFile = tokenFile
        /\ \A s \in Servers :
              /\ gen[s].pc = "publishing" \/ gen[s].identity = "token"
                    => pidFile = tokenFile
              /\ gen[s].pc \in {"unhooking", "removing"} => Owns(s)
              /\ gen[s].pc = "removingToken" => pidFile = NoServer /\ tokenFile = s
              /\ gen[s].pc \in {"leaving", "exited"} => pidFile # s /\ tokenFile # s

PluginCounted == plugin => upgrades > 0

LEMMA FilesStep ==
    ASSUME IInv, FilesInOrder, PluginCounted, [Next]_vars
    PROVE  FilesInOrder' /\ PluginCounted'
<1> USE GenerationAssumption
<1>t. /\ TypeOK /\ gen \in [Servers -> Generations]
      /\ tampers \in Nat /\ upgrades \in Nat
  BY DEF IInv, TypeOK
<1>1. ASSUME NEW s \in Servers, BindPort(s) PROVE FilesInOrder' /\ PluginCounted'
  <2>1. /\ gen'[s].pc = "bound" /\ gen'[s].identity = gen[s].identity
        /\ \A t \in Servers : t # s => gen'[t] = gen[t]
    BY <1>t, <1>1 DEF BindPort, Goto, Becomes, Generations
  <2> QED
    BY <1>t, <1>1, <2>1
       DEF BindPort, FilesInOrder, PluginCounted, Orderly, Owns,
           IInv, LockHeld, IdentityServes, TokenWritten, CleaningPhases, Serves,
           TypeOK, ServerOrNone, files, bounds
<1>2. ASSUME NEW s \in Servers, BindRefused(s) PROVE FilesInOrder' /\ PluginCounted'
  <2>1. /\ gen'[s].pc = "failed" /\ gen'[s].identity = gen[s].identity
        /\ \A t \in Servers : t # s => gen'[t] = gen[t]
    BY <1>t, <1>2 DEF BindRefused, Goto, Becomes, Generations
  <2> QED
    BY <1>t, <1>2, <2>1
       DEF BindRefused, FilesInOrder, PluginCounted, Orderly, Owns,
           IInv, LockHeld, IdentityServes, TokenWritten, CleaningPhases, Serves,
           TypeOK, ServerOrNone, files, bounds
<1>3. ASSUME NEW s \in Servers, LockForPublish(s) PROVE FilesInOrder' /\ PluginCounted'
  <2>1. /\ gen'[s].pc = "publishing" /\ gen'[s].identity = gen[s].identity
        /\ \A t \in Servers : t # s => gen'[t] = gen[t]
    BY <1>t, <1>3 DEF LockForPublish, Goto, Becomes, Generations
  <2> QED
    BY <1>t, <1>3, <2>1
       DEF LockForPublish, FilesInOrder, PluginCounted, Orderly, Owns,
           IInv, LockHeld, IdentityServes, TokenWritten, CleaningPhases, Serves,
           TypeOK, ServerOrNone, files, bounds
<1>4. ASSUME NEW s \in Servers, PublishToken(s) PROVE FilesInOrder' /\ PluginCounted'
  <2>1. /\ gen'[s].pc = "tokened" /\ gen'[s].identity = gen[s].identity
        /\ \A t \in Servers : t # s => gen'[t] = gen[t]
    BY <1>t, <1>4 DEF PublishToken, Goto, Becomes, Generations
  <2> QED
    BY <1>t, <1>4, <2>1
       DEF PublishToken, FilesInOrder, PluginCounted, Orderly, Owns,
           IInv, LockHeld, IdentityServes, TokenWritten, CleaningPhases, Serves,
           TypeOK, ServerOrNone, files, bounds
<1>5. ASSUME NEW s \in Servers, PublishPid(s) PROVE FilesInOrder' /\ PluginCounted'
  <2>1. /\ gen'[s].pc = "serving" /\ gen'[s].identity = "running"
        /\ \A t \in Servers : t # s => gen'[t] = gen[t]
    BY <1>t, <1>5 DEF PublishPid, Becomes, Generations
  <2> QED
    BY <1>t, <1>5, <2>1
       DEF PublishPid, FilesInOrder, PluginCounted, Orderly, Owns,
           IInv, LockHeld, IdentityServes, TokenWritten, CleaningPhases, Serves,
           TypeOK, ServerOrNone, files, bounds
<1>6. ASSUME NEW s \in Servers, PublishFails(s) PROVE FilesInOrder' /\ PluginCounted'
  <2>1. /\ gen'[s].pc = "failed" /\ gen'[s].identity = gen[s].identity
        /\ \A t \in Servers : t # s => gen'[t] = gen[t]
    BY <1>t, <1>6 DEF PublishFails, Goto, Becomes, Generations
  <2> QED
    BY <1>t, <1>6, <2>1
       DEF PublishFails, FilesInOrder, PluginCounted, Orderly, Owns,
           IInv, LockHeld, IdentityServes, TokenWritten, CleaningPhases, Serves,
           TypeOK, ServerOrNone, files, bounds
<1>7. ASSUME NEW s \in Servers, InstallHooks(s) PROVE FilesInOrder' /\ PluginCounted'
  <2>1. /\ gen'[s].pc = gen[s].pc /\ gen'[s].identity = gen[s].identity
        /\ \A t \in Servers : t # s => gen'[t] = gen[t]
    BY <1>t, <1>7 DEF InstallHooks, Becomes, Generations
  <2> QED
    BY <1>t, <1>7, <2>1
       DEF InstallHooks, FilesInOrder, PluginCounted, Orderly, Owns,
           IInv, LockHeld, IdentityServes, TokenWritten, CleaningPhases, Serves,
           TypeOK, ServerOrNone, files, bounds
<1>8. ASSUME NEW s \in Servers, FinishStartup(s) PROVE FilesInOrder' /\ PluginCounted'
  <2>1. /\ gen'[s].pc = gen[s].pc /\ gen'[s].identity = gen[s].identity
        /\ \A t \in Servers : t # s => gen'[t] = gen[t]
    BY <1>t, <1>8 DEF FinishStartup, Becomes, Generations
  <2> QED
    BY <1>t, <1>8, <2>1
       DEF FinishStartup, FilesInOrder, PluginCounted, Orderly, Owns,
           IInv, LockHeld, IdentityServes, TokenWritten, CleaningPhases, Serves,
           TypeOK, ServerOrNone, files, bounds
<1>9. ASSUME NEW s \in Servers, BeginRepair(s) PROVE FilesInOrder' /\ PluginCounted'
  <2>1. /\ gen'[s].pc = gen[s].pc /\ gen'[s].identity = "token"
        /\ \A t \in Servers : t # s => gen'[t] = gen[t]
    BY <1>t, <1>9 DEF BeginRepair, Becomes, Generations
  <2> QED
    BY <1>t, <1>9, <2>1
       DEF BeginRepair, MayRepair, FilesInOrder, PluginCounted, Orderly, Owns,
           IInv, LockHeld, IdentityServes, TokenWritten, CleaningPhases, Serves,
           TypeOK, ServerOrNone, files, bounds
<1>10. ASSUME NEW s \in Servers, RepairToken(s) PROVE FilesInOrder' /\ PluginCounted'
  <2>1. /\ gen'[s].pc = gen[s].pc /\ gen'[s].identity = "pid"
        /\ \A t \in Servers : t # s => gen'[t] = gen[t]
    BY <1>t, <1>10 DEF RepairToken, Becomes, Generations
  <2> QED
    BY <1>t, <1>10, <2>1
       DEF RepairToken, FilesInOrder, PluginCounted, Orderly, Owns,
           IInv, LockHeld, IdentityServes, TokenWritten, CleaningPhases, Serves,
           TypeOK, ServerOrNone, files, bounds
<1>11. ASSUME NEW s \in Servers, RepairPid(s) PROVE FilesInOrder' /\ PluginCounted'
  <2>1. /\ gen'[s].pc = gen[s].pc /\ gen'[s].identity = "running"
        /\ \A t \in Servers : t # s => gen'[t] = gen[t]
    BY <1>t, <1>11 DEF RepairPid, Becomes, Generations
  <2> QED
    BY <1>t, <1>11, <2>1
       DEF RepairPid, FilesInOrder, PluginCounted, Orderly, Owns,
           IInv, LockHeld, IdentityServes, TokenWritten, CleaningPhases, Serves,
           TypeOK, ServerOrNone, files, bounds
<1>12. ASSUME NEW s \in Servers, RepairFails(s) PROVE FilesInOrder' /\ PluginCounted'
  <2>1. /\ gen'[s].pc = gen[s].pc /\ gen'[s].identity = "running"
        /\ \A t \in Servers : t # s => gen'[t] = gen[t]
    BY <1>t, <1>12 DEF RepairFails, Becomes, Generations
  <2> QED
    BY <1>t, <1>12, <2>1
       DEF RepairFails, FilesInOrder, PluginCounted, Orderly, Owns,
           IInv, LockHeld, IdentityServes, TokenWritten, CleaningPhases, Serves,
           TypeOK, ServerOrNone, files, bounds
<1>13. ASSUME NEW s \in Servers, IdentityHears(s) PROVE FilesInOrder' /\ PluginCounted'
  <2>1. /\ gen'[s].pc = gen[s].pc /\ gen'[s].identity = "off"
        /\ \A t \in Servers : t # s => gen'[t] = gen[t]
    BY <1>t, <1>13 DEF IdentityHears, Becomes, Generations
  <2> QED
    BY <1>t, <1>13, <2>1
       DEF IdentityHears, FilesInOrder, PluginCounted, Orderly, Owns,
           IInv, LockHeld, IdentityServes, TokenWritten, CleaningPhases, Serves,
           TypeOK, ServerOrNone, files, bounds
<1>14. ASSUME NEW s \in Servers, WatcherSubscribes(s) PROVE FilesInOrder' /\ PluginCounted'
  <2>1. /\ gen'[s].pc = gen[s].pc /\ gen'[s].identity = gen[s].identity
        /\ \A t \in Servers : t # s => gen'[t] = gen[t]
    BY <1>t, <1>14 DEF WatcherSubscribes, Becomes, Generations
  <2> QED
    BY <1>t, <1>14, <2>1
       DEF WatcherSubscribes, FilesInOrder, PluginCounted, Orderly, Owns,
           IInv, LockHeld, IdentityServes, TokenWritten, CleaningPhases, Serves,
           TypeOK, ServerOrNone, files, bounds
<1>15. ASSUME NEW s \in Servers, WatcherProbes(s) PROVE FilesInOrder' /\ PluginCounted'
  <2> DEFINE g == Probed(gen[s])
  <2>g. /\ g \in Generations /\ g.pc = gen[s].pc /\ g.identity = gen[s].identity
    BY <1>t, <1>15, Records DEF WatcherProbes
  <2>1. /\ gen'[s].pc = gen[s].pc /\ gen'[s].identity = gen[s].identity
        /\ \A t \in Servers : t # s => gen'[t] = gen[t]
    BY <1>t, <1>15, <2>g, Becoming DEF WatcherProbes
  <2> HIDE DEF g
  <2> QED
    BY <1>t, <1>15, <2>1
       DEF WatcherProbes, FilesInOrder, PluginCounted, Orderly, Owns,
           IInv, LockHeld, IdentityServes, TokenWritten, CleaningPhases, Serves,
           TypeOK, ServerOrNone, files, bounds
<1>16. ASSUME NEW s \in Servers, WatcherHears(s) PROVE FilesInOrder' /\ PluginCounted'
  <2>1. /\ gen'[s].pc = gen[s].pc /\ gen'[s].identity = gen[s].identity
        /\ \A t \in Servers : t # s => gen'[t] = gen[t]
    BY <1>t, <1>16 DEF WatcherHears, Becomes, Generations
  <2> QED
    BY <1>t, <1>16, <2>1
       DEF WatcherHears, FilesInOrder, PluginCounted, Orderly, Owns,
           IInv, LockHeld, IdentityServes, TokenWritten, CleaningPhases, Serves,
           TypeOK, ServerOrNone, files, bounds
<1>17. ASSUME NEW s \in Servers, Terminate(s) PROVE FilesInOrder' /\ PluginCounted'
  <2> DEFINE g == Signalled(gen[s])
  <2>g. /\ g \in Generations /\ g.pc = gen[s].pc /\ g.identity = gen[s].identity
    BY <1>t, <1>17, Records DEF Terminate
  <2>1. /\ gen'[s].pc = gen[s].pc /\ gen'[s].identity = gen[s].identity
        /\ \A t \in Servers : t # s => gen'[t] = gen[t]
    BY <1>t, <1>17, <2>g, Becoming DEF Terminate
  <2> HIDE DEF g
  <2> QED
    BY <1>t, <1>17, <2>1
       DEF Terminate, FilesInOrder, PluginCounted, Orderly, Owns,
           IInv, LockHeld, IdentityServes, TokenWritten, CleaningPhases, Serves,
           TypeOK, ServerOrNone, files, bounds
<1>18. ASSUME NEW s \in Servers, RequestShutdown(s) PROVE FilesInOrder' /\ PluginCounted'
  <2> DEFINE g == [Signalled(gen[s]) EXCEPT !.announced = TRUE]
  <2>g. /\ g \in Generations /\ g.pc = gen[s].pc /\ g.identity = gen[s].identity
    BY <1>t, Records DEF Generations
  <2>1. /\ gen'[s].pc = gen[s].pc /\ gen'[s].identity = gen[s].identity
        /\ \A t \in Servers : t # s => gen'[t] = gen[t]
    BY <1>t, <1>18, <2>g, Becoming DEF RequestShutdown
  <2> HIDE DEF g
  <2> QED
    BY <1>t, <1>18, <2>1
       DEF RequestShutdown, FilesInOrder, PluginCounted, Orderly, Owns,
           IInv, LockHeld, IdentityServes, TokenWritten, CleaningPhases, Serves,
           TypeOK, ServerOrNone, files, bounds
<1>19. ASSUME NEW s \in Servers, BeginDrain(s) PROVE FilesInOrder' /\ PluginCounted'
  <2>1. /\ gen'[s].pc = "draining" /\ gen'[s].identity = gen[s].identity
        /\ \A t \in Servers : t # s => gen'[t] = gen[t]
    BY <1>t, <1>19 DEF BeginDrain, Becomes, Generations
  <2> QED
    BY <1>t, <1>19, <2>1
       DEF BeginDrain, FilesInOrder, PluginCounted, Orderly, Owns,
           IInv, LockHeld, IdentityServes, TokenWritten, CleaningPhases, Serves,
           TypeOK, ServerOrNone, files, bounds
<1>20. ASSUME NEW s \in Servers, EndDrain(s) PROVE FilesInOrder' /\ PluginCounted'
  <2>1. /\ gen'[s].pc = "waiting" /\ gen'[s].identity = gen[s].identity
        /\ \A t \in Servers : t # s => gen'[t] = gen[t]
    BY <1>t, <1>20 DEF EndDrain, Goto, Becomes, Generations
  <2> QED
    BY <1>t, <1>20, <2>1
       DEF EndDrain, FilesInOrder, PluginCounted, Orderly, Owns,
           IInv, LockHeld, IdentityServes, TokenWritten, CleaningPhases, Serves,
           TypeOK, ServerOrNone, files, bounds
<1>21. ASSUME NEW s \in Servers, BeginCleanup(s) PROVE FilesInOrder' /\ PluginCounted'
  <2>1. /\ gen'[s].pc = (IF tmux THEN "unhooking" ELSE "removing") /\ gen'[s].identity = gen[s].identity
        /\ \A t \in Servers : t # s => gen'[t] = gen[t]
    BY <1>t, <1>21 DEF BeginCleanup, Goto, Becomes, Generations
  <2> QED
    BY <1>t, <1>21, <2>1
       DEF BeginCleanup, MayCleanUp, FilesInOrder, PluginCounted, Orderly, Owns,
           IInv, LockHeld, IdentityServes, TokenWritten, CleaningPhases, Serves,
           TypeOK, ServerOrNone, files, bounds
<1>22. ASSUME NEW s \in Servers, SkipCleanup(s) PROVE FilesInOrder' /\ PluginCounted'
  <2>1. /\ gen'[s].pc = "leaving" /\ gen'[s].identity = gen[s].identity
        /\ \A t \in Servers : t # s => gen'[t] = gen[t]
    BY <1>t, <1>22 DEF SkipCleanup, Goto, Becomes, Generations
  <2> QED
    BY <1>t, <1>22, <2>1
       DEF SkipCleanup, MayCleanUp, FilesInOrder, PluginCounted, Orderly, Owns,
           IInv, LockHeld, IdentityServes, TokenWritten, CleaningPhases, Serves,
           TypeOK, ServerOrNone, files, bounds
<1>23. ASSUME NEW s \in Servers, RemoveHooks(s) PROVE FilesInOrder' /\ PluginCounted'
  <2>1. /\ gen'[s].pc = "removing" /\ gen'[s].identity = gen[s].identity
        /\ \A t \in Servers : t # s => gen'[t] = gen[t]
    BY <1>t, <1>23 DEF RemoveHooks, Goto, Becomes, Generations
  <2> QED
    BY <1>t, <1>23, <2>1
       DEF RemoveHooks, FilesInOrder, PluginCounted, Orderly, Owns,
           IInv, LockHeld, IdentityServes, TokenWritten, CleaningPhases, Serves,
           TypeOK, ServerOrNone, files, bounds
<1>24. ASSUME NEW s \in Servers, RemovePid(s) PROVE FilesInOrder' /\ PluginCounted'
  <2>1. /\ gen'[s].pc = "removingToken" /\ gen'[s].identity = gen[s].identity
        /\ \A t \in Servers : t # s => gen'[t] = gen[t]
    BY <1>t, <1>24 DEF RemovePid, Goto, Becomes, Generations
  <2> QED
    BY <1>t, <1>24, <2>1
       DEF RemovePid, FilesInOrder, PluginCounted, Orderly, Owns,
           IInv, LockHeld, IdentityServes, TokenWritten, CleaningPhases, Serves,
           TypeOK, ServerOrNone, files, bounds
<1>25. ASSUME NEW s \in Servers, RemoveToken(s) PROVE FilesInOrder' /\ PluginCounted'
  <2>1. /\ gen'[s].pc = "leaving" /\ gen'[s].identity = gen[s].identity
        /\ \A t \in Servers : t # s => gen'[t] = gen[t]
    BY <1>t, <1>25 DEF RemoveToken, Goto, Becomes, Generations
  <2> QED
    BY <1>t, <1>25, <2>1
       DEF RemoveToken, FilesInOrder, PluginCounted, Orderly, Owns,
           IInv, LockHeld, IdentityServes, TokenWritten, CleaningPhases, Serves,
           TypeOK, ServerOrNone, files, bounds
<1>26. ASSUME NEW s \in Servers, Exit(s) PROVE FilesInOrder' /\ PluginCounted'
  <2>1. /\ gen'[s].pc = "exited" /\ gen'[s].identity = gen[s].identity
        /\ \A t \in Servers : t # s => gen'[t] = gen[t]
    BY <1>t, <1>26 DEF Exit, Becomes, Generations
  <2> QED
    BY <1>t, <1>26, <2>1
       DEF Exit, FilesInOrder, PluginCounted, Orderly, Owns,
           IInv, LockHeld, IdentityServes, TokenWritten, CleaningPhases, Serves,
           TypeOK, ServerOrNone, files, bounds
<1>27. ASSUME NEW s \in Servers, Crash(s) PROVE FilesInOrder' /\ PluginCounted'
  <2> DEFINE g == [NewGeneration EXCEPT !.pc = "crashed"]
  <2>g. /\ g \in Generations /\ g.pc = "crashed" /\ g.identity = "off"
    BY Records DEF NewGeneration
  <2>1. /\ gen'[s].pc = "crashed" /\ gen'[s].identity = "off"
        /\ \A t \in Servers : t # s => gen'[t] = gen[t]
    BY <1>t, <1>27, <2>g, Becoming DEF Crash
  <2> HIDE DEF g
  <2> QED
    BY <1>t, <1>27, <2>1
       DEF Crash, Free, FilesInOrder, PluginCounted, Orderly, Owns,
           IInv, LockHeld, IdentityServes, TokenWritten, CleaningPhases, Serves,
           TypeOK, ServerOrNone, files, bounds
<1>28. CASE FileVanishes
  BY <1>t, <1>28 DEF FileVanishes, FilesInOrder, PluginCounted, Orderly, Owns,
           IInv, LockHeld, IdentityServes, TokenWritten, CleaningPhases, Serves,
           TypeOK, ServerOrNone, files, bounds
<1>29. CASE UpgradeRemoves
  BY <1>t, <1>29 DEF UpgradeRemoves, FilesInOrder, PluginCounted, Orderly, Owns,
           IInv, LockHeld, IdentityServes, TokenWritten, CleaningPhases, Serves,
           TypeOK, ServerOrNone, files, bounds
<1>30. CASE TmuxStarts
  BY <1>t, <1>30 DEF TmuxStarts, FilesInOrder, PluginCounted, Orderly, Owns,
           IInv, LockHeld, IdentityServes, TokenWritten, CleaningPhases, Serves,
           TypeOK, ServerOrNone, files, bounds
<1>31. CASE UpgradeKills
  BY <1>t, <1>31 DEF UpgradeKills, FilesInOrder, PluginCounted, Orderly, bounds
<1>32. CASE TmuxStops
  <2>1. \A t \in Servers : gen'[t].pc = gen[t].pc /\ gen'[t].identity = gen[t].identity
    BY <1>t, <1>32 DEF TmuxStops, Generations
  <2> QED BY <1>t, <1>32, <2>1 DEF TmuxStops, FilesInOrder, PluginCounted, Orderly, Owns, files
<1>33. CASE UNCHANGED vars
  BY <1>33 DEF vars, FilesInOrder, PluginCounted, Orderly, Owns, files, bounds
<1> QED
  BY <1>1, <1>2, <1>3, <1>4, <1>5, <1>6, <1>7, <1>8, <1>9, <1>10, <1>11, <1>12,
   <1>13, <1>14, <1>15, <1>16, <1>17, <1>18, <1>19, <1>20, <1>21, <1>22,
   <1>23, <1>24, <1>25, <1>26, <1>27, <1>28, <1>29, <1>30, <1>31, <1>32,
   <1>33
  DEF Next, ServerStep, Environment, Starting, Identity, Watcher, Stopping

(* A generation that exits in order leaves no file that names it: it owned  *)
(* both and removed them, or owned neither.                                 *)
THEOREM ExitIsClean == Spec => []ExitLeavesNoIdentity
<1>1. Init => FilesInOrder /\ PluginCounted
  <2> SUFFICES ASSUME Init PROVE FilesInOrder /\ PluginCounted
    OBVIOUS
  <2>1. \A s \in Servers : gen[s].pc = "new" /\ gen[s].identity = "off"
    BY DEF Init, NewGeneration
  <2> QED BY <2>1 DEF Init, FilesInOrder, PluginCounted
<1>2. IInv /\ FilesInOrder /\ PluginCounted /\ [Next]_vars
         => FilesInOrder' /\ PluginCounted'
  BY FilesStep
<1>3. FilesInOrder => ExitLeavesNoIdentity
  BY DEF FilesInOrder, ExitLeavesNoIdentity
<1> QED BY <1>1, <1>2, <1>3, InvariantHolds, PTL DEF Spec

-----------------------------------------------------------------------------
(* The refinement.  While the port does not change hands and its holder     *)
(* neither begins nor ends to serve, the registry's generation is the same. *)
LEMMA ServingStays ==
    ASSUME port' = port,
           \A s \in Servers : port = s => (gen'[s].pc \in {"serving", "draining"}
                                             <=> gen[s].pc \in {"serving", "draining"}),
           TypeOK
    PROVE  Serving' = Serving
  BY GenerationAssumption DEF Serving, Serves, TypeOK, ServerOrNone

LEMMA RegistryInit == Init => Registry!Init
  BY DEF Init, Serving, Registry!Init

LEMMA RegistryStep == IInv /\ [Next]_vars => [Registry!Next]_(Registry!vars)
<1> SUFFICES ASSUME IInv, [Next]_vars
             PROVE  Registry!Next \/ UNCHANGED Registry!vars
  BY DEF Registry!vars
<1> USE GenerationAssumption
<1>t. TypeOK /\ gen \in [Servers -> Generations]
  BY DEF IInv, TypeOK
<1>u. ASSUME UNCHANGED <<Serving, hooks, tmux>>
      PROVE  UNCHANGED Registry!vars
  BY <1>u DEF Registry!vars
<1>p. \A s \in Servers : Serves(s) => port = s
  BY DEF IInv, PortHeld, PortPhases, Serves
<1>1. ASSUME NEW s \in Servers, PublishPid(s) PROVE Registry!Serve(s)
  <2>1. port = s
    BY <1>1 DEF IInv, PortHeld, PortPhases, PublishPid
  <2>2. gen'[s].pc = "serving" /\ gen[s].pc = "tokened"
    BY <1>t, <1>1 DEF PublishPid, Becomes, Generations
  <2> QED BY <1>1, <2>1, <2>2 DEF PublishPid, Serving, Serves, Registry!Serve
<1>2. ASSUME NEW s \in Servers, BindPort(s) \/ PublishFails(s)
      PROVE  UNCHANGED <<Serving, hooks, tmux>>
  <2>1. /\ Serving = NoServer
        /\ hooks' = hooks /\ tmux' = tmux
    BY <1>2, <1>p DEF BindPort, PublishFails, Serving, Serves, IInv, PortHeld, PortPhases
  <2>2. Serving' = NoServer
    BY <1>t, <1>2 DEF BindPort, PublishFails, Serving, Serves, Goto, Becomes, Generations
  <2> QED BY <2>1, <2>2
<1>3. ASSUME NEW s \in Servers, InstallHooks(s)
      PROVE  Registry!Install \/ UNCHANGED <<Serving, hooks, tmux>>
  <2>1. Serving' = Serving
    BY <1>t, <1>3, ServingStays DEF InstallHooks, Becomes, Generations
  <2>2. hooks' = (hooks \/ tmux) /\ tmux' = tmux
    BY <1>3 DEF InstallHooks
  <2> QED BY <1>t, <2>1, <2>2 DEF Registry!Install, TypeOK
<1>4. ASSUME NEW s \in Servers, EndDrain(s) PROVE Registry!Retire
  BY <1>4 DEF EndDrain, Serving, Registry!Retire
<1>5. ASSUME NEW s \in Servers, Crash(s)
      PROVE  Registry!Retire \/ UNCHANGED <<Serving, hooks, tmux>>
  <2>1. CASE port = s
    BY <1>5, <2>1 DEF Crash, Free, Serving, Registry!Retire
  <2>2. CASE port # s
    <3>1. port' = port /\ hooks' = hooks /\ tmux' = tmux
      BY <1>5, <2>2 DEF Crash, Free
    <3>2. \A t \in Servers : t # s => gen'[t] = gen[t]
      BY <1>t, <1>5 DEF Crash, Becomes
    <3>3. Serving' = Serving
      BY <1>t, <2>2, <3>1, <3>2, ServingStays
    <3> QED BY <3>1, <3>3
  <2> QED BY <2>1, <2>2
<1>6. ASSUME NEW s \in Servers, RemoveHooks(s) PROVE Registry!Remove
  <2>1. \A t \in Servers : ~Serves(t)
    BY <1>6 DEF RemoveHooks, IInv, CleaningAlone, CleaningPhases
  <2>2. Serving = NoServer
    BY <1>t, <2>1 DEF Serving, TypeOK, ServerOrNone
  <2>3. Serving' = Serving
    BY <1>t, <1>6, ServingStays, <2>1
       DEF RemoveHooks, Goto, Becomes, Generations, Serves
  <2> QED BY <1>6, <2>2, <2>3 DEF RemoveHooks, Registry!Remove
<1>7. ASSUME NEW s \in Servers, BindRefused(s) PROVE UNCHANGED <<Serving, hooks, tmux>>
  BY <1>t, <1>7, ServingStays DEF BindRefused, Goto, Becomes, Generations
<1>8. ASSUME NEW s \in Servers, LockForPublish(s) PROVE UNCHANGED <<Serving, hooks, tmux>>
  BY <1>t, <1>8, ServingStays DEF LockForPublish, Goto, Becomes, Generations
<1>9. ASSUME NEW s \in Servers, PublishToken(s) PROVE UNCHANGED <<Serving, hooks, tmux>>
  BY <1>t, <1>9, ServingStays DEF PublishToken, Goto, Becomes, Generations
<1>10. ASSUME NEW s \in Servers, FinishStartup(s) PROVE UNCHANGED <<Serving, hooks, tmux>>
  BY <1>t, <1>10, ServingStays DEF FinishStartup, Becomes, Generations
<1>11. ASSUME NEW s \in Servers, BeginRepair(s) PROVE UNCHANGED <<Serving, hooks, tmux>>
  BY <1>t, <1>11, ServingStays DEF BeginRepair, Becomes, Generations
<1>12. ASSUME NEW s \in Servers, RepairToken(s) PROVE UNCHANGED <<Serving, hooks, tmux>>
  BY <1>t, <1>12, ServingStays DEF RepairToken, Becomes, Generations
<1>13. ASSUME NEW s \in Servers, RepairPid(s) PROVE UNCHANGED <<Serving, hooks, tmux>>
  BY <1>t, <1>13, ServingStays DEF RepairPid, Becomes, Generations
<1>14. ASSUME NEW s \in Servers, RepairFails(s) PROVE UNCHANGED <<Serving, hooks, tmux>>
  BY <1>t, <1>14, ServingStays DEF RepairFails, Becomes, Generations
<1>15. ASSUME NEW s \in Servers, IdentityHears(s) PROVE UNCHANGED <<Serving, hooks, tmux>>
  BY <1>t, <1>15, ServingStays DEF IdentityHears, Becomes, Generations
<1>16. ASSUME NEW s \in Servers, WatcherSubscribes(s) PROVE UNCHANGED <<Serving, hooks, tmux>>
  BY <1>t, <1>16, ServingStays DEF WatcherSubscribes, Becomes, Generations
<1>17. ASSUME NEW s \in Servers, WatcherProbes(s) PROVE UNCHANGED <<Serving, hooks, tmux>>
  <2> DEFINE g == Probed(gen[s])
  <2>g. g \in Generations /\ g.pc = gen[s].pc
    BY <1>t, <1>17, Records DEF WatcherProbes
  <2>1. gen'[s].pc = gen[s].pc /\ \A t \in Servers : t # s => gen'[t] = gen[t]
    BY <1>t, <1>17, <2>g, Becoming DEF WatcherProbes
  <2>2. port' = port /\ hooks' = hooks /\ tmux' = tmux
    BY <1>17 DEF WatcherProbes
  <2> QED BY <1>t, <2>1, <2>2, ServingStays
<1>18. ASSUME NEW s \in Servers, WatcherHears(s) PROVE UNCHANGED <<Serving, hooks, tmux>>
  BY <1>t, <1>18, ServingStays DEF WatcherHears, Becomes, Generations
<1>19. ASSUME NEW s \in Servers, Terminate(s) PROVE UNCHANGED <<Serving, hooks, tmux>>
  <2> DEFINE g == Signalled(gen[s])
  <2>g. g \in Generations /\ g.pc = gen[s].pc
    BY <1>t, <1>19, Records DEF Terminate
  <2>1. gen'[s].pc = gen[s].pc /\ \A t \in Servers : t # s => gen'[t] = gen[t]
    BY <1>t, <1>19, <2>g, Becoming DEF Terminate
  <2>2. port' = port /\ hooks' = hooks /\ tmux' = tmux
    BY <1>19 DEF Terminate
  <2> QED BY <1>t, <2>1, <2>2, ServingStays
<1>20. ASSUME NEW s \in Servers, RequestShutdown(s) PROVE UNCHANGED <<Serving, hooks, tmux>>
  <2> DEFINE g == [Signalled(gen[s]) EXCEPT !.announced = TRUE]
  <2>g. g \in Generations /\ g.pc = gen[s].pc
    BY <1>t, Records DEF Generations
  <2>1. gen'[s].pc = gen[s].pc /\ \A t \in Servers : t # s => gen'[t] = gen[t]
    BY <1>t, <1>20, <2>g, Becoming DEF RequestShutdown
  <2>2. port' = port /\ hooks' = hooks /\ tmux' = tmux
    BY <1>20 DEF RequestShutdown
  <2> QED BY <1>t, <2>1, <2>2, ServingStays
<1>21. ASSUME NEW s \in Servers, BeginDrain(s) PROVE UNCHANGED <<Serving, hooks, tmux>>
  BY <1>t, <1>21, ServingStays DEF BeginDrain, Becomes, Generations
<1>22. ASSUME NEW s \in Servers, BeginCleanup(s) PROVE UNCHANGED <<Serving, hooks, tmux>>
  BY <1>t, <1>22, ServingStays DEF BeginCleanup, Goto, Becomes, Generations
<1>23. ASSUME NEW s \in Servers, SkipCleanup(s) PROVE UNCHANGED <<Serving, hooks, tmux>>
  BY <1>t, <1>23, ServingStays DEF SkipCleanup, Goto, Becomes, Generations
<1>24. ASSUME NEW s \in Servers, RemovePid(s) PROVE UNCHANGED <<Serving, hooks, tmux>>
  BY <1>t, <1>24, ServingStays DEF RemovePid, Goto, Becomes, Generations
<1>25. ASSUME NEW s \in Servers, RemoveToken(s) PROVE UNCHANGED <<Serving, hooks, tmux>>
  BY <1>t, <1>25, ServingStays DEF RemoveToken, Goto, Becomes, Generations
<1>26. ASSUME NEW s \in Servers, Exit(s) PROVE UNCHANGED <<Serving, hooks, tmux>>
  BY <1>t, <1>26, ServingStays DEF Exit, Becomes, Generations
<1>27. CASE FileVanishes \/ UpgradeRemoves
  <2>1. UNCHANGED <<gen, port, hooks, tmux>>
    BY <1>27 DEF FileVanishes, UpgradeRemoves
  <2> QED BY <1>t, <2>1, ServingStays, <1>u
<1>28. ASSUME UpgradeKills PROVE UNCHANGED <<Serving, hooks, tmux>>
  <2>1. ASSUME NEW t \in Servers PROVE gen'[t].pc = gen[t].pc
    <3>1. CASE UNCHANGED gen
      BY <3>1
    <3>2. CASE pidFile \in Servers /\ Becomes(pidFile, Signalled(gen[pidFile]))
      <4>1. /\ gen'[pidFile] = Signalled(gen[pidFile])
            /\ \A u \in Servers : u # pidFile => gen'[u] = gen[u]
        BY <1>t, <3>2, Records, Becoming
      <4>2. CASE t = pidFile
        BY <1>t, <4>1, <4>2, Records
      <4>3. CASE t # pidFile
        BY <4>1, <4>3
      <4> QED BY <4>2, <4>3
    <3> QED BY <1>t, <1>28, <3>1, <3>2 DEF UpgradeKills, TypeOK, ServerOrNone
  <2>2. port' = port /\ hooks' = hooks /\ tmux' = tmux
    BY <1>28 DEF UpgradeKills
  <2> QED BY <1>t, <2>1, <2>2, ServingStays
<1>29. CASE TmuxStops
  <2>1. \A t \in Servers : gen'[t].pc = gen[t].pc
    BY <1>t, <1>29 DEF TmuxStops, Generations
  <2>2. Serving' = Serving
    BY <1>t, <1>29, <2>1, ServingStays DEF TmuxStops
  <2> QED BY <1>29, <2>2 DEF TmuxStops, Registry!TmuxStops, Registry!Next
<1>30. CASE TmuxStarts
  <2>1. Serving' = Serving
    BY <1>t, <1>30, ServingStays DEF TmuxStarts
  <2> QED BY <1>30, <2>1 DEF TmuxStarts, Registry!TmuxStarts, Registry!Next
<1>31. CASE UNCHANGED vars
  BY <1>31 DEF vars, Serving, Serves, Registry!vars
<1> QED
  BY <1>u, <1>1, <1>2, <1>3, <1>4, <1>5, <1>6, <1>7, <1>8, <1>9, <1>10, <1>11, 
   <1>12, <1>13, <1>14, <1>15, <1>16, <1>17, <1>18, <1>19, <1>20, <1>21, <1>22, 
   <1>23, <1>24, <1>25, <1>26, <1>27, <1>28, <1>29, <1>30, <1>31
  DEF Next, ServerStep, Environment, Starting, Identity, Watcher, Stopping,
      Registry!Next

(* The generations, with their port, files and lock, implement the registry:*)
(* one serves at a time, and its hooks go only with tmux.                   *)
THEOREM Refinement == Spec => ImplementsRegistry
  BY RegistryInit, RegistryStep, InvariantHolds, PTL
     DEF Spec, ImplementsRegistry, Registry!Spec
=============================================================================
