----------------------- MODULE AgentHibernationProofs -----------------------
(***************************************************************************)
(* What holds of AgentHibernation for every set of panes, threads and pids *)
(* and every number of failed readings: only captured processes are        *)
(* signalled, an agent in use is spared, and a marked row's processes are  *)
(* gone.                                                                   *)
(***************************************************************************)
EXTENDS AgentHibernation, TLAPS

Late == {"escalating", "rechecking", "viewing", "marking"}

(* What a pass has not come to yet is empty.                                *)
Fresh ==
    /\ stage \in {"sleeping", "candidates", "table", "activity"} =>
         planned = {} /\ captured = [pid \in Pids |-> {}]
    /\ stage \in {"sleeping", "candidates", "table", "activity", "planning"} => signals = {}
    /\ stage \notin Late => stopped = {} /\ woken = {} /\ still = {}
    /\ stage \in {"escalating", "rechecking"} => todo \subseteq terminated

(* While signals follow a reading of the table nothing starts.              *)
NothingStarted ==
    stage \in {"running", "escalating", "rechecking"} /\ table # NothingRead =>
        \A pid \in Pids : procs[pid] # Free => /\ table[pid] # Free
                                              /\ table[pid].args = procs[pid].args

StoppedAreGone ==
    table # NothingRead => \A pid \in stopped : Alive(captured[pid], procs) = {}

(* A pane has one agent, so that what is captured for one target is of no   *)
(* other.                                                                   *)
OneAgent(t) ==
    \A p, q \in Pids : /\ t[p] # Free /\ t[p].args[1] = "agent" /\ t[p].under \in Panes
                      /\ t[q] # Free /\ t[q].args[1] = "agent" /\ t[q].under = t[p].under
                        => p = q
CapturedFromTable ==
    /\ \A q, r \in Pids : captured[q] \cap captured[r] # {} => q = r
    /\ stage = "planning" =>
         \A q \in Pids : captured[q] # {} => \E p \in Panes : /\ q \in AgentsUnder(p, table)
                                                           /\ captured[q] = CapturedUnder(p, table)

(* A row is a candidate in one pane, and planned once.                      *)
PlannedOnce ==
    /\ \A x, y \in planned : x.candidate[1] = y.candidate[1] => x = y
    /\ \A c, d \in candidates : c[1] = d[1] => c = d
    /\ \A x \in planned, c \in candidates : x.candidate[1] # c[1]

(* What is in use since the end of the grace period is seen by the re-check. *)
WokenIsSeen ==
    /\ woken \subseteq InUse
    /\ stage = "rechecking" =>
         \A u \in woken : u[2] = "viewed" => \/ SessionOf[u[1][1]] \in protected.sessions
                                            \/ u[1][2] \in protected.panes
    /\ \A u \in woken : u[1] \notin UNION still

IInv == /\ TypeOK /\ Fresh /\ NothingStarted /\ StoppedAreGone
        /\ OneAgent(procs) /\ OneAgent(table) /\ CapturedFromTable /\ PlannedOnce
        /\ OnlyCapturedAreSignalled /\ WokenIsSeen

------------------------------------------------------------------------------
(* What the operators return.                                               *)

LEMMA ViewedType ==
    ASSUME TypeOK PROVE Viewed \in [sessions : SUBSET Sessions, panes : SUBSET Panes]
BY ViewsAssumption DEF TypeOK, Viewed

LEMMA CandidatesType ==
    ASSUME NEW s PROVE HibernationCandidates(s) \subseteq Candidate
BY DEF HibernationCandidates

LEMMA CapturedType ==
    ASSUME NEW t \in Tables, NEW p PROVE CapturedUnder(p, t) \in Captures
<1>1. \A q \in Pids : t[q] # Free => t[q] \in Processes
  BY DEF Tables
<1>2. \A q \in Pids : t[q] # Free => t[q].args \in Args
  BY <1>1 DEF Processes
<1>3. QED
  BY <1>2 DEF CapturedUnder, Captures

LEMMA AgentIsCaptured ==
    ASSUME NEW t \in Tables, NEW p, NEW pid \in AgentsUnder(p, t)
    PROVE  pid \in Pids /\ pid \in {c[1] : c \in CapturedUnder(p, t)}
<1>1. pid \in Pids /\ t[pid] # Free /\ t[pid].under = p /\ t[pid].args[1] # "other"
  BY DEF AgentsUnder
<1>2. <<pid, t[pid].args>> \in CapturedUnder(p, t)
  BY <1>1 DEF CapturedUnder
<1>3. QED
  BY <1>1, <1>2

LEMMA NothingReadType == NothingRead \in Tables
BY DEF NothingRead, Tables

LEMMA ReadsTableType ==
    ASSUME TypeOK, ReadsTable
    PROVE  /\ table' \in Tables /\ failures' \in 0 .. MaxFailures
           /\ table' = procs \/ table' = NothingRead
BY NothingReadType, BoundAssumption DEF TypeOK, ReadsTable

LEMMA WithoutType ==
    ASSUME TypeOK, NEW pids \in SUBSET Pids
    PROVE  /\ Without(pids) \in Tables
           /\ \A q \in Pids : Without(pids)[q] # Free =>
                /\ q \notin pids /\ procs[q] # Free
                /\ Without(pids)[q].args = procs[q].args
                /\ Without(pids)[q].under \in {procs[q].under, NoPane}
<1> DEFINE orphaned == {procs[pid].under : pid \in {q \in pids : procs[q].args[1] = "agent"}}
<1>1. ASSUME NEW q \in Pids
      PROVE  /\ Without(pids)[q] \in Processes \cup {Free}
             /\ Without(pids)[q] # Free =>
                  /\ q \notin pids /\ procs[q] # Free
                  /\ Without(pids)[q].args = procs[q].args
                  /\ Without(pids)[q].under \in {procs[q].under, NoPane}
  <2>1. procs[q] \in Processes \cup {Free}
    BY DEF TypeOK, Tables
  <2>2. CASE q \in pids
    <3>1. Without(pids)[q] = Free
      BY <2>2 DEF Without
    <3>2. QED
      BY <3>1
  <2>3. CASE q \notin pids /\ procs[q] # Free /\ procs[q].under \in orphaned
               /\ procs[q].args[1] = "helper"
    <3>1. Without(pids)[q] = [procs[q] EXCEPT !.under = NoPane]
      BY <2>3 DEF Without
    <3>2. procs[q] \in [args : Args, under : Panes \cup {NoPane}]
      BY <2>1, <2>3 DEF Processes
    <3>5. [procs[q] EXCEPT !.under = NoPane] = [args |-> procs[q].args, under |-> NoPane]
      BY <3>2
    <3>3. /\ Without(pids)[q] \in [args : Args, under : Panes \cup {NoPane}]
          /\ Without(pids)[q].args = procs[q].args /\ Without(pids)[q].under = NoPane
      BY <3>1, <3>2, <3>5
    <3>4. QED
      BY <2>3, <3>3 DEF Processes
  <2>4. CASE q \notin pids /\ ~(procs[q] # Free /\ procs[q].under \in orphaned
               /\ procs[q].args[1] = "helper")
    <3>1. Without(pids)[q] = procs[q]
      BY <2>4 DEF Without
    <3>2. QED
      BY <2>1, <2>4, <3>1
  <2>5. QED
    BY <2>2, <2>3, <2>4
<1>2. Without(pids) = [q \in Pids |-> Without(pids)[q]]
  BY DEF Without
<1>3. Without(pids) \in Tables
  BY <1>1, <1>2 DEF Tables
<1>4. QED
  BY <1>1, <1>3

LEMMA AliveShrinks ==
    ASSUME NEW captures \in Captures, NEW t, NEW u,
           \A q \in Pids : u[q] # Free => t[q] # Free /\ u[q].args = t[q].args
    PROVE  Alive(captures, u) \subseteq Alive(captures, t)
BY DEF Alive, Captures

LEMMA TypeStep ==
    ASSUME TypeOK, Fresh, [Next]_vars
    PROVE  TypeOK'
<1> USE BoundAssumption
<1>1. ASSUME ViewBefore PROVE TypeOK'
  BY <1>1, ViewedType DEF TypeOK, ViewBefore, world, plan, kill, Targets, Stages
<1>2. ASSUME FindCandidates PROVE TypeOK'
  <2>1. CASE HibernationCandidates(protected.sessions) = {}
    BY <1>2, <2>1, NothingReadType DEF TypeOK, FindCandidates, world, EndPass, NothingViewed, Stages, Captures, Targets
  <2>2. CASE HibernationCandidates(protected.sessions) # {}
    BY <1>2, <2>2, CandidatesType DEF TypeOK, FindCandidates, world, plan, kill, Targets, Stages
  <2>3. QED
    BY <2>1, <2>2
<1>3. ASSUME ReadProcesses PROVE TypeOK'
  BY <1>3, ReadsTableType DEF TypeOK, ReadProcesses, world, plan, kill, Targets, Stages
<1>4. ASSUME ReadActivity PROVE TypeOK'
  <2>1. busy' \subseteq Pids
    BY <1>4 DEF TypeOK, ReadActivity, RecentPids, BusyUnplacedPids, Logs
  <2>2. QED
    BY <1>4, <2>1 DEF TypeOK, ReadActivity, world, plan, kill, Targets, Stages
<1>5. ASSUME NEW c \in Candidate, PlanCandidate(c) PROVE TypeOK'
  <2>1. CASE UNCHANGED <<planned, captured>>
    BY <1>5, <2>1 DEF TypeOK, PlanCandidate, world, plan, kill, Targets
  <2>2. ASSUME NEW pid \in AgentsUnder(c[2], table),
               planned' = planned \cup {[candidate |-> c, target |-> pid]},
               captured' = [captured EXCEPT ![pid] = CapturedUnder(c[2], table)]
        PROVE  TypeOK'
    <3>1. pid \in Pids /\ pid \in {x[1] : x \in CapturedUnder(c[2], table)}
      BY AgentIsCaptured DEF TypeOK
    <3>2. captured' \in [Pids -> Captures]
      BY <2>2, <3>1, CapturedType DEF TypeOK
    <3>3. captured'[pid] = CapturedUnder(c[2], table) /\ \A q \in Pids \ {pid} : captured'[q] = captured[q]
      BY <2>2, <3>1 DEF TypeOK
    <3>4. planned' \subseteq [candidate : Candidate, target : Pids]
      BY <2>2, <3>1 DEF TypeOK
    <3>5. ASSUME NEW x \in planned' PROVE x.target \in {y[1] : y \in captured'[x.target]}
      <4>1. CASE x.target = pid
        BY <4>1, <3>1, <3>3
      <4>2. CASE x.target # pid
        <5>1. x \in planned /\ x.target \in Pids
          BY <2>2, <4>2, <3>4
        <5>2. QED
          BY <5>1, <4>2, <3>3 DEF TypeOK
      <4>3. QED
        BY <4>1, <4>2
    <3>6. Targets \subseteq Targets'
      BY <2>2 DEF Targets
    <3>7. /\ UNCHANGED <<procs, rows, logs, client, focused, stage, protected, table, busy>>
          /\ UNCHANGED <<terminated, todo, still, stopped, signals, woken, moves, failures>>
          /\ candidates' \subseteq Candidate
      BY <1>5 DEF PlanCandidate, world, kill, TypeOK
    <3>8. todo' \subseteq Targets' /\ terminated' \subseteq Targets'
      BY <3>6, <3>7 DEF TypeOK
    <3>9. QED
      BY <3>2, <3>4, <3>5, <3>7, <3>8 DEF TypeOK
  <2>3. QED
    BY <1>5, <2>1, <2>2 DEF PlanCandidate
<1>6. ASSUME ReadRunning PROVE TypeOK'
  <2>1. CASE EndPass /\ UNCHANGED failures
    BY <1>6, <2>1, NothingReadType DEF TypeOK, ReadRunning, world, EndPass, NothingViewed, Stages, Captures, Targets
  <2>2. CASE ~(EndPass /\ UNCHANGED failures)
    BY <1>6, <2>2, ReadsTableType DEF TypeOK, ReadRunning, world, plan, kill, Targets, Stages
  <2>3. QED
    BY <2>1, <2>2
<1>7. ASSUME NEW pid \in Pids, Terminate(pid) PROVE TypeOK'
  <2>1. procs[pid] # Free => procs[pid].args \in Args
    BY DEF TypeOK, Tables, Processes
  <2>2. QED
    BY <1>7, <2>1 DEF TypeOK, Terminate, world, plan, Targets
<1>8. ASSUME EndTerminate PROVE TypeOK'
  BY <1>8 DEF TypeOK, EndTerminate, world, plan, kill, Targets, Stages
<1>9. ASSUME ReadSurvivors PROVE TypeOK'
  <2>1. woken' \subseteq Candidate \X {"viewed", "busy"}
    BY <1>9 DEF ReadSurvivors, InUse
  <2>2. QED
    BY <1>9, <2>1, ReadsTableType DEF TypeOK, ReadSurvivors, world, Targets, Stages
<1>10. ASSUME NEW pid \in Pids, FindStopped(pid) PROVE TypeOK'
  BY <1>10 DEF TypeOK, FindStopped, world, plan, kill, Targets, Fresh
<1>11. ASSUME NEW pid \in Pids, Escalate(pid) PROVE TypeOK'
  <2> DEFINE survivors == {x[1] : x \in Alive(captured[pid], table)}
             hit == {q \in survivors : procs[q] # Free}
  <2>1. hit \subseteq Pids
    BY DEF TypeOK, Alive, Captures
  <2>2. \A q \in hit : procs[q].args \in Args
    BY <2>1 DEF TypeOK, Tables, Processes
  <2>3. Without(hit) \in Tables
    BY <2>1, WithoutType
  <2>4. {<<q, procs[q].args, "KILL">> : q \in hit} \subseteq Pids \X Args \X {"TERM", "KILL"}
    BY <2>1, <2>2
  <2>5. /\ procs' \in Tables /\ signals' \subseteq Pids \X Args \X {"TERM", "KILL"}
        /\ stopped' \subseteq stopped \cup {pid}
        /\ pid \in terminated
        /\ todo' \subseteq todo
    BY <1>11, <2>3, <2>4 DEF Escalate, TypeOK, Fresh
  <2>6. UNCHANGED <<rows, logs, client, focused, stage, protected, candidates, table, busy, planned,
                    captured, terminated, still, woken, moves, failures>>
    BY <1>11 DEF Escalate, plan
  <2>7. QED
    BY <2>5, <2>6 DEF TypeOK, Targets
<1>12. ASSUME ViewSurvivors PROVE TypeOK'
  BY <1>12, ViewedType DEF TypeOK, ViewSurvivors, world, plan, kill, Targets, Stages
<1>13. ASSUME Recheck PROVE TypeOK'
  <2>1. UnviewedCandidates(protected) \subseteq Candidate
    BY CandidatesType DEF UnviewedCandidates
  <2>2. QED
    BY <1>13, <2>1 DEF TypeOK, Recheck, world, plan, Targets, Stages
<1>14. ASSUME EndEscalate PROVE TypeOK'
  BY <1>14 DEF TypeOK, EndEscalate, world, plan, kill, Targets, Stages
<1>15. ASSUME ViewAfter PROVE TypeOK'
  BY <1>15, ViewedType DEF TypeOK, ViewAfter, world, plan, kill, Targets, Stages
<1>16. ASSUME MarkHibernated PROVE TypeOK'
  <2>1. [state |-> "hibernated", pane |-> NoPane, liveness |-> "exited"] \in Rows
    BY DEF Rows
  <2>3. rows' \in [Threads -> Rows]
    BY <1>16, <2>1 DEF TypeOK, MarkHibernated
  <2>2. QED
    BY <1>16, <2>3, NothingReadType DEF TypeOK, MarkHibernated, EndPass, NothingViewed, Stages, Captures, Targets
<1>17. ASSUME NEW v \in Views \cup {Nobody}, Looks(v) PROVE TypeOK'
  BY <1>17 DEF TypeOK, Looks, Moves, plan, Targets
<1>18. ASSUME Focus PROVE TypeOK'
  BY <1>18, ViewsAssumption DEF TypeOK, Focus, Moves, plan, Targets
<1>19. ASSUME NEW pid \in Pids, Exits(pid) PROVE TypeOK'
  BY <1>19, WithoutType DEF TypeOK, Exits, Moves, plan, Targets
<1>20. ASSUME NEW pid \in Pids, NEW args \in Args, Starts(pid, args) PROVE TypeOK'
  <2>1. [args |-> args, under |-> args[2]] \in Processes
    BY DEF Args, Processes
  <2>2. procs' \in Tables
    BY <1>20, <2>1 DEF TypeOK, Starts, Tables
  <2>3. QED
    BY <1>20, <2>2 DEF TypeOK, Starts, Moves, plan, Targets
<1>21. ASSUME NEW pid \in Pids, NEW t \in Threads, Works(pid, t) PROVE TypeOK'
  BY <1>21 DEF TypeOK, Works, Moves, plan, Targets, Logs
<1>22. ASSUME NEW t \in Threads, Reports(t) PROVE TypeOK'
  <2>1. PaneOf(logs[t].pid) \in Panes \cup {NoPane}
    BY DEF TypeOK, Logs, Tables, Processes, PaneOf
  <2>2. rows' \in [Threads -> Rows]
    BY <1>22, <2>1 DEF TypeOK, Reports, Rows
  <2>3. QED
    BY <1>22, <2>2 DEF TypeOK, Reports, Moves, plan, Targets
<1>23. ASSUME NEW t \in Threads, Places(t) PROVE TypeOK'
  <2>1. rows[t] \in Rows
    BY DEF TypeOK
  <2>2. rows' \in [Threads -> Rows]
    <3>1. ASSUME NEW p \in Panes \cup {NoPane}, NEW l \in {"alive", "exited"}
          PROVE  [rows[t] EXCEPT !.pane = p, !.liveness = l] \in Rows
      BY <2>1 DEF Rows
    <3>2. \E p \in Panes \cup {NoPane}, l \in {"alive", "exited"} :
             rows' = [rows EXCEPT ![t] = [rows[t] EXCEPT !.pane = p, !.liveness = l]]
      BY <1>23 DEF TypeOK, Places
    <3>3. QED
      BY <3>1, <3>2 DEF TypeOK
  <2>3. QED
    BY <1>23, <2>2 DEF TypeOK, Places, Moves, plan, Targets
<1>24. ASSUME NEW quiet \in SUBSET Threads, HoursPass(quiet) PROVE TypeOK'
  <2>1. rows' \in [Threads -> Rows]
    <3>1. \A row \in Rows : [row EXCEPT !.state = "quiet"] \in Rows
      BY DEF Rows
    <3>2. QED
      BY <1>24, <3>1 DEF TypeOK, HoursPass
  <2>2. logs' \in [Threads -> Logs]
    <3>1. \A log \in Logs : [log EXCEPT !.recent = FALSE] \in Logs
      BY DEF Logs
    <3>2. QED
      BY <1>24, <3>1 DEF TypeOK, HoursPass
  <2>3. QED
    BY <1>24, <2>1, <2>2 DEF TypeOK, HoursPass, Moves, plan, Targets
<1>25. CASE UNCHANGED vars
  BY <1>25 DEF TypeOK, vars, world, plan, kill, Targets
<1>26. QED
  BY <1>1, <1>2, <1>3, <1>4, <1>5, <1>6, <1>7, <1>8, <1>9, <1>10, <1>11, <1>12,
     <1>13, <1>14, <1>15, <1>16, <1>17, <1>18, <1>19, <1>20, <1>21, <1>22, <1>23,
     <1>24, <1>25
     DEF Next, Pass, World

------------------------------------------------------------------------------
(* What a pass has not come to.                                             *)

LEMMA FreshStep ==
    ASSUME TypeOK, Fresh, [Next]_vars
    PROVE  Fresh'
<1>1. ASSUME ViewBefore PROVE Fresh'
  BY <1>1 DEF Fresh, ViewBefore, world, plan, kill, Moves, Late, TypeOK
<1>2. ASSUME FindCandidates PROVE Fresh'
  BY <1>2 DEF Fresh, FindCandidates, EndPass, world, plan, kill, Late
<1>3. ASSUME ReadProcesses PROVE Fresh'
  BY <1>3 DEF Fresh, ReadProcesses, world, plan, kill, Moves, Late, TypeOK
<1>4. ASSUME ReadActivity PROVE Fresh'
  BY <1>4 DEF Fresh, ReadActivity, world, plan, kill, Moves, Late, TypeOK
<1>5. ASSUME NEW c \in Candidate, PlanCandidate(c) PROVE Fresh'
  BY <1>5 DEF Fresh, PlanCandidate, world, plan, kill, Moves, Late, TypeOK
<1>6. ASSUME ReadRunning PROVE Fresh'
  BY <1>6 DEF Fresh, ReadRunning, EndPass, world, plan, kill, Late
<1>7. ASSUME NEW pid \in Pids, Terminate(pid) PROVE Fresh'
  BY <1>7 DEF Fresh, Terminate, world, plan, kill, Moves, Late, TypeOK
<1>8. ASSUME EndTerminate PROVE Fresh'
  BY <1>8 DEF Fresh, EndTerminate, world, plan, kill, Moves, Late, TypeOK
<1>9. ASSUME ReadSurvivors PROVE Fresh'
  BY <1>9 DEF Fresh, ReadSurvivors, world, plan, kill, Moves, Late, TypeOK
<1>10. ASSUME NEW pid \in Pids, FindStopped(pid) PROVE Fresh'
  BY <1>10 DEF Fresh, FindStopped, world, plan, kill, Moves, Late, TypeOK
<1>11. ASSUME NEW pid \in Pids, Escalate(pid) PROVE Fresh'
  BY <1>11 DEF Fresh, Escalate, world, plan, kill, Moves, Late, TypeOK
<1>12. ASSUME ViewSurvivors PROVE Fresh'
  BY <1>12 DEF Fresh, ViewSurvivors, world, plan, kill, Moves, Late, TypeOK
<1>13. ASSUME Recheck PROVE Fresh'
  BY <1>13 DEF Fresh, Recheck, world, plan, kill, Moves, Late, TypeOK
<1>14. ASSUME EndEscalate PROVE Fresh'
  BY <1>14 DEF Fresh, EndEscalate, world, plan, kill, Moves, Late, TypeOK
<1>15. ASSUME ViewAfter PROVE Fresh'
  BY <1>15 DEF Fresh, ViewAfter, world, plan, kill, Moves, Late, TypeOK
<1>16. ASSUME MarkHibernated PROVE Fresh'
  BY <1>16 DEF Fresh, MarkHibernated, EndPass, world, plan, kill, Late
<1>17. ASSUME NEW v \in Views \cup {Nobody}, Looks(v) PROVE Fresh'
  BY <1>17 DEF Fresh, Looks, world, plan, kill, Moves, Late, TypeOK
<1>18. ASSUME Focus PROVE Fresh'
  BY <1>18 DEF Fresh, Focus, world, plan, kill, Moves, Late, TypeOK
<1>19. ASSUME NEW pid \in Pids, Exits(pid) PROVE Fresh'
  BY <1>19 DEF Fresh, Exits, world, plan, kill, Moves, Late, TypeOK
<1>20. ASSUME NEW pid \in Pids, NEW args \in Args, Starts(pid, args) PROVE Fresh'
  BY <1>20 DEF Fresh, Starts, world, plan, kill, Moves, Late, TypeOK
<1>21. ASSUME NEW pid \in Pids, NEW t \in Threads, Works(pid, t) PROVE Fresh'
  BY <1>21 DEF Fresh, Works, world, plan, kill, Moves, Late, TypeOK
<1>22. ASSUME NEW t \in Threads, Reports(t) PROVE Fresh'
  BY <1>22 DEF Fresh, Reports, world, plan, kill, Moves, Late, TypeOK
<1>23. ASSUME NEW t \in Threads, Places(t) PROVE Fresh'
  BY <1>23 DEF Fresh, Places, world, plan, kill, Moves, Late, TypeOK
<1>24. ASSUME NEW quiet \in SUBSET Threads, HoursPass(quiet) PROVE Fresh'
  BY <1>24 DEF Fresh, HoursPass, world, plan, kill, Moves, Late, TypeOK
<1>25. CASE UNCHANGED vars
  BY <1>25 DEF Fresh, vars, plan, kill
<1>26. QED
  BY <1>1, <1>2, <1>3, <1>4, <1>5, <1>6, <1>7, <1>8, <1>9, <1>10, <1>11, <1>12,
     <1>13, <1>14, <1>15, <1>16, <1>17, <1>18, <1>19, <1>20, <1>21, <1>22, <1>23,
     <1>24, <1>25
     DEF Next, Pass, World

LEMMA NothingStartedStep ==
    ASSUME TypeOK, NothingStarted, [Next]_vars
    PROVE  NothingStarted'
<1>1. ASSUME ViewBefore PROVE NothingStarted'
  BY <1>1 DEF NothingStarted, ViewBefore, world, plan, kill, Moves
<1>2. ASSUME FindCandidates PROVE NothingStarted'
  BY <1>2 DEF NothingStarted, FindCandidates, EndPass, ReadsTable, world, plan, kill
<1>3. ASSUME ReadProcesses PROVE NothingStarted'
  BY <1>3 DEF NothingStarted, ReadProcesses
<1>4. ASSUME ReadActivity PROVE NothingStarted'
  BY <1>4 DEF NothingStarted, ReadActivity, world, plan, kill, Moves
<1>5. ASSUME NEW c \in Candidate, PlanCandidate(c) PROVE NothingStarted'
  BY <1>5 DEF NothingStarted, PlanCandidate, world, plan, kill, Moves
<1>6. ASSUME ReadRunning PROVE NothingStarted'
  BY <1>6 DEF NothingStarted, ReadRunning, EndPass, ReadsTable, world, plan, kill
<1>7. ASSUME NEW pid \in Pids, Terminate(pid) PROVE NothingStarted'
  BY <1>7 DEF NothingStarted, Terminate, world, plan, kill, Moves
<1>8. ASSUME EndTerminate PROVE NothingStarted'
  BY <1>8 DEF NothingStarted, EndTerminate, world, plan, kill, Moves
<1>9. ASSUME ReadSurvivors PROVE NothingStarted'
  BY <1>9 DEF NothingStarted, ReadSurvivors, ReadsTable, world
<1>10. ASSUME NEW pid \in Pids, FindStopped(pid) PROVE NothingStarted'
  BY <1>10 DEF NothingStarted, FindStopped, world, plan, kill, Moves
<1>11. ASSUME NEW pid \in Pids, Escalate(pid) PROVE NothingStarted'
  <2> DEFINE hit == {q \in {x[1] : x \in Alive(captured[pid], table)} : procs[q] # Free}
  <2>1. hit \subseteq Pids
    BY DEF TypeOK, Alive, Captures
  <2>2. procs' \in {procs, Without(hit)} /\ stage' = stage /\ table' = table /\ captured' = captured
    BY <1>11 DEF Escalate, plan
  <2>3. QED
    BY <2>1, <2>2, WithoutType DEF NothingStarted
<1>12. ASSUME ViewSurvivors PROVE NothingStarted'
  BY <1>12 DEF NothingStarted, ViewSurvivors, world, plan, kill, Moves
<1>13. ASSUME Recheck PROVE NothingStarted'
  BY <1>13 DEF NothingStarted, Recheck, world, plan, kill, Moves
<1>14. ASSUME EndEscalate PROVE NothingStarted'
  BY <1>14 DEF NothingStarted, EndEscalate, world, plan, kill, Moves
<1>15. ASSUME ViewAfter PROVE NothingStarted'
  BY <1>15 DEF NothingStarted, ViewAfter, world, plan, kill, Moves
<1>16. ASSUME MarkHibernated PROVE NothingStarted'
  BY <1>16 DEF NothingStarted, MarkHibernated, EndPass, ReadsTable, world, plan, kill
<1>17. ASSUME NEW v \in Views \cup {Nobody}, Looks(v) PROVE NothingStarted'
  BY <1>17 DEF NothingStarted, Looks, world, plan, kill, Moves
<1>18. ASSUME Focus PROVE NothingStarted'
  BY <1>18 DEF NothingStarted, Focus, world, plan, kill, Moves
<1>19. ASSUME NEW pid \in Pids, Exits(pid) PROVE NothingStarted'
  BY <1>19, WithoutType DEF NothingStarted, Exits, plan, Moves
<1>20. ASSUME NEW pid \in Pids, NEW args \in Args, Starts(pid, args) PROVE NothingStarted'
  BY <1>20 DEF NothingStarted, Starts, world, plan, kill, Moves
<1>21. ASSUME NEW pid \in Pids, NEW t \in Threads, Works(pid, t) PROVE NothingStarted'
  BY <1>21 DEF NothingStarted, Works, world, plan, kill, Moves
<1>22. ASSUME NEW t \in Threads, Reports(t) PROVE NothingStarted'
  BY <1>22 DEF NothingStarted, Reports, world, plan, kill, Moves
<1>23. ASSUME NEW t \in Threads, Places(t) PROVE NothingStarted'
  BY <1>23 DEF NothingStarted, Places, world, plan, kill, Moves
<1>24. ASSUME NEW quiet \in SUBSET Threads, HoursPass(quiet) PROVE NothingStarted'
  BY <1>24 DEF NothingStarted, HoursPass, world, plan, kill, Moves
<1>25. CASE UNCHANGED vars
  BY <1>25 DEF NothingStarted, vars, world, plan, kill
<1>26. QED
  BY <1>1, <1>2, <1>3, <1>4, <1>5, <1>6, <1>7, <1>8, <1>9, <1>10, <1>11, <1>12,
     <1>13, <1>14, <1>15, <1>16, <1>17, <1>18, <1>19, <1>20, <1>21, <1>22, <1>23,
     <1>24, <1>25
     DEF Next, Pass, World

------------------------------------------------------------------------------
(* What is taken to have stopped has.                                       *)

LEMMA StoppedStep ==
    ASSUME TypeOK, Fresh, NothingStarted, StoppedAreGone, [Next]_vars
    PROVE  StoppedAreGone'
<1>1. ASSUME ViewBefore PROVE StoppedAreGone'
  BY <1>1 DEF StoppedAreGone, ViewBefore, world, plan, kill, Moves
<1>2. ASSUME FindCandidates PROVE StoppedAreGone'
  <2>1. CASE EndPass
    BY <2>1 DEF EndPass, StoppedAreGone
  <2>2. CASE ~EndPass
    BY <1>2, <2>2 DEF FindCandidates, Fresh, StoppedAreGone, Late, world, plan, kill
  <2>3. QED
    BY <2>1, <2>2
<1>3. ASSUME ReadProcesses PROVE StoppedAreGone'
  BY <1>3 DEF ReadProcesses, Fresh, StoppedAreGone, Late, kill
<1>4. ASSUME ReadActivity PROVE StoppedAreGone'
  BY <1>4 DEF StoppedAreGone, ReadActivity, world, plan, kill, Moves
<1>5. ASSUME NEW c \in Candidate, PlanCandidate(c) PROVE StoppedAreGone'
  BY <1>5 DEF PlanCandidate, Fresh, StoppedAreGone, Late, kill
<1>6. ASSUME ReadRunning PROVE StoppedAreGone'
  <2>1. CASE EndPass
    BY <2>1 DEF EndPass, StoppedAreGone
  <2>2. CASE ~EndPass
    BY <1>6, <2>2 DEF ReadRunning, Fresh, StoppedAreGone, Late, world, plan, kill
  <2>3. QED
    BY <2>1, <2>2
<1>7. ASSUME NEW pid \in Pids, Terminate(pid) PROVE StoppedAreGone'
  BY <1>7 DEF StoppedAreGone, Terminate, world, plan, kill, Moves
<1>8. ASSUME EndTerminate PROVE StoppedAreGone'
  BY <1>8 DEF StoppedAreGone, EndTerminate, world, plan, kill, Moves
<1>9. ASSUME ReadSurvivors PROVE StoppedAreGone'
  BY <1>9 DEF ReadSurvivors, Fresh, StoppedAreGone, Late, kill
<1>10. ASSUME NEW pid \in Pids, FindStopped(pid) PROVE StoppedAreGone'
  <2>1. captured[pid] \in Captures
    BY DEF TypeOK
  <2>2. table # NothingRead => Alive(captured[pid], procs) = {}
    BY <1>10, <2>1, AliveShrinks DEF FindStopped, NothingStarted
  <2>3. QED
    BY <1>10, <2>2 DEF FindStopped, StoppedAreGone, world, plan
<1>11. ASSUME NEW pid \in Pids, Escalate(pid) PROVE StoppedAreGone'
  <2> DEFINE hit == {q \in {x[1] : x \in Alive(captured[pid], table)} : procs[q] # Free}
  <2>1. hit \subseteq Pids
    BY DEF TypeOK, Alive, Captures
  <2>2. procs' \in {procs, Without(hit)} /\ stage' = stage /\ table' = table /\ captured' = captured
    BY <1>11 DEF Escalate, plan
  <2>3. procs' \in Tables /\ \A q \in Pids : procs'[q] # Free =>
                procs[q] # Free /\ procs'[q].args = procs[q].args
    BY <2>1, <2>2, WithoutType DEF TypeOK
  <2>4. ASSUME table # NothingRead, NEW r \in stopped PROVE Alive(captured'[r], procs') = {}
    <3>1. captured[r] \in Captures /\ Alive(captured[r], procs) = {}
      BY <2>4 DEF TypeOK, Targets, StoppedAreGone
    <3>2. QED
      BY <3>1, <2>2, <2>3, AliveShrinks
  <2>5. ASSUME table # NothingRead, pid \in stopped', pid \notin stopped
        PROVE  Alive(captured'[pid], procs') = {}
    <3>1. procs' = Without(hit) /\ hit = {x[1] : x \in Alive(captured[pid], table)}
      BY <1>11, <2>5 DEF Escalate
    <3>2. Alive(captured[pid], procs') \subseteq Alive(captured[pid], procs)
      BY <2>3, AliveShrinks DEF TypeOK
    <3>3. Alive(captured[pid], procs) \subseteq Alive(captured[pid], table)
      BY <1>11, <2>5, AliveShrinks DEF Escalate, NothingStarted, TypeOK
    <3>4. ASSUME NEW x \in Alive(captured[pid], procs') PROVE FALSE
      <4>1. x[1] \in hit /\ x[1] \in Pids
        BY <3>1, <3>2, <3>3, <2>1
      <4>2. procs'[x[1]] = Free
        BY <4>1, <3>1, <2>1, WithoutType
      <4>3. QED
        BY <4>2 DEF Alive
    <3>5. QED
      BY <3>4, <2>2
  <2>6. stopped' \subseteq stopped \cup {pid}
    BY <1>11 DEF Escalate
  <2>7. QED
    BY <2>2, <2>4, <2>5, <2>6 DEF StoppedAreGone
<1>12. ASSUME ViewSurvivors PROVE StoppedAreGone'
  BY <1>12 DEF StoppedAreGone, ViewSurvivors, world, plan, kill, Moves
<1>13. ASSUME Recheck PROVE StoppedAreGone'
  BY <1>13 DEF StoppedAreGone, Recheck, world, plan, kill, Moves
<1>14. ASSUME EndEscalate PROVE StoppedAreGone'
  BY <1>14 DEF StoppedAreGone, EndEscalate, world, plan, kill, Moves
<1>15. ASSUME ViewAfter PROVE StoppedAreGone'
  BY <1>15 DEF StoppedAreGone, ViewAfter, world, plan, kill, Moves
<1>16. ASSUME MarkHibernated PROVE StoppedAreGone'
  BY <1>16 DEF MarkHibernated, EndPass, StoppedAreGone
<1>17. ASSUME NEW v \in Views \cup {Nobody}, Looks(v) PROVE StoppedAreGone'
  BY <1>17 DEF StoppedAreGone, Looks, world, plan, kill, Moves
<1>18. ASSUME Focus PROVE StoppedAreGone'
  BY <1>18 DEF StoppedAreGone, Focus, world, plan, kill, Moves
<1>19. ASSUME NEW pid \in Pids, Exits(pid) PROVE StoppedAreGone'
  <2>1. \A q \in Pids : procs'[q] # Free => procs[q] # Free /\ procs'[q].args = procs[q].args
    BY <1>19, WithoutType DEF Exits
  <2>2. ASSUME NEW r \in stopped PROVE captured[r] \in Captures
    BY DEF TypeOK, Targets
  <2>3. QED
    BY <1>19, <2>1, <2>2, AliveShrinks DEF StoppedAreGone, Exits, Moves, plan
<1>20. ASSUME NEW pid \in Pids, NEW args \in Args, Starts(pid, args) PROVE StoppedAreGone'
  <2>1. ASSUME table # NothingRead, NEW r \in stopped, NEW x \in Alive(captured[r], procs')
        PROVE  FALSE
    <3>1. r \in Pids /\ x \in captured[r] /\ x[1] \in Pids /\ x = <<x[1], x[2]>>
      BY <2>1 DEF TypeOK, Targets, Alive, Captures
    <3>2. CASE x[1] = pid
      <4>1. procs'[pid].args = args
        BY <1>20 DEF Starts, TypeOK, Tables
      <4>2. x = <<pid, args>>
        BY <2>1, <3>1, <3>2, <4>1 DEF Alive
      <4>3. QED
        BY <1>20, <3>1, <4>2 DEF Starts
    <3>3. CASE x[1] # pid
      <4>1. procs'[x[1]] = procs[x[1]]
        BY <1>20, <3>1, <3>3 DEF Starts, TypeOK, Tables
      <4>2. x \in Alive(captured[r], procs)
        BY <2>1, <3>1, <4>1 DEF Alive
      <4>3. QED
        BY <2>1, <4>2 DEF StoppedAreGone
    <3>4. QED
      BY <3>2, <3>3
  <2>2. QED
    BY <1>20, <2>1 DEF StoppedAreGone, Starts, Moves, plan
<1>21. ASSUME NEW pid \in Pids, NEW t \in Threads, Works(pid, t) PROVE StoppedAreGone'
  BY <1>21 DEF StoppedAreGone, Works, world, plan, kill, Moves
<1>22. ASSUME NEW t \in Threads, Reports(t) PROVE StoppedAreGone'
  BY <1>22 DEF StoppedAreGone, Reports, world, plan, kill, Moves
<1>23. ASSUME NEW t \in Threads, Places(t) PROVE StoppedAreGone'
  BY <1>23 DEF StoppedAreGone, Places, world, plan, kill, Moves
<1>24. ASSUME NEW quiet \in SUBSET Threads, HoursPass(quiet) PROVE StoppedAreGone'
  BY <1>24 DEF StoppedAreGone, HoursPass, world, plan, kill, Moves
<1>25. CASE UNCHANGED vars
  BY <1>25 DEF StoppedAreGone, vars, world, plan, kill
<1>26. QED
  BY <1>1, <1>2, <1>3, <1>4, <1>5, <1>6, <1>7, <1>8, <1>9, <1>10, <1>11, <1>12,
     <1>13, <1>14, <1>15, <1>16, <1>17, <1>18, <1>19, <1>20, <1>21, <1>22, <1>23,
     <1>24, <1>25
     DEF Next, Pass, World

------------------------------------------------------------------------------
(* One target for what is captured.                                         *)

LEMMA OneAgentStep ==
    ASSUME TypeOK, OneAgent(procs), OneAgent(table), [Next]_vars
    PROVE  OneAgent(procs)' /\ OneAgent(table)'
<1>1. ASSUME ViewBefore PROVE OneAgent(procs)' /\ OneAgent(table)'
  BY <1>1 DEF OneAgent, ViewBefore, world, plan, kill, Moves
<1>2. ASSUME FindCandidates PROVE OneAgent(procs)' /\ OneAgent(table)'
  BY <1>2 DEF OneAgent, NothingRead, FindCandidates, EndPass, ReadsTable, world, plan, kill
<1>3. ASSUME ReadProcesses PROVE OneAgent(procs)' /\ OneAgent(table)'
  BY <1>3 DEF OneAgent, NothingRead, ReadProcesses, ReadsTable, world
<1>4. ASSUME ReadActivity PROVE OneAgent(procs)' /\ OneAgent(table)'
  BY <1>4 DEF OneAgent, ReadActivity, world, plan, kill, Moves
<1>5. ASSUME NEW c \in Candidate, PlanCandidate(c) PROVE OneAgent(procs)' /\ OneAgent(table)'
  BY <1>5 DEF OneAgent, PlanCandidate, world, plan, kill, Moves
<1>6. ASSUME ReadRunning PROVE OneAgent(procs)' /\ OneAgent(table)'
  BY <1>6 DEF OneAgent, NothingRead, ReadRunning, EndPass, ReadsTable, world, plan, kill
<1>7. ASSUME NEW pid \in Pids, Terminate(pid) PROVE OneAgent(procs)' /\ OneAgent(table)'
  BY <1>7 DEF OneAgent, Terminate, world, plan, kill, Moves
<1>8. ASSUME EndTerminate PROVE OneAgent(procs)' /\ OneAgent(table)'
  BY <1>8 DEF OneAgent, EndTerminate, world, plan, kill, Moves
<1>9. ASSUME ReadSurvivors PROVE OneAgent(procs)' /\ OneAgent(table)'
  BY <1>9 DEF OneAgent, NothingRead, ReadSurvivors, ReadsTable, world
<1>10. ASSUME NEW pid \in Pids, FindStopped(pid) PROVE OneAgent(procs)' /\ OneAgent(table)'
  BY <1>10 DEF OneAgent, FindStopped, world, plan, kill, Moves
<1>11. ASSUME NEW pid \in Pids, Escalate(pid) PROVE OneAgent(procs)' /\ OneAgent(table)'
  <2> DEFINE hit == {q \in {x[1] : x \in Alive(captured[pid], table)} : procs[q] # Free}
  <2>1. hit \subseteq Pids
    BY DEF TypeOK, Alive, Captures
  <2>2. procs' \in {procs, Without(hit)} /\ stage' = stage /\ table' = table /\ captured' = captured
    BY <1>11 DEF Escalate, plan
  <2>9. OneAgent(procs)'
    <3>1. \A q \in Pids : procs'[q] # Free =>
            /\ procs[q] # Free /\ procs'[q].args = procs[q].args
            /\ procs'[q].under \in {procs[q].under, NoPane}
      BY <2>1, <2>2, WithoutType
    <3>2. QED
      BY <3>1, NoPaneAssumption DEF OneAgent
  <2>3. QED
    BY <2>2, <2>9 DEF OneAgent
<1>12. ASSUME ViewSurvivors PROVE OneAgent(procs)' /\ OneAgent(table)'
  BY <1>12 DEF OneAgent, ViewSurvivors, world, plan, kill, Moves
<1>13. ASSUME Recheck PROVE OneAgent(procs)' /\ OneAgent(table)'
  BY <1>13 DEF OneAgent, Recheck, world, plan, kill, Moves
<1>14. ASSUME EndEscalate PROVE OneAgent(procs)' /\ OneAgent(table)'
  BY <1>14 DEF OneAgent, EndEscalate, world, plan, kill, Moves
<1>15. ASSUME ViewAfter PROVE OneAgent(procs)' /\ OneAgent(table)'
  BY <1>15 DEF OneAgent, ViewAfter, world, plan, kill, Moves
<1>16. ASSUME MarkHibernated PROVE OneAgent(procs)' /\ OneAgent(table)'
  BY <1>16 DEF OneAgent, NothingRead, MarkHibernated, EndPass, ReadsTable, world, plan, kill
<1>17. ASSUME NEW v \in Views \cup {Nobody}, Looks(v) PROVE OneAgent(procs)' /\ OneAgent(table)'
  BY <1>17 DEF OneAgent, Looks, world, plan, kill, Moves
<1>18. ASSUME Focus PROVE OneAgent(procs)' /\ OneAgent(table)'
  BY <1>18 DEF OneAgent, Focus, world, plan, kill, Moves
<1>19. ASSUME NEW pid \in Pids, Exits(pid) PROVE OneAgent(procs)' /\ OneAgent(table)'
  <2>9. OneAgent(procs)'
    <3>1. \A q \in Pids : procs'[q] # Free =>
            /\ procs[q] # Free /\ procs'[q].args = procs[q].args
            /\ procs'[q].under \in {procs[q].under, NoPane}
      BY <1>19, WithoutType DEF Exits
    <3>2. QED
      BY <3>1, NoPaneAssumption DEF OneAgent
  <2>3. QED
    BY <1>19, <2>9 DEF Exits, Moves, plan, OneAgent
<1>20. ASSUME NEW pid \in Pids, NEW args \in Args, Starts(pid, args) PROVE OneAgent(procs)' /\ OneAgent(table)'
  <2>1. procs' = [procs EXCEPT ![pid] = [args |-> args, under |-> args[2]]] /\ procs \in Tables
    BY <1>20 DEF Starts, TypeOK
  <2>2. procs'[pid] = [args |-> args, under |-> args[2]] /\ \A q \in Pids \ {pid} : procs'[q] = procs[q]
    BY <2>1 DEF Tables
  <2>3. args[1] = "agent" => \A q \in Pids : ~(procs[q] # Free /\ procs[q].under = args[2]
                                              /\ procs[q].args[1] = "agent")
    BY <1>20 DEF Starts, AgentsUnder
  <2>4. OneAgent(procs)'
    BY <2>2, <2>3 DEF OneAgent
  <2>5. QED
    BY <1>20, <2>4 DEF Starts, Moves, plan, OneAgent
<1>21. ASSUME NEW pid \in Pids, NEW t \in Threads, Works(pid, t) PROVE OneAgent(procs)' /\ OneAgent(table)'
  BY <1>21 DEF OneAgent, Works, world, plan, kill, Moves
<1>22. ASSUME NEW t \in Threads, Reports(t) PROVE OneAgent(procs)' /\ OneAgent(table)'
  BY <1>22 DEF OneAgent, Reports, world, plan, kill, Moves
<1>23. ASSUME NEW t \in Threads, Places(t) PROVE OneAgent(procs)' /\ OneAgent(table)'
  BY <1>23 DEF OneAgent, Places, world, plan, kill, Moves
<1>24. ASSUME NEW quiet \in SUBSET Threads, HoursPass(quiet) PROVE OneAgent(procs)' /\ OneAgent(table)'
  BY <1>24 DEF OneAgent, HoursPass, world, plan, kill, Moves
<1>25. CASE UNCHANGED vars
  BY <1>25 DEF OneAgent, vars, world, plan
<1>26. QED
  BY <1>1, <1>2, <1>3, <1>4, <1>5, <1>6, <1>7, <1>8, <1>9, <1>10, <1>11, <1>12,
     <1>13, <1>14, <1>15, <1>16, <1>17, <1>18, <1>19, <1>20, <1>21, <1>22, <1>23,
     <1>24, <1>25
     DEF Next, Pass, World

LEMMA CapturedStep ==
    ASSUME TypeOK, Fresh, OneAgent(table), CapturedFromTable, [Next]_vars
    PROVE  CapturedFromTable'
<1>1. ASSUME ViewBefore PROVE CapturedFromTable'
  BY <1>1 DEF CapturedFromTable, ViewBefore, world, plan, kill, Moves, AgentsUnder, CapturedUnder
<1>2. ASSUME FindCandidates PROVE CapturedFromTable'
  <2>1. CASE EndPass
    BY <2>1 DEF EndPass, CapturedFromTable
  <2>2. CASE ~EndPass
    BY <1>2, <2>2 DEF FindCandidates, CapturedFromTable, plan
  <2>3. QED
    BY <2>1, <2>2
<1>3. ASSUME ReadProcesses PROVE CapturedFromTable'
  BY <1>3 DEF CapturedFromTable, ReadProcesses, world, plan, kill, Moves, AgentsUnder, CapturedUnder
<1>4. ASSUME ReadActivity PROVE CapturedFromTable'
  BY <1>4 DEF ReadActivity, Fresh, CapturedFromTable
<1>5. ASSUME NEW c \in Candidate, PlanCandidate(c) PROVE CapturedFromTable'
  <2>1. CASE UNCHANGED <<planned, captured>>
    BY <1>5, <2>1 DEF PlanCandidate, CapturedFromTable, AgentsUnder, CapturedUnder
  <2>2. ASSUME NEW pid \in AgentsUnder(c[2], table),
               captured' = [captured EXCEPT ![pid] = CapturedUnder(c[2], table)]
        PROVE  CapturedFromTable'
    <3>1. stage' = stage /\ table' = table /\ stage = "planning" /\ c[2] \in Panes /\ pid \in Pids
      BY <1>5 DEF PlanCandidate, Candidate, AgentsUnder
    <3>2. captured'[pid] = CapturedUnder(c[2], table) /\ \A q \in Pids \ {pid} : captured'[q] = captured[q]
      BY <2>2, <3>1 DEF TypeOK
    <3>3. ASSUME NEW q \in Pids \ {pid}, captured[q] \cap CapturedUnder(c[2], table) # {}
          PROVE  FALSE
      <4>1. captured[q] # {}
        BY <3>3
      <4>2. PICK p \in Panes : q \in AgentsUnder(p, table) /\ captured[q] = CapturedUnder(p, table)
        BY <3>1, <4>1 DEF CapturedFromTable
      <4>3. PICK x \in captured[q] : x \in CapturedUnder(c[2], table)
        BY <3>3
      <4>4. p = c[2]
        BY <4>2, <4>3 DEF CapturedUnder
      <4>5. /\ q \in Pids /\ table[q] # Free /\ table[q].args[1] = "agent" /\ table[q].under = p
            /\ table[pid] # Free /\ table[pid].args[1] = "agent" /\ table[pid].under = p
        BY <4>2, <4>4, <2>2 DEF AgentsUnder
      <4>6. q = pid
        BY <4>5, <3>1 DEF OneAgent
      <4>7. QED
        BY <4>6
    <3>4. \A q, r \in Pids : captured'[q] \cap captured'[r] # {} => q = r
      BY <3>2, <3>3 DEF CapturedFromTable
    <3>5. ASSUME NEW q \in Pids, captured'[q] # {}
          PROVE  \E p \in Panes : q \in AgentsUnder(p, table) /\ captured'[q] = CapturedUnder(p, table)
      <4>1. CASE q = pid
        BY <4>1, <3>1, <3>2, <2>2
      <4>2. CASE q # pid
        BY <4>2, <3>1, <3>2, <3>5 DEF CapturedFromTable
      <4>3. QED
        BY <4>1, <4>2
    <3>6. QED
      BY <3>1, <3>4, <3>5 DEF CapturedFromTable, AgentsUnder, CapturedUnder
  <2>3. QED
    BY <1>5, <2>1, <2>2 DEF PlanCandidate
<1>6. ASSUME ReadRunning PROVE CapturedFromTable'
  <2>1. CASE EndPass
    BY <2>1 DEF EndPass, CapturedFromTable
  <2>2. CASE ~EndPass
    BY <1>6, <2>2 DEF ReadRunning, CapturedFromTable, plan
  <2>3. QED
    BY <2>1, <2>2
<1>7. ASSUME NEW pid \in Pids, Terminate(pid) PROVE CapturedFromTable'
  BY <1>7 DEF CapturedFromTable, Terminate, world, plan, kill, Moves, AgentsUnder, CapturedUnder
<1>8. ASSUME EndTerminate PROVE CapturedFromTable'
  BY <1>8 DEF CapturedFromTable, EndTerminate, world, plan, kill, Moves, AgentsUnder, CapturedUnder
<1>9. ASSUME ReadSurvivors PROVE CapturedFromTable'
  BY <1>9 DEF CapturedFromTable, ReadSurvivors, world, plan, kill, Moves, AgentsUnder, CapturedUnder
<1>10. ASSUME NEW pid \in Pids, FindStopped(pid) PROVE CapturedFromTable'
  BY <1>10 DEF CapturedFromTable, FindStopped, world, plan, kill, Moves, AgentsUnder, CapturedUnder
<1>11. ASSUME NEW pid \in Pids, Escalate(pid) PROVE CapturedFromTable'
  BY <1>11 DEF CapturedFromTable, Escalate, world, plan, kill, Moves, AgentsUnder, CapturedUnder
<1>12. ASSUME ViewSurvivors PROVE CapturedFromTable'
  BY <1>12 DEF CapturedFromTable, ViewSurvivors, world, plan, kill, Moves, AgentsUnder, CapturedUnder
<1>13. ASSUME Recheck PROVE CapturedFromTable'
  BY <1>13 DEF CapturedFromTable, Recheck, world, plan, kill, Moves, AgentsUnder, CapturedUnder
<1>14. ASSUME EndEscalate PROVE CapturedFromTable'
  BY <1>14 DEF CapturedFromTable, EndEscalate, world, plan, kill, Moves, AgentsUnder, CapturedUnder
<1>15. ASSUME ViewAfter PROVE CapturedFromTable'
  BY <1>15 DEF CapturedFromTable, ViewAfter, world, plan, kill, Moves, AgentsUnder, CapturedUnder
<1>16. ASSUME MarkHibernated PROVE CapturedFromTable'
  BY <1>16 DEF MarkHibernated, EndPass, CapturedFromTable
<1>17. ASSUME NEW v \in Views \cup {Nobody}, Looks(v) PROVE CapturedFromTable'
  BY <1>17 DEF CapturedFromTable, Looks, world, plan, kill, Moves, AgentsUnder, CapturedUnder
<1>18. ASSUME Focus PROVE CapturedFromTable'
  BY <1>18 DEF CapturedFromTable, Focus, world, plan, kill, Moves, AgentsUnder, CapturedUnder
<1>19. ASSUME NEW pid \in Pids, Exits(pid) PROVE CapturedFromTable'
  BY <1>19 DEF CapturedFromTable, Exits, world, plan, kill, Moves, AgentsUnder, CapturedUnder
<1>20. ASSUME NEW pid \in Pids, NEW args \in Args, Starts(pid, args) PROVE CapturedFromTable'
  BY <1>20 DEF CapturedFromTable, Starts, world, plan, kill, Moves, AgentsUnder, CapturedUnder
<1>21. ASSUME NEW pid \in Pids, NEW t \in Threads, Works(pid, t) PROVE CapturedFromTable'
  BY <1>21 DEF CapturedFromTable, Works, world, plan, kill, Moves, AgentsUnder, CapturedUnder
<1>22. ASSUME NEW t \in Threads, Reports(t) PROVE CapturedFromTable'
  BY <1>22 DEF CapturedFromTable, Reports, world, plan, kill, Moves, AgentsUnder, CapturedUnder
<1>23. ASSUME NEW t \in Threads, Places(t) PROVE CapturedFromTable'
  BY <1>23 DEF CapturedFromTable, Places, world, plan, kill, Moves, AgentsUnder, CapturedUnder
<1>24. ASSUME NEW quiet \in SUBSET Threads, HoursPass(quiet) PROVE CapturedFromTable'
  BY <1>24 DEF CapturedFromTable, HoursPass, world, plan, kill, Moves, AgentsUnder, CapturedUnder
<1>25. CASE UNCHANGED vars
  BY <1>25 DEF CapturedFromTable, vars, plan, AgentsUnder, CapturedUnder
<1>26. QED
  BY <1>1, <1>2, <1>3, <1>4, <1>5, <1>6, <1>7, <1>8, <1>9, <1>10, <1>11, <1>12,
     <1>13, <1>14, <1>15, <1>16, <1>17, <1>18, <1>19, <1>20, <1>21, <1>22, <1>23,
     <1>24, <1>25
     DEF Next, Pass, World

------------------------------------------------------------------------------
(* Who is signalled.                                                        *)

(* The escalation kills survivors of a target that is still wanted, with    *)
(* the command line they were captured with.                                *)
LEMMA EscalateSignals ==
    ASSUME TypeOK, NothingStarted, NEW pid \in Pids, Escalate(pid),
           NEW s \in signals', s \notin signals
    PROVE  s[3] = "KILL" /\ <<s[1], s[2]>> \in captured[pid] /\ StillWanted(pid)
<1> DEFINE hit == {q \in {x[1] : x \in Alive(captured[pid], table)} : procs[q] # Free}
<1>1. StillWanted(pid) /\ signals' = signals \cup {<<q, procs[q].args, "KILL">> : q \in hit}
  BY DEF Escalate
<1>2. PICK q \in hit : s = <<q, procs[q].args, "KILL">>
  BY <1>1
<1>3. PICK x \in Alive(captured[pid], table) : x[1] = q
  BY <1>2
<1>4. x \in captured[pid] /\ table[q] # Free /\ table[q].args = x[2]
  BY <1>3 DEF Alive
<1>5. q \in Pids /\ x = <<q, x[2]>>
  BY <1>3, <1>4 DEF TypeOK, Captures
<1>6. procs[q].args = table[q].args
  <2>1. table # NothingRead
    BY <1>4, <1>5 DEF NothingRead
  <2>2. QED
    BY <1>2, <1>5, <2>1 DEF Escalate, NothingStarted
<1>7. QED
  BY <1>1, <1>2, <1>4, <1>5, <1>6

LEMMA SignalsStep ==
    ASSUME TypeOK, Fresh, NothingStarted, OnlyCapturedAreSignalled, [Next]_vars
    PROVE  OnlyCapturedAreSignalled'
<1>1. ASSUME ViewBefore PROVE OnlyCapturedAreSignalled'
  BY <1>1 DEF OnlyCapturedAreSignalled, ViewBefore, world, plan, kill, Moves
<1>2. ASSUME FindCandidates PROVE OnlyCapturedAreSignalled'
  <2>1. CASE EndPass
    BY <2>1 DEF EndPass, OnlyCapturedAreSignalled
  <2>2. CASE ~EndPass
    BY <1>2, <2>2 DEF FindCandidates, OnlyCapturedAreSignalled, plan, kill
  <2>3. QED
    BY <2>1, <2>2
<1>3. ASSUME ReadProcesses PROVE OnlyCapturedAreSignalled'
  BY <1>3 DEF OnlyCapturedAreSignalled, ReadProcesses, world, plan, kill, Moves
<1>4. ASSUME ReadActivity PROVE OnlyCapturedAreSignalled'
  BY <1>4 DEF OnlyCapturedAreSignalled, ReadActivity, world, plan, kill, Moves
<1>5. ASSUME NEW c \in Candidate, PlanCandidate(c) PROVE OnlyCapturedAreSignalled'
  BY <1>5 DEF PlanCandidate, Fresh, OnlyCapturedAreSignalled, kill
<1>6. ASSUME ReadRunning PROVE OnlyCapturedAreSignalled'
  <2>1. CASE EndPass
    BY <2>1 DEF EndPass, OnlyCapturedAreSignalled
  <2>2. CASE ~EndPass
    BY <1>6, <2>2 DEF ReadRunning, OnlyCapturedAreSignalled, plan, kill
  <2>3. QED
    BY <2>1, <2>2
<1>7. ASSUME NEW pid \in Pids, Terminate(pid) PROVE OnlyCapturedAreSignalled'
  <2>1. CASE UNCHANGED signals
    BY <1>7, <2>1 DEF Terminate, plan, OnlyCapturedAreSignalled
  <2>2. CASE signals' # signals
    <3>1. StillSelected(pid) /\ procs[pid] # Free
          /\ signals' = signals \cup {<<pid, procs[pid].args, "TERM">>}
      BY <1>7, <2>2 DEF Terminate
    <3>2. PICK a \in Args : <<pid, a>> \in captured[pid] /\ table[pid] # Free /\ table[pid].args = a
      BY <3>1 DEF StillSelected, Alive
    <3>3. table # NothingRead
      BY <3>2 DEF NothingRead
    <3>4. procs[pid].args = a
      BY <1>7, <3>1, <3>2, <3>3 DEF Terminate, NothingStarted
    <3>5. PICK x \in planned : x.target = pid
      BY <1>7 DEF Terminate, TypeOK, Targets
    <3>6. QED
      BY <1>7, <3>1, <3>2, <3>4, <3>5 DEF Terminate, plan, OnlyCapturedAreSignalled
  <2>3. QED
    BY <2>1, <2>2
<1>8. ASSUME EndTerminate PROVE OnlyCapturedAreSignalled'
  BY <1>8 DEF OnlyCapturedAreSignalled, EndTerminate, world, plan, kill, Moves
<1>9. ASSUME ReadSurvivors PROVE OnlyCapturedAreSignalled'
  BY <1>9 DEF OnlyCapturedAreSignalled, ReadSurvivors, world, plan, kill, Moves
<1>10. ASSUME NEW pid \in Pids, FindStopped(pid) PROVE OnlyCapturedAreSignalled'
  BY <1>10 DEF OnlyCapturedAreSignalled, FindStopped, world, plan, kill, Moves
<1>11. ASSUME NEW pid \in Pids, Escalate(pid) PROVE OnlyCapturedAreSignalled'
  <2> DEFINE hit == {q \in {x[1] : x \in Alive(captured[pid], table)} : procs[q] # Free}
  <2>1. hit \subseteq Pids
    BY DEF TypeOK, Alive, Captures
  <2>2. procs' \in {procs, Without(hit)} /\ stage' = stage /\ table' = table /\ captured' = captured
    BY <1>11 DEF Escalate, plan
  <2>3. ASSUME NEW s \in signals', s \notin signals
        PROVE  s[3] = "KILL" /\ <<s[1], s[2]>> \in captured[pid] /\ StillWanted(pid)
    BY <1>11, <2>3, EscalateSignals
  <2>4. PICK x \in planned : x.target = pid
    BY <1>11 DEF Escalate, TypeOK, Targets
  <2>5. QED
    BY <1>11, <2>3, <2>4 DEF Escalate, plan, OnlyCapturedAreSignalled
<1>12. ASSUME ViewSurvivors PROVE OnlyCapturedAreSignalled'
  BY <1>12 DEF OnlyCapturedAreSignalled, ViewSurvivors, world, plan, kill, Moves
<1>13. ASSUME Recheck PROVE OnlyCapturedAreSignalled'
  BY <1>13 DEF OnlyCapturedAreSignalled, Recheck, world, plan, kill, Moves
<1>14. ASSUME EndEscalate PROVE OnlyCapturedAreSignalled'
  BY <1>14 DEF OnlyCapturedAreSignalled, EndEscalate, world, plan, kill, Moves
<1>15. ASSUME ViewAfter PROVE OnlyCapturedAreSignalled'
  BY <1>15 DEF OnlyCapturedAreSignalled, ViewAfter, world, plan, kill, Moves
<1>16. ASSUME MarkHibernated PROVE OnlyCapturedAreSignalled'
  BY <1>16 DEF MarkHibernated, EndPass, OnlyCapturedAreSignalled
<1>17. ASSUME NEW v \in Views \cup {Nobody}, Looks(v) PROVE OnlyCapturedAreSignalled'
  BY <1>17 DEF OnlyCapturedAreSignalled, Looks, world, plan, kill, Moves
<1>18. ASSUME Focus PROVE OnlyCapturedAreSignalled'
  BY <1>18 DEF OnlyCapturedAreSignalled, Focus, world, plan, kill, Moves
<1>19. ASSUME NEW pid \in Pids, Exits(pid) PROVE OnlyCapturedAreSignalled'
  BY <1>19 DEF OnlyCapturedAreSignalled, Exits, world, plan, kill, Moves
<1>20. ASSUME NEW pid \in Pids, NEW args \in Args, Starts(pid, args) PROVE OnlyCapturedAreSignalled'
  BY <1>20 DEF OnlyCapturedAreSignalled, Starts, world, plan, kill, Moves
<1>21. ASSUME NEW pid \in Pids, NEW t \in Threads, Works(pid, t) PROVE OnlyCapturedAreSignalled'
  BY <1>21 DEF OnlyCapturedAreSignalled, Works, world, plan, kill, Moves
<1>22. ASSUME NEW t \in Threads, Reports(t) PROVE OnlyCapturedAreSignalled'
  BY <1>22 DEF OnlyCapturedAreSignalled, Reports, world, plan, kill, Moves
<1>23. ASSUME NEW t \in Threads, Places(t) PROVE OnlyCapturedAreSignalled'
  BY <1>23 DEF OnlyCapturedAreSignalled, Places, world, plan, kill, Moves
<1>24. ASSUME NEW quiet \in SUBSET Threads, HoursPass(quiet) PROVE OnlyCapturedAreSignalled'
  BY <1>24 DEF OnlyCapturedAreSignalled, HoursPass, world, plan, kill, Moves
<1>25. CASE UNCHANGED vars
  BY <1>25 DEF OnlyCapturedAreSignalled, vars, plan, kill
<1>26. QED
  BY <1>1, <1>2, <1>3, <1>4, <1>5, <1>6, <1>7, <1>8, <1>9, <1>10, <1>11, <1>12,
     <1>13, <1>14, <1>15, <1>16, <1>17, <1>18, <1>19, <1>20, <1>21, <1>22, <1>23,
     <1>24, <1>25
     DEF Next, Pass, World

------------------------------------------------------------------------------
(* A row is planned once.                                                   *)

LEMMA PlannedStep ==
    ASSUME TypeOK, Fresh, PlannedOnce, [Next]_vars
    PROVE  PlannedOnce'
<1>1. ASSUME ViewBefore PROVE PlannedOnce'
  BY <1>1 DEF PlannedOnce, ViewBefore, plan, Moves
<1>2. ASSUME FindCandidates PROVE PlannedOnce'
  <2>1. CASE EndPass
    BY <2>1 DEF EndPass, PlannedOnce
  <2>2. CASE ~EndPass
    <3>1. candidates' = HibernationCandidates(protected.sessions) /\ planned' = planned /\ planned = {}
      BY <1>2, <2>2 DEF FindCandidates, Fresh
    <3>2. \A c, d \in candidates' : c[1] = d[1] => c = d
      BY <3>1 DEF HibernationCandidates, Candidate
    <3>3. QED
      BY <3>1, <3>2 DEF PlannedOnce
  <2>3. QED
    BY <2>1, <2>2
<1>3. ASSUME ReadProcesses PROVE PlannedOnce'
  BY <1>3 DEF PlannedOnce, ReadProcesses, plan, Moves
<1>4. ASSUME ReadActivity PROVE PlannedOnce'
  BY <1>4 DEF PlannedOnce, ReadActivity, plan, Moves
<1>5. ASSUME NEW c \in Candidate, PlanCandidate(c) PROVE PlannedOnce'
  <2>1. /\ candidates' = candidates \ {c} /\ c \in candidates
        /\ \/ planned' = planned
           \/ \E pid \in AgentsUnder(c[2], table) : planned' = planned \cup {[candidate |-> c, target |-> pid]}
    BY <1>5 DEF PlanCandidate
  <2>2. QED
    BY <2>1 DEF PlannedOnce
<1>6. ASSUME ReadRunning PROVE PlannedOnce'
  <2>1. CASE EndPass
    BY <2>1 DEF EndPass, PlannedOnce
  <2>2. CASE ~EndPass
    BY <1>6, <2>2 DEF ReadRunning, PlannedOnce
  <2>3. QED
    BY <2>1, <2>2
<1>7. ASSUME NEW pid \in Pids, Terminate(pid) PROVE PlannedOnce'
  BY <1>7 DEF PlannedOnce, Terminate, plan, Moves
<1>8. ASSUME EndTerminate PROVE PlannedOnce'
  BY <1>8 DEF PlannedOnce, EndTerminate, plan, Moves
<1>9. ASSUME ReadSurvivors PROVE PlannedOnce'
  BY <1>9 DEF PlannedOnce, ReadSurvivors, plan, Moves
<1>10. ASSUME NEW pid \in Pids, FindStopped(pid) PROVE PlannedOnce'
  BY <1>10 DEF PlannedOnce, FindStopped, plan, Moves
<1>11. ASSUME NEW pid \in Pids, Escalate(pid) PROVE PlannedOnce'
  BY <1>11 DEF PlannedOnce, Escalate, plan, Moves
<1>12. ASSUME ViewSurvivors PROVE PlannedOnce'
  BY <1>12 DEF PlannedOnce, ViewSurvivors, plan, Moves
<1>13. ASSUME Recheck PROVE PlannedOnce'
  BY <1>13 DEF PlannedOnce, Recheck, plan, Moves
<1>14. ASSUME EndEscalate PROVE PlannedOnce'
  BY <1>14 DEF PlannedOnce, EndEscalate, plan, Moves
<1>15. ASSUME ViewAfter PROVE PlannedOnce'
  BY <1>15 DEF PlannedOnce, ViewAfter, plan, Moves
<1>16. ASSUME MarkHibernated PROVE PlannedOnce'
  BY <1>16 DEF MarkHibernated, EndPass, PlannedOnce
<1>17. ASSUME NEW v \in Views \cup {Nobody}, Looks(v) PROVE PlannedOnce'
  BY <1>17 DEF PlannedOnce, Looks, plan, Moves
<1>18. ASSUME Focus PROVE PlannedOnce'
  BY <1>18 DEF PlannedOnce, Focus, plan, Moves
<1>19. ASSUME NEW pid \in Pids, Exits(pid) PROVE PlannedOnce'
  BY <1>19 DEF PlannedOnce, Exits, plan, Moves
<1>20. ASSUME NEW pid \in Pids, NEW args \in Args, Starts(pid, args) PROVE PlannedOnce'
  BY <1>20 DEF PlannedOnce, Starts, plan, Moves
<1>21. ASSUME NEW pid \in Pids, NEW t \in Threads, Works(pid, t) PROVE PlannedOnce'
  BY <1>21 DEF PlannedOnce, Works, plan, Moves
<1>22. ASSUME NEW t \in Threads, Reports(t) PROVE PlannedOnce'
  BY <1>22 DEF PlannedOnce, Reports, plan, Moves
<1>23. ASSUME NEW t \in Threads, Places(t) PROVE PlannedOnce'
  BY <1>23 DEF PlannedOnce, Places, plan, Moves
<1>24. ASSUME NEW quiet \in SUBSET Threads, HoursPass(quiet) PROVE PlannedOnce'
  BY <1>24 DEF PlannedOnce, HoursPass, plan, Moves
<1>25. CASE UNCHANGED vars
  BY <1>25 DEF PlannedOnce, vars, plan
<1>26. QED
  BY <1>1, <1>2, <1>3, <1>4, <1>5, <1>6, <1>7, <1>8, <1>9, <1>10, <1>11, <1>12,
     <1>13, <1>14, <1>15, <1>16, <1>17, <1>18, <1>19, <1>20, <1>21, <1>22, <1>23,
     <1>24, <1>25
     DEF Next, Pass, World

------------------------------------------------------------------------------
(* Who is spared.                                                           *)

LEMMA WokenStep ==
    ASSUME TypeOK, Fresh, WokenIsSeen, [Next]_vars
    PROVE  WokenIsSeen'
<1>1. ASSUME ViewBefore PROVE WokenIsSeen'
  <2>1. InUse' = InUse /\ woken' = woken /\ still' = still
    BY <1>1 DEF ViewBefore, world, plan, kill, InUse, Viewed, HibernationCandidates, BusyIn, BusyUnplaced, Busy, Unplaced
  <2>2. QED
    BY <1>1, <2>1 DEF ViewBefore, WokenIsSeen, plan
<1>2. ASSUME FindCandidates PROVE WokenIsSeen'
  <2>1. CASE EndPass
    BY <2>1 DEF EndPass, WokenIsSeen
  <2>2. CASE ~EndPass
    <3>3. UNCHANGED <<planned, rows, client, focused, woken, still>>
      BY <1>2, <2>2 DEF FindCandidates, world, kill
    <3>1. InUse' = InUse /\ woken' = woken /\ still' = still
      BY <3>3 DEF InUse, Viewed, HibernationCandidates, BusyIn, BusyUnplaced, Busy, Unplaced
    <3>2. QED
      BY <1>2, <2>2, <3>1 DEF FindCandidates, WokenIsSeen, plan
  <2>3. QED
    BY <2>1, <2>2
<1>3. ASSUME ReadProcesses PROVE WokenIsSeen'
  <2>1. InUse' = InUse /\ woken' = woken /\ still' = still
    BY <1>3 DEF ReadProcesses, world, plan, kill, InUse, Viewed, HibernationCandidates, BusyIn, BusyUnplaced, Busy, Unplaced
  <2>2. QED
    BY <1>3, <2>1 DEF ReadProcesses, WokenIsSeen, plan
<1>4. ASSUME ReadActivity PROVE WokenIsSeen'
  <2>1. InUse' = InUse /\ woken' = woken /\ still' = still
    BY <1>4 DEF ReadActivity, world, plan, kill, InUse, Viewed, HibernationCandidates, BusyIn, BusyUnplaced, Busy, Unplaced
  <2>2. QED
    BY <1>4, <2>1 DEF ReadActivity, WokenIsSeen, plan
<1>5. ASSUME NEW c \in Candidate, PlanCandidate(c) PROVE WokenIsSeen'
  BY <1>5 DEF PlanCandidate, Fresh, Late, kill, WokenIsSeen
<1>6. ASSUME ReadRunning PROVE WokenIsSeen'
  <2>1. CASE EndPass
    BY <2>1 DEF EndPass, WokenIsSeen
  <2>2. CASE ~EndPass
    <3>3. UNCHANGED <<planned, rows, client, focused, woken, still>>
      BY <1>6, <2>2 DEF ReadRunning, world, kill
    <3>1. InUse' = InUse /\ woken' = woken /\ still' = still
      BY <3>3 DEF InUse, Viewed, HibernationCandidates, BusyIn, BusyUnplaced, Busy, Unplaced
    <3>2. QED
      BY <1>6, <2>2, <3>1 DEF ReadRunning, WokenIsSeen, plan
  <2>3. QED
    BY <2>1, <2>2
<1>7. ASSUME NEW pid \in Pids, Terminate(pid) PROVE WokenIsSeen'
  <2>1. InUse' = InUse /\ woken' = woken /\ still' = still
    BY <1>7 DEF Terminate, world, plan, kill, InUse, Viewed, HibernationCandidates, BusyIn, BusyUnplaced, Busy, Unplaced
  <2>2. QED
    BY <1>7, <2>1 DEF Terminate, WokenIsSeen, plan
<1>8. ASSUME EndTerminate PROVE WokenIsSeen'
  <2>1. InUse' = InUse /\ woken' = woken /\ still' = still
    BY <1>8 DEF EndTerminate, world, plan, kill, InUse, Viewed, HibernationCandidates, BusyIn, BusyUnplaced, Busy, Unplaced
  <2>2. QED
    BY <1>8, <2>1 DEF EndTerminate, WokenIsSeen, plan
<1>9. ASSUME ReadSurvivors PROVE WokenIsSeen'
  <2>1. InUse' = InUse /\ woken' = InUse /\ still' = {} /\ stage' = "escalating"
    BY <1>9 DEF ReadSurvivors, world, Fresh, Late, InUse, Viewed, HibernationCandidates, BusyIn, BusyUnplaced, Busy, Unplaced
  <2>2. QED
    BY <2>1 DEF WokenIsSeen
<1>10. ASSUME NEW pid \in Pids, FindStopped(pid) PROVE WokenIsSeen'
  <2>1. InUse' = InUse /\ woken' = woken /\ still' = still
    BY <1>10 DEF FindStopped, world, plan, kill, InUse, Viewed, HibernationCandidates, BusyIn, BusyUnplaced, Busy, Unplaced
  <2>2. QED
    BY <1>10, <2>1 DEF FindStopped, WokenIsSeen, plan
<1>11. ASSUME NEW pid \in Pids, Escalate(pid) PROVE WokenIsSeen'
  <2>1. InUse' = InUse /\ woken' = woken /\ still' = still
    BY <1>11 DEF Escalate, plan, InUse, Viewed, HibernationCandidates, BusyIn, BusyUnplaced, Busy, Unplaced
  <2>2. QED
    BY <1>11, <2>1 DEF Escalate, WokenIsSeen, plan
<1>12. ASSUME ViewSurvivors PROVE WokenIsSeen'
  <2>1. InUse' = InUse /\ woken' = woken /\ still' = still /\ protected' = Viewed
    BY <1>12 DEF ViewSurvivors, world, plan, kill, InUse, Viewed, HibernationCandidates, BusyIn, BusyUnplaced, Busy, Unplaced
  <2>2. \A u \in InUse : u[2] = "viewed" => \/ SessionOf[u[1][1]] \in Viewed.sessions
                                            \/ u[1][2] \in Viewed.panes
    BY DEF InUse
  <2>3. QED
    BY <2>1, <2>2 DEF WokenIsSeen
<1>13. ASSUME Recheck PROVE WokenIsSeen'
  <2>1. InUse' = InUse /\ woken' = woken /\ still' = {UnviewedCandidates(protected)}
        /\ stage' = "escalating"
    BY <1>13 DEF Recheck, world, plan, InUse, Viewed, HibernationCandidates, BusyIn, BusyUnplaced, Busy, Unplaced
  <2>2. ASSUME NEW u \in woken PROVE u[1] \notin UnviewedCandidates(protected)
    <3>1. u \in InUse /\ u[2] \in {"viewed", "busy"}
      BY DEF WokenIsSeen, InUse
    <3>2. CASE u[2] = "viewed"
      BY <1>13, <3>2 DEF Recheck, WokenIsSeen, UnviewedCandidates, HibernationCandidates
    <3>3. CASE u[2] = "busy"
      <4>1. u[1] \notin HibernationCandidates({})
        BY <3>1, <3>3 DEF InUse
      <4>2. HibernationCandidates(protected.sessions) \subseteq HibernationCandidates({})
        BY DEF HibernationCandidates
      <4>3. QED
        BY <4>1, <4>2 DEF UnviewedCandidates
    <3>4. QED
      BY <3>1, <3>2, <3>3
  <2>3. QED
    BY <2>1, <2>2 DEF WokenIsSeen
<1>14. ASSUME EndEscalate PROVE WokenIsSeen'
  <2>1. InUse' = InUse /\ woken' = woken /\ still' = still
    BY <1>14 DEF EndEscalate, world, plan, kill, InUse, Viewed, HibernationCandidates, BusyIn, BusyUnplaced, Busy, Unplaced
  <2>2. QED
    BY <1>14, <2>1 DEF EndEscalate, WokenIsSeen, plan
<1>15. ASSUME ViewAfter PROVE WokenIsSeen'
  <2>1. InUse' = InUse /\ woken' = woken /\ still' = still
    BY <1>15 DEF ViewAfter, world, plan, kill, InUse, Viewed, HibernationCandidates, BusyIn, BusyUnplaced, Busy, Unplaced
  <2>2. QED
    BY <1>15, <2>1 DEF ViewAfter, WokenIsSeen, plan
<1>16. ASSUME MarkHibernated PROVE WokenIsSeen'
  BY <1>16 DEF MarkHibernated, EndPass, WokenIsSeen
<1>17. ASSUME NEW v \in Views \cup {Nobody}, Looks(v) PROVE WokenIsSeen'
  <2>1. woken' = woken \cap InUse' /\ UNCHANGED <<stage, protected, still>>
    BY <1>17 DEF Looks, Moves, plan
  <2>2. QED
    BY <2>1 DEF WokenIsSeen
<1>18. ASSUME Focus PROVE WokenIsSeen'
  <2>1. woken' = woken \cap InUse' /\ UNCHANGED <<stage, protected, still>>
    BY <1>18 DEF Focus, Moves, plan
  <2>2. QED
    BY <2>1 DEF WokenIsSeen
<1>19. ASSUME NEW pid \in Pids, Exits(pid) PROVE WokenIsSeen'
  <2>1. woken' = woken \cap InUse' /\ UNCHANGED <<stage, protected, still>>
    BY <1>19 DEF Exits, Moves, plan
  <2>2. QED
    BY <2>1 DEF WokenIsSeen
<1>20. ASSUME NEW pid \in Pids, NEW args \in Args, Starts(pid, args) PROVE WokenIsSeen'
  <2>1. woken' = woken \cap InUse' /\ UNCHANGED <<stage, protected, still>>
    BY <1>20 DEF Starts, Moves, plan
  <2>2. QED
    BY <2>1 DEF WokenIsSeen
<1>21. ASSUME NEW pid \in Pids, NEW t \in Threads, Works(pid, t) PROVE WokenIsSeen'
  <2>1. woken' = woken \cap InUse' /\ UNCHANGED <<stage, protected, still>>
    BY <1>21 DEF Works, Moves, plan
  <2>2. QED
    BY <2>1 DEF WokenIsSeen
<1>22. ASSUME NEW t \in Threads, Reports(t) PROVE WokenIsSeen'
  <2>1. woken' = woken \cap InUse' /\ UNCHANGED <<stage, protected, still>>
    BY <1>22 DEF Reports, Moves, plan
  <2>2. QED
    BY <2>1 DEF WokenIsSeen
<1>23. ASSUME NEW t \in Threads, Places(t) PROVE WokenIsSeen'
  <2>1. woken' = woken \cap InUse' /\ UNCHANGED <<stage, protected, still>>
    BY <1>23 DEF Places, Moves, plan
  <2>2. QED
    BY <2>1 DEF WokenIsSeen
<1>24. ASSUME NEW quiet \in SUBSET Threads, HoursPass(quiet) PROVE WokenIsSeen'
  <2>1. woken' = woken \cap InUse' /\ UNCHANGED <<stage, protected, still>>
    BY <1>24 DEF HoursPass, Moves, plan
  <2>2. QED
    BY <2>1 DEF WokenIsSeen
<1>25. CASE UNCHANGED vars
  <2>1. InUse' = InUse /\ UNCHANGED <<woken, still, stage, protected>>
    BY <1>25 DEF vars, world, plan, kill, InUse, Viewed, HibernationCandidates, BusyIn, BusyUnplaced, Busy, Unplaced
  <2>2. QED
    BY <2>1 DEF WokenIsSeen
<1>26. QED
  BY <1>1, <1>2, <1>3, <1>4, <1>5, <1>6, <1>7, <1>8, <1>9, <1>10, <1>11, <1>12,
     <1>13, <1>14, <1>15, <1>16, <1>17, <1>18, <1>19, <1>20, <1>21, <1>22, <1>23,
     <1>24, <1>25
     DEF Next, Pass, World

------------------------------------------------------------------------------
(* The theorems.                                                            *)

LEMMA InitHolds == ASSUME Init PROVE IInv
<1>1. Launched \in Tables /\ OneAgent(Launched)
  BY LaunchedAssumption DEF OneAgent
<1>2. /\ procs = Launched /\ table = NothingRead /\ rows \in [Threads -> Rows] /\ logs \in [Threads -> Logs]
  BY DEF Init, Logs
<1>3. TypeOK
  BY <1>1, <1>2, NothingReadType, BoundAssumption
     DEF Init, TypeOK, NothingViewed, Stages, Captures, Targets
<1>4. OneAgent(procs) /\ OneAgent(table)
  BY <1>1, <1>2 DEF OneAgent, NothingRead
<1>5. QED
  BY <1>3, <1>4 DEF Init, IInv, Fresh, NothingStarted, StoppedAreGone, CapturedFromTable,
     PlannedOnce, OnlyCapturedAreSignalled, WokenIsSeen, Late

LEMMA NextHolds == ASSUME IInv, [Next]_vars PROVE IInv'
BY TypeStep, FreshStep, NothingStartedStep, StoppedStep, OneAgentStep, CapturedStep, SignalsStep,
   WokenStep, PlannedStep DEF IInv

(* The inductive invariant of the passes.                                   *)
THEOREM Invariance == Spec => []IInv
BY InitHolds, NextHolds, PTL DEF Spec

(* Every variable keeps its type.                                           *)
THEOREM TypeCorrect == Spec => []TypeOK
<1>1. IInv => TypeOK
  BY DEF IInv
<1>2. QED
  BY <1>1, Invariance, PTL

(* Only captured processes are signalled, however pids are recycled.        *)
THEOREM SignalsAreAimed == Spec => []OnlyCapturedAreSignalled
<1>1. IInv => OnlyCapturedAreSignalled
  BY DEF IInv
<1>2. QED
  BY <1>1, Invariance, PTL

(* An agent known to be in use since the end of the grace period survives.  *)
THEOREM InUseIsSpared == Spec => WokenIsSpared
<1> DEFINE Spared == \A x \in planned, u \in woken, s \in signals' \ signals :
                       s[3] = "KILL" /\ u[1] = x.candidate => <<s[1], s[2]>> \notin captured[x.target]
<1>1. ASSUME IInv, Next, NEW x \in planned, NEW u \in woken, NEW s \in signals' \ signals,
             s[3] = "KILL", u[1] = x.candidate, <<s[1], s[2]>> \in captured[x.target]
      PROVE  FALSE
  <2>1. PICK pid \in Pids : Escalate(pid)
    <3>1. CASE \E pid \in Pids : Terminate(pid)
      <4>1. PICK pid \in Pids : Terminate(pid)
        BY <3>1
      <4>2. s = <<pid, procs[pid].args, "TERM">>
        BY <4>1, <1>1 DEF Terminate
      <4>3. QED
        BY <4>2, <1>1
    <3>2. CASE Pass /\ ~\E pid \in Pids : Terminate(pid) \/ Escalate(pid)
      <4>1. signals' \in {signals, {}}
        BY <3>2 DEF Pass, ViewBefore, FindCandidates, EndPass, ReadProcesses, ReadActivity,
           PlanCandidate, ReadRunning, EndTerminate, ReadSurvivors, FindStopped, ViewSurvivors,
           Recheck, EndEscalate, ViewAfter, MarkHibernated, kill
      <4>2. QED
        BY <4>1, <1>1
    <3>3. CASE World
      <4>1. Moves
        BY <3>3 DEF World, Looks, Focus, Exits, Starts, Works, Reports, Places, HoursPass
      <4>2. QED
        BY <4>1, <1>1 DEF Moves
    <3>4. QED
      BY <1>1, <3>1, <3>2, <3>3 DEF Next
  <2>2. <<s[1], s[2]>> \in captured[pid] /\ StillWanted(pid)
    BY <1>1, <2>1, EscalateSignals DEF IInv
  <2>3. x.target = pid
    BY <1>1, <2>2 DEF IInv, CapturedFromTable, TypeOK
  <2>4. u[1] \in UNION still
    BY <1>1, <2>2, <2>3 DEF StillWanted
  <2>5. QED
    BY <1>1, <2>4 DEF IInv, WokenIsSeen
<1>2. IInv /\ [Next]_vars => [Spared]_vars
  BY <1>1
<1>3. QED
  BY <1>2, Invariance, PTL DEF Spec, WokenIsSpared

(* A marked row's processes are gone, unless the table could not be read.   *)
THEOREM MarkedIsGone == Spec => HibernatedMeansStopped
<1> DEFINE Gone == \A x \in planned :
                     Marks(x.candidate[1]) /\ table # NothingRead
                       => Alive(captured[x.target], procs) = {}
<1>1. ASSUME IInv, Next, NEW x \in planned, Marks(x.candidate[1]), table # NothingRead
      PROVE  Alive(captured[x.target], procs) = {}
  <2>0. x \in [candidate : Candidate, target : Pids]
    BY <1>1 DEF IInv, TypeOK
  <2>1. x.candidate[1] \in Threads
    BY <2>0 DEF Candidate
  <2>2. MarkHibernated
    <3>1. rows' # rows
      BY <1>1 DEF Marks
    <3>2. CASE Pass
      BY <3>1, <3>2 DEF Pass, ViewBefore, FindCandidates, ReadProcesses, ReadActivity,
         PlanCandidate, ReadRunning, Terminate, EndTerminate, ReadSurvivors, FindStopped, Escalate,
         ViewSurvivors, Recheck, EndEscalate, ViewAfter, world
    <3>3. CASE World
      <4>1. \A t \in Threads : rows'[t].state \in {rows[t].state, "busy", "quiet"}
        <5>1. rows \in [Threads -> Rows]
          BY <1>1 DEF IInv, TypeOK
        <5>2. CASE rows' = rows
          BY <5>2
        <5>3. ASSUME NEW t \in Threads, Reports(t) \/ Places(t)
              PROVE  \A u \in Threads : rows'[u].state \in {rows[u].state, "busy", "quiet"}
          <6>1. CASE Reports(t)
            <7>1. PICK p : rows' = [rows EXCEPT ![t] =
                            [state |-> "busy", pane |-> p,
                             liveness |-> IF p = NoPane THEN "unknown" ELSE "alive"]]
              BY <6>1 DEF Reports
            <7>2. QED
              BY <7>1, <5>1
          <6>2. CASE Places(t)
            <7>1. PICK p, l : rows' = [rows EXCEPT ![t].pane = p, ![t].liveness = l]
              BY <6>2 DEF Places
            <7>2. rows[t] \in [state : {"none", "busy", "quiet", "hibernated"},
                              pane : Panes \cup {NoPane}, liveness : {"unknown", "alive", "exited"}]
              BY <5>1 DEF Rows
            <7>3. QED
              BY <7>1, <7>2, <5>1
          <6>3. QED
            BY <5>3, <6>1, <6>2
        <5>4. ASSUME NEW quiet \in SUBSET Threads, HoursPass(quiet)
              PROVE  \A u \in Threads : rows'[u].state \in {rows[u].state, "busy", "quiet"}
          BY <5>4, <5>1 DEF HoursPass, Rows
        <5>5. QED
          BY <3>3, <5>2, <5>3, <5>4 DEF World, Looks, Focus, Exits, Starts, Works
      <4>2. QED
        BY <1>1, <2>1, <4>1 DEF Marks
    <3>4. QED
      BY <1>1, <3>2, <3>3 DEF Next
  <2>3. x.candidate[1] \in Marked
    BY <1>1, <2>1, <2>2 DEF MarkHibernated, Marks
  <2>4. PICK y \in planned : /\ y.target \in stopped /\ y.candidate[1] = x.candidate[1]
                             /\ y.candidate \in UnviewedCandidates(protected)
    BY <2>3 DEF Marked
  <2>5. x = y
    BY <1>1, <2>4 DEF IInv, PlannedOnce
  <2>6. QED
    BY <1>1, <2>4, <2>5 DEF IInv, StoppedAreGone
<1>2. IInv /\ [Next]_vars => [Gone]_vars
  BY <1>1
<1>3. QED
  BY <1>2, Invariance, PTL DEF Spec, HibernatedMeansStopped

==============================================================================
