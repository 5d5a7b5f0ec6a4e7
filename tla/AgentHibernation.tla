-------------------------- MODULE AgentHibernation --------------------------
(***************************************************************************)
(* One pass of the auto-hibernation loop after the other: the server looks *)
(* for agents that have been quiet for hours, finds their processes in the *)
(* process table, asks them to terminate, waits for a second, kills those  *)
(* that are still there and marks their rows as hibernated.  Meanwhile the *)
(* user looks at panes, agents wake, report, start and exit, and pids are  *)
(* recycled: the tracker's mutex is held only while rows are read or       *)
(* marked, and every reading of tmux, of the process table and of the logs *)
(* is out of date when it is used.                                         *)
(*                                                                         *)
(* The agent is Amp: the other agents are hibernated by the same code      *)
(* without its two checks of the durable state.                            *)
(***************************************************************************)
EXTENDS Naturals, FiniteSets

CONSTANTS
    Panes,
    Threads,
    Pids,
    Sessions,
    SessionOf,     \* The session a thread's row is filed under
    Views,         \* What a client can look at: <<session, pane>>, linked windows included
    Nobody,        \* No client looks, nothing is focused
    NoPane,
    Free,          \* A pid no process has
    Launched,      \* The processes when the first pass starts
    MaxMoves,      \* Bound: what users, agents and presence passes do
    MaxFailures    \* Bound: readings of the process table that fail

ASSUME SessionOfAssumption == SessionOf \in [Threads -> Sessions]
ASSUME ViewsAssumption == Views \subseteq Sessions \X Panes
ASSUME NobodyAssumption == Nobody \notin Views /\ Nobody \notin Sessions
ASSUME NoPaneAssumption == NoPane \notin Panes
ASSUME BoundAssumption == MaxMoves \in Nat /\ MaxFailures \in Nat

(* A command line: what runs, and in which pane it was started. *)
Args == {"agent", "helper", "other"} \X Panes
Processes == [args : Args, under : Panes \cup {NoPane}]
ASSUME FreeAssumption == Free \notin Processes
Tables == [Pids -> Processes \cup {Free}]

ASSUME LaunchedAssumption ==
    /\ Launched \in Tables
    /\ \A p, q \in Pids : /\ Launched[p] # Free /\ Launched[p].args[1] = "agent"
                         /\ Launched[q] # Free /\ Launched[q].args[1] = "agent"
                         /\ Launched[p].under = Launched[q].under => p = q

(* A row of the tracker: "busy" is any status that is not quiet for longer  *)
(* than the threshold.                                                      *)
Rows == [state : {"none", "busy", "quiet", "hibernated"}, pane : Panes \cup {NoPane},
         liveness : {"unknown", "alive", "exited"}]
(* The last writer of a thread's log, and whether it wrote recently. *)
Logs == [pid : Pids, recent : BOOLEAN]
Candidate == Threads \X Panes
Captures == SUBSET (Pids \X Args)

VARIABLES
    procs,         \* The processes of the machine that matter
    rows,          \* Thread -> its row in the tracker
    logs,          \* Thread -> the durable state of its agent
    client,        \* What the attached client looks at
    focused,       \* The server's focused session
    stage,         \* Where the pass is
    protected,     \* Its last reading of the viewed sessions and panes
    candidates,    \* Candidates it has still to plan
    table,         \* Its last reading of the process table
    busy,          \* Pids that serve busy threads without a pane
    planned,       \* Candidates it stops, with the pid of their target
    captured,      \* Pid of a target -> the processes captured for it
    terminated,    \* Targets that were sent SIGTERM
    todo,          \* Targets the current loop has still to visit
    still,         \* The re-check: {} until it is made, then {its candidates}
    stopped,       \* Targets whose processes are taken to be gone
    signals,       \* History: <<pid, args, signal>> delivered in this pass
    woken,         \* History: candidates in use since the grace period ended
    moves, failures

world == <<procs, rows, logs, client, focused>>
plan == <<protected, candidates, table, busy, planned, captured>>
kill == <<terminated, todo, still, stopped, signals, woken>>
vars == <<world, stage, plan, kill, moves, failures>>

Stages == {"sleeping", "candidates", "table", "activity", "planning", "running", "terminating", "grace",
           "escalating", "rechecking", "viewing", "marking"}

-----------------------------------------------------------------------------
(* Sessions and panes the user may be looking at. *)
Viewed == [sessions |-> ({focused} \cup IF client = Nobody THEN {} ELSE {client[1]}) \ {Nobody},
           panes |-> IF client = Nobody THEN {} ELSE {client[2]}]

(* Rows that are neither quiet nor hibernated. *)
Busy(t) == rows[t].state = "busy"
BusyIn(p) == \E t \in Threads : Busy(t) /\ rows[t].pane = p
(* A busy row without a pane may be served by any process of its session,   *)
(* or, if its log names one, of another.                                     *)
Unplaced(t) == Busy(t) /\ rows[t].pane = NoPane /\ rows[t].liveness # "exited"
BusyUnplaced(s) == \E t \in Threads : Unplaced(t) /\ SessionOf[t] = s

(* Quiet rows with a live pane that nothing busy shares, in sessions nobody  *)
(* looks at.                                                                 *)
HibernationCandidates(sessions) ==
    {c \in Candidate :
        /\ rows[c[1]].state = "quiet"
        /\ rows[c[1]].liveness = "alive"
        /\ rows[c[1]].pane = c[2]
        /\ SessionOf[c[1]] \notin sessions
        /\ ~BusyIn(c[2])
        /\ ~BusyUnplaced(SessionOf[c[1]])}

UnviewedCandidates(viewed) ==
    {c \in HibernationCandidates(viewed.sessions) : c[2] \notin viewed.panes}

(* The agent under the pane's shell, in a table, and what it captures: the   *)
(* agent with its agent-named descendants.                                   *)
AgentsUnder(p, t) ==
    {pid \in Pids : t[pid] # Free /\ t[pid].under = p /\ t[pid].args[1] = "agent"}
CapturedUnder(p, t) ==
    {<<pid, t[pid].args>> : pid \in {q \in Pids : t[q] # Free /\ t[q].under = p
                                                    /\ t[q].args[1] # "other"}}

(* Mutant: the command line is not compared. *)
Alive_AnyCommand(captures, t) == {c \in captures : t[c[1]] # Free}

(* The captured processes that a table still shows with their command line.  *)
Alive(captures, t) == {c \in captures : t[c[1]] # Free /\ t[c[1]].args = c[2]}

NothingRead == [pid \in Pids |-> Free]

(* ps fails, or answers with what runs now. *)
ReadsTable ==
    \/ /\ table' = procs
       /\ UNCHANGED failures
    \/ /\ failures < MaxFailures
       /\ failures' = failures + 1
       /\ table' = NothingRead

(* The planned candidates that are in use, and why. *)
InUse == {u \in Candidate \X {"viewed", "busy"} :
            /\ \E x \in planned : x.candidate = u[1]
            /\ CASE u[2] = "viewed" -> \/ SessionOf[u[1][1]] \in Viewed.sessions
                                       \/ u[1][2] \in Viewed.panes
                 [] u[2] = "busy" -> u[1] \notin HibernationCandidates({})}

RecentPids == {logs[t].pid : t \in {u \in Threads : logs[u].recent}}
BusyUnplacedPids == {logs[t].pid : t \in {u \in Threads : Unplaced(u)}}

-----------------------------------------------------------------------------
(* The pass. *)

NothingViewed == [sessions |-> {}, panes |-> {}]

(* What a pass read and planned goes with it. *)
EndPass ==
    /\ stage' = "sleeping"
    /\ protected' = NothingViewed
    /\ candidates' = {}
    /\ table' = NothingRead
    /\ busy' = {}
    /\ planned' = {}
    /\ captured' = [pid \in Pids |-> {}]
    /\ terminated' = {}
    /\ todo' = {}
    /\ still' = {}
    /\ stopped' = {}
    /\ signals' = {}
    /\ woken' = {}

(* The timer fires: what is looked at is read first. *)
ViewBefore ==
    /\ stage = "sleeping"
    /\ protected' = Viewed
    /\ stage' = "candidates"
    /\ UNCHANGED <<world, candidates, table, busy, planned, captured, kill, moves, failures>>

(* Under the mutex. *)
FindCandidates ==
    /\ stage = "candidates"
    /\ \/ /\ HibernationCandidates(protected.sessions) = {}
          /\ EndPass
       \/ /\ HibernationCandidates(protected.sessions) # {}
          /\ candidates' = HibernationCandidates(protected.sessions)
          /\ stage' = "table"
          /\ UNCHANGED <<protected, table, busy, planned, captured, kill>>
    /\ UNCHANGED <<world, moves, failures>>

ReadProcesses ==
    /\ stage = "table"
    /\ ReadsTable
    /\ stage' = "activity"
    /\ UNCHANGED <<world, protected, candidates, busy, planned, captured, kill, moves>>

(* The durable state can show work the tracker could not attribute; and the   *)
(* logs tell which processes serve busy rows without a pane.                  *)
ReadActivity ==
    /\ stage = "activity"
    /\ busy' = RecentPids \cup BusyUnplacedPids
    /\ stage' = "planning"
    /\ UNCHANGED <<world, protected, candidates, table, planned, captured, kill, moves, failures>>

(* A candidate is planned unless its pane is looked at, its process is not    *)
(* found or the process is in use.  Candidates of one process share a target. *)
PlanCandidate(c) ==
    LET found == AgentsUnder(c[2], table)
        ViewedNow == client # Nobody /\ client[2] = c[2]
        Serves == {x[1] : x \in CapturedUnder(c[2], table)} \cap busy # {}
    IN /\ stage = "planning"
       /\ c \in candidates
       /\ candidates' = candidates \ {c}
       /\ \/ /\ c[2] \in protected.panes \/ ViewedNow \/ found = {} \/ Serves
             /\ UNCHANGED <<planned, captured>>
          \/ /\ c[2] \notin protected.panes
             /\ ~ViewedNow
             /\ ~Serves
             /\ \E pid \in found :
                   /\ planned' = planned \cup {[candidate |-> c, target |-> pid]}
                   /\ captured' = [captured EXCEPT ![pid] = CapturedUnder(c[2], table)]
       /\ UNCHANGED <<world, stage, protected, table, busy, kill, moves, failures>>

Targets == {x.target : x \in planned}

(* The table is read again, so that a recycled pid is not signalled. *)
ReadRunning ==
    /\ stage = "planning"
    /\ candidates = {}
    /\ \/ /\ planned = {}
          /\ EndPass
          /\ UNCHANGED failures
       \/ /\ planned # {}
          /\ stage' = "running"
          /\ ReadsTable
          /\ todo' = Targets
          /\ UNCHANGED <<protected, candidates, busy, planned, captured, terminated, still,
                         stopped, signals, woken>>
    /\ UNCHANGED <<world, moves>>

(* The process of the target, as it was selected, still runs. *)
StillSelected(pid) == \E a \in Args : <<pid, a>> \in Alive(captured[pid], table)

(* SIGTERM: kill fails when the process went meanwhile.  A process that gets *)
(* it exits in its own time, or ignores it.                                  *)
Terminate(pid) ==
    /\ stage = "running"
    /\ pid \in todo
    /\ todo' = todo \ {pid}
    /\ IF StillSelected(pid) /\ procs[pid] # Free
         THEN /\ terminated' = terminated \cup {pid}
              /\ signals' = signals \cup {<<pid, procs[pid].args, "TERM">>}
         ELSE UNCHANGED <<terminated, signals>>
    /\ UNCHANGED <<world, stage, plan, still, stopped, woken, moves, failures>>

(* Mutant: the survivors of SIGTERM are left alone. *)
EndTerminate_LeavesSurvivors ==
    /\ stage = "running"
    /\ todo = {}
    /\ stage' = "viewing"
    /\ UNCHANGED <<world, plan, kill, moves, failures>>

(* A pass that signalled nothing is at its end; the rest waits. *)
EndTerminate ==
    /\ stage = "running"
    /\ todo = {}
    /\ stage' = IF terminated = {} THEN "viewing" ELSE "grace"
    /\ UNCHANGED <<world, plan, kill, moves, failures>>

(* The grace period is over. *)
ReadSurvivors ==
    /\ stage = "grace"
    /\ ReadsTable
    /\ todo' = terminated
    /\ woken' = InUse
    /\ stage' = "escalating"
    /\ UNCHANGED <<world, protected, candidates, busy, planned, captured, terminated, still,
                   stopped, signals, moves>>

(* A target without survivors has stopped. *)
FindStopped(pid) ==
    /\ stage = "escalating"
    /\ pid \in todo
    /\ Alive(captured[pid], table) = {}
    /\ todo' = todo \ {pid}
    /\ stopped' = stopped \cup {pid}
    /\ UNCHANGED <<world, stage, plan, terminated, still, signals, woken, moves, failures>>

(* The first survivor makes the re-check: what is looked at, then, under the *)
(* mutex, the candidates.  It is made once for all targets.                  *)
ViewSurvivors ==
    /\ stage = "escalating"
    /\ still = {}
    /\ \E pid \in todo : Alive(captured[pid], table) # {}
    /\ protected' = Viewed
    /\ stage' = "rechecking"
    /\ UNCHANGED <<world, candidates, table, busy, planned, captured, kill, moves, failures>>

Recheck ==
    /\ stage = "rechecking"
    /\ still' = {UnviewedCandidates(protected)}
    /\ stage' = "escalating"
    /\ UNCHANGED <<world, plan, terminated, todo, stopped, signals, woken, moves, failures>>

(* Mutant: one quiet thread is enough. *)
StillWanted_Any(pid) == \E x \in planned : x.target = pid /\ x.candidate \in UNION still

StillWanted(pid) == \A x \in planned : x.target = pid => x.candidate \in UNION still

(* A process that dies leaves its children to init. *)
Without(pids) ==
    LET orphaned == {procs[pid].under : pid \in {q \in pids : procs[q].args[1] = "agent"}}
    IN [pid \in Pids |->
          CASE pid \in pids -> Free
            [] pid \notin pids /\ procs[pid] # Free /\ procs[pid].under \in orphaned
                 /\ procs[pid].args[1] = "helper" -> [procs[pid] EXCEPT !.under = NoPane]
            [] OTHER -> procs[pid]]

(* Mutant: a target that is spared counts as stopped. *)
Escalate_SparedStops(pid) ==
    LET survivors == {c[1] : c \in Alive(captured[pid], table)}
        hit == {q \in survivors : procs[q] # Free}
    IN /\ stage = "escalating"
       /\ pid \in todo
       /\ still # {}
       /\ survivors # {}
       /\ todo' = todo \ {pid}
       /\ IF StillWanted(pid)
            THEN /\ procs' = Without(hit)
                 /\ signals' = signals \cup {<<q, procs[q].args, "KILL">> : q \in hit}
            ELSE UNCHANGED <<procs, signals>>
       /\ stopped' = stopped \cup {pid}
       /\ UNCHANGED <<rows, logs, client, focused, stage, plan, terminated, still, woken, moves,
                      failures>>

(* SIGKILL to every survivor of a target that is still wanted; the target    *)
(* has stopped if every signal found its process.                            *)
Escalate(pid) ==
    LET survivors == {c[1] : c \in Alive(captured[pid], table)}
        hit == {q \in survivors : procs[q] # Free}
    IN /\ stage = "escalating"
       /\ pid \in todo
       /\ still # {}
       /\ survivors # {}
       /\ todo' = todo \ {pid}
       /\ IF StillWanted(pid)
            THEN /\ procs' = Without(hit)
                 /\ signals' = signals \cup {<<q, procs[q].args, "KILL">> : q \in hit}
                 /\ stopped' = IF hit = survivors THEN stopped \cup {pid} ELSE stopped
            ELSE UNCHANGED <<procs, signals, stopped>>
       /\ UNCHANGED <<rows, logs, client, focused, stage, plan, terminated, still, woken, moves,
                      failures>>

EndEscalate ==
    /\ stage = "escalating"
    /\ todo = {}
    /\ stage' = "viewing"
    /\ UNCHANGED <<world, plan, kill, moves, failures>>

ViewAfter ==
    /\ stage = "viewing"
    /\ protected' = Viewed
    /\ stage' = "marking"
    /\ UNCHANGED <<world, candidates, table, busy, planned, captured, kill, moves, failures>>

(* The rows that are marked: stopped, and candidates still. *)
Marked == {x.candidate[1] : x \in {y \in planned : /\ y.target \in stopped
                                                   /\ y.candidate \in UnviewedCandidates(protected)}}

(* Under the mutex. *)
MarkHibernated ==
    /\ stage = "marking"
    /\ rows' = [t \in Threads |->
                  IF t \in Marked
                    THEN [state |-> "hibernated", pane |-> NoPane, liveness |-> "exited"]
                    ELSE rows[t]]
    /\ EndPass
    /\ UNCHANGED <<procs, logs, client, focused, moves, failures>>

Pass ==
    \/ ViewBefore \/ FindCandidates \/ ReadProcesses \/ ReadActivity
    \/ \E c \in Candidate : PlanCandidate(c)
    \/ ReadRunning
    \/ \E pid \in Pids : Terminate(pid)
    \/ EndTerminate \/ ReadSurvivors
    \/ \E pid \in Pids : FindStopped(pid) \/ Escalate(pid)
    \/ ViewSurvivors \/ Recheck \/ EndEscalate \/ ViewAfter \/ MarkHibernated

-----------------------------------------------------------------------------
(* Users, agents, and the server's other tasks. *)

Moves ==
    /\ moves < MaxMoves
    /\ moves' = moves + 1
    /\ UNCHANGED <<stage, plan, terminated, todo, still, stopped, signals, failures>>
    /\ woken' = woken \cap InUse'

(* A client attaches, switches or detaches. *)
Looks(v) ==
    /\ v # client
    /\ client' = v
    /\ UNCHANGED <<procs, rows, logs, focused>>
    /\ Moves

(* The hook of the switch reaches the server. *)
Focus ==
    /\ client # Nobody
    /\ focused # client[1]
    /\ focused' = client[1]
    /\ UNCHANGED <<procs, rows, logs, client>>
    /\ Moves

(* A process exits: the user ends it, or it does as SIGTERM says. *)
Exits(pid) ==
    /\ procs[pid] # Free
    /\ procs' = Without({pid})
    /\ UNCHANGED <<rows, logs, client, focused>>
    /\ Moves

(* A process starts with a pid that is free.  One command line does not get  *)
(* the same pid twice within a pass, nor is a pid recycled between a reading *)
(* of the table and the signals that follow from it.                         *)
Starts(pid, args) ==
    /\ procs[pid] = Free
    /\ stage \notin {"running", "escalating", "rechecking"}
    /\ \A q \in Pids : <<pid, args>> \notin captured[q]
    /\ args[1] = "agent" => AgentsUnder(args[2], procs) = {}
    /\ args[1] = "helper" => AgentsUnder(args[2], procs) # {}
    /\ procs' = [procs EXCEPT ![pid] = [args |-> args, under |-> args[2]]]
    /\ UNCHANGED <<rows, logs, client, focused>>
    /\ Moves

(* An agent works on a thread: its log says so at once. *)
Works(pid, t) ==
    /\ procs[pid] # Free
    /\ procs[pid].args[1] = "agent"
    /\ logs' = [logs EXCEPT ![t] = [pid |-> pid, recent |-> TRUE]]
    /\ UNCHANGED <<procs, rows, client, focused>>
    /\ Moves

PaneOf(pid) == IF procs[pid] = Free THEN NoPane ELSE procs[pid].under

(* A report of recent work reaches the tracker, which knows the pane or not. *)
Reports(t) ==
    /\ logs[t].recent
    /\ \E p \in {NoPane, PaneOf(logs[t].pid)} :
          rows' = [rows EXCEPT ![t] =
                     [state |-> "busy", pane |-> p,
                      liveness |-> IF p = NoPane THEN "unknown" ELSE "alive"]]
    /\ UNCHANGED <<procs, logs, client, focused>>
    /\ Moves

(* A presence pass places a row in a pane with an agent, or takes it out of   *)
(* one without.                                                               *)
Places(t) ==
    /\ rows[t].state \in {"busy", "quiet"}
    /\ \/ /\ rows[t].pane = NoPane
          /\ \E p \in Panes :
                /\ AgentsUnder(p, procs) # {}
                /\ rows' = [rows EXCEPT ![t].pane = p, ![t].liveness = "alive"]
       \/ /\ rows[t].pane # NoPane
          /\ AgentsUnder(rows[t].pane, procs) = {}
          /\ rows' = [rows EXCEPT ![t].pane = NoPane, ![t].liveness = "exited"]
    /\ UNCHANGED <<procs, logs, client, focused>>
    /\ Moves

(* Hours pass without a word of these threads; the others' rows still wait    *)
(* for their user.  A pass takes seconds.                                     *)
HoursPass(quiet) ==
    /\ stage = "sleeping"
    /\ rows' = [t \in Threads |-> IF t \in quiet /\ Busy(t)
                                    THEN [rows[t] EXCEPT !.state = "quiet"] ELSE rows[t]]
    /\ logs' = [t \in Threads |-> [logs[t] EXCEPT !.recent = FALSE]]
    /\ UNCHANGED <<procs, client, focused>>
    /\ Moves

World ==
    \/ \E v \in Views \cup {Nobody} : Looks(v)
    \/ Focus
    \/ \E pid \in Pids : Exits(pid)
    \/ \E pid \in Pids, args \in Args : Starts(pid, args)
    \/ \E pid \in Pids, t \in Threads : Works(pid, t)
    \/ \E t \in Threads : Reports(t) \/ Places(t)
    \/ \E quiet \in SUBSET Threads : HoursPass(quiet)

(* Reports and hours before the first pass left rows for the processes that   *)
(* run: in their pane or unplaced, quiet or not.                              *)
Init ==
    /\ procs = Launched
    /\ \E agent \in [Threads -> {pid \in Pids : Launched[pid] # Free
                                                 /\ Launched[pid].args[1] = "agent"}] :
          /\ logs = [t \in Threads |-> [pid |-> agent[t], recent |-> FALSE]]
          /\ rows \in {r \in [Threads -> Rows] : \A t \in Threads :
                          \/ r[t] = [state |-> "none", pane |-> NoPane, liveness |-> "unknown"]
                          \/ r[t] = [state |-> "busy", pane |-> NoPane, liveness |-> "unknown"]
                          \/ \E s \in {"busy", "quiet"} :
                                r[t] = [state |-> s, pane |-> Launched[agent[t]].under,
                                        liveness |-> "alive"]}
    /\ client = Nobody
    /\ focused = Nobody
    /\ stage = "sleeping"
    /\ protected = NothingViewed
    /\ candidates = {}
    /\ table = NothingRead
    /\ busy = {}
    /\ planned = {}
    /\ captured = [pid \in Pids |-> {}]
    /\ terminated = {}
    /\ todo = {}
    /\ still = {}
    /\ stopped = {}
    /\ signals = {}
    /\ woken = {}
    /\ moves = 0
    /\ failures = 0

Next == Pass \/ World

(* The timer of the loop fires for ever, and what a pass runs returns. *)
Spec == Init /\ [][Next]_vars /\ WF_vars(Pass)

-----------------------------------------------------------------------------
(* Every variable has its type; targets are captured with their own pid. *)
TypeOK ==
    /\ procs \in Tables
    /\ table \in Tables
    /\ rows \in [Threads -> Rows]
    /\ logs \in [Threads -> Logs]
    /\ client \in Views \cup {Nobody}
    /\ focused \in Sessions \cup {Nobody}
    /\ stage \in Stages
    /\ protected \in [sessions : SUBSET Sessions, panes : SUBSET Panes]
    /\ candidates \subseteq Candidate
    /\ busy \subseteq Pids
    /\ planned \subseteq [candidate : Candidate, target : Pids]
    /\ captured \in [Pids -> Captures]
    /\ \A x \in planned : x.target \in {c[1] : c \in captured[x.target]}
    /\ todo \subseteq Targets
    /\ terminated \subseteq Targets
    /\ stopped \subseteq terminated
    /\ still \subseteq SUBSET Candidate
    /\ signals \subseteq Pids \X Args \X {"TERM", "KILL"}
    /\ woken \subseteq Candidate \X {"viewed", "busy"}
    /\ moves \in 0 .. MaxMoves
    /\ failures \in 0 .. MaxFailures

(* The comment in terminate_agent_processes_if: only processes that were     *)
(* captured under the pane of a planned candidate are signalled, with the    *)
(* command line they were captured with, although pids are recycled between  *)
(* the plan, SIGTERM and SIGKILL.                                            *)
OnlyCapturedAreSignalled ==
    \A s \in signals : \E x \in planned : <<s[1], s[2]>> \in captured[x.target]

(* The comment in hibernate_idle_agent_panes: an agent that the tracker      *)
(* knows to be active, or that the user looks at, since the end of the grace *)
(* period is not killed.                                                     *)
WokenIsSpared ==
    [][\A x \in planned, u \in woken, s \in signals' \ signals :
         s[3] = "KILL" /\ u[1] = x.candidate => <<s[1], s[2]>> \notin captured[x.target]]_vars

Marks(t) == rows[t].state # "hibernated" /\ rows'[t].state = "hibernated"

(* A row is marked as hibernated only when every process that was captured   *)
(* for it, helpers included, is gone: it was not spared, no signal failed.   *)
(* The exception is a reading of the process table that fails after the      *)
(* grace period (MarkedMeansStopped).                                        *)
HibernatedMeansStopped ==
    [][\A x \in planned :
         Marks(x.candidate[1]) /\ table # NothingRead => Alive(captured[x.target], procs) = {}]_vars

(* TerminationOutcome.stopped, which the marking relies on: every captured   *)
(* process exited or was killed.                                             *)
MarkedMeansStopped ==
    [][\A x \in planned : Marks(x.candidate[1]) => Alive(captured[x.target], procs) = {}]_vars

(* A candidate whose process serves nothing else. *)
Idle(c) ==
    /\ c \in UnviewedCandidates(Viewed)
    /\ AgentsUnder(c[2], procs) # {}
    /\ ~\E x \in CapturedUnder(c[2], procs) : x[1] \in RecentPids \cup BusyUnplacedPids

(* The docs on auto-hibernation: quiet agents nobody looks at are stopped,   *)
(* also those that ignore SIGTERM, once the rest of the world is at rest.    *)
(* Their rows are not all marked: what happened after the kill can leave     *)
(* that to the next presence pass.                                           *)
QuietAgentsStop == moves = MaxMoves ~> ~\E c \in Candidate : Idle(c)
=============================================================================
