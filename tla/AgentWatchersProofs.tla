------------------------- MODULE AgentWatchersProofs -------------------------
(***************************************************************************)
(* What holds of AgentWatchers for every set of threads, panes, processes  *)
(* and sessions, every directory and every state at startup: what is       *)
(* remembered of where a process runs is true, and no seed is older than   *)
(* an activity that could be its own.                                      *)
(*                                                                         *)
(* The first is an argument about one reading of the process table and the *)
(* listings after it: as long as tmux looks the same, each listing decides *)
(* for good about the processes in the panes of its session, and nobody    *)
(* who was missing from the table starts.  The second is about one step,   *)
(* which dates a seed by the latest of everything near it.                 *)
(***************************************************************************)
EXTENDS AgentWatchers, WellFoundedInduction, Integers, TLAPS

(* An old thread file is Amp's and records no process.  A process that has  *)
(* written has started.                                                     *)
Kindred ==
    /\ \A t \in Threads : old[t] # NoFile =>
           old[t].kind = files[t].kind /\ old[t].kind = "amp" /\ old[t].pid = NoPid
    /\ \A o \in poll.obs : o.kind = files[o.thread].kind
Born(pid) == pid = NoPid \/ procs[pid] # Unborn
AllBorn ==
    /\ \A t \in Threads : Born(files[t].pid)
    /\ \A o \in poll.obs : Born(o.pid)
    /\ \A pid \in Pids :
         poll.table[pid] # NoPane \/ pid \in DOMAIN poll.found \/ pid \in DOMAIN cache.routes
             => Born(pid)

(* What a poll has not come to yet is empty; it reads a thread once, and    *)
(* who is astray has a process.                                             *)
Fresh ==
    /\ poll.pc \in {"asleep", "starting"} => poll.obs = {}
    /\ poll.pc \in {"asleep", "starting", "reading", "released"} => poll.astray = {}
    /\ ~poll.seeding /\ poll.pc # "listing" => DOMAIN poll.found = {}
    /\ poll.seeding => poll.pc \in {"starting", "reading", "listing", "seeding"}
OnceRead ==
    /\ \A o, p \in poll.obs : o.thread = p.thread => o = p
    /\ \A o \in poll.obs : /\ poll.pc = "reading" => o.thread \notin poll.unread
                           /\ o.thread \in poll.astray => o.pid # NoPid

(* The place of a process that runs, in a layout.                           *)
PlaceIn(layout, p) ==
    IF layout[p].agent # "amp" THEN NoRow ELSE [session |-> layout[p].session, pane |-> p]
RoutesHold ==
    cache.sure /\ cache.layout # NoLayout =>
        \A pid \in DOMAIN cache.routes :
            Running(pid) => cache.routes[pid] = PlaceIn(cache.layout, procs[pid])

(* While a poll looks for processes and tmux looks the same: what the table *)
(* and the listings so far say is still so, unless the process has exited.  *)
Undisturbed ==
    poll.pc \in {"table", "listing"} /\ ~poll.seeding /\ ~poll.lost /\ cache.layout # NoLayout
Listing ==
    Undisturbed =>
        /\ panes = cache.layout
        /\ poll.pc = "listing" =>
             \A pid \in Pids :
               /\ poll.table[pid] # NoPane => procs[pid] \in {poll.table[pid], NoPane}
               /\ poll.table[pid] = NoPane /\ pid \in Wanted => ~Running(pid)
               /\ pid \in DOMAIN poll.found =>
                    /\ poll.table[pid] # NoPane
                    /\ poll.found[pid] = PlaceIn(panes, poll.table[pid])
               /\ /\ poll.table[pid] # NoPane
                  /\ panes[poll.table[pid]].agent = "amp"
                  /\ panes[poll.table[pid]].session \notin poll.unlisted
                  => pid \in DOMAIN poll.found

IInv == TypeOK /\ Kindred /\ AllBorn /\ Fresh /\ OnceRead /\ RoutesHold /\ Listing

-----------------------------------------------------------------------------
(* Sets of times have a latest.  A nonempty set of naturals has a least     *)
(* member because < is well-founded.                                        *)
Less == {p \in Nat \X Nat : p[1] < p[2]}

LEMMA LeastOf ==
    ASSUME NEW S \in SUBSET Nat, S # {}
    PROVE  \E m \in S : \A n \in S : m <= n
<1>1. IsWellFoundedOn(Less, Nat)
  BY NatLessThanWellFounded DEF Less, OpToRel
<1>2. PICK m \in S : \A n \in S : <<n, m>> \notin Less
  BY <1>1, WFMin
<1>3. ASSUME NEW n \in S PROVE m <= n
  <2>1. <<n, m>> \notin Less /\ n \in Nat /\ m \in Nat
    BY <1>2
  <2>2. QED
    BY <2>1 DEF Less
<1>4. QED
  BY <1>3

LEMMA LatestIsLatest ==
    ASSUME NEW S \in SUBSET Times, NEW n \in S
    PROVE  Latest(S) \in S /\ n <= Latest(S)
<1>1. MaxTime \in Nat
  BY WatchersAssumption DEF WatchersAssumption
<1> DEFINE T == {MaxTime - m : m \in S}
<1>2. /\ \A m \in S : m \in Nat /\ m <= MaxTime /\ MaxTime - m \in Nat
      /\ T \in SUBSET Nat /\ T # {}
  <2>1. ASSUME NEW m \in S PROVE m \in Nat /\ m <= MaxTime /\ MaxTime - m \in Nat
    <3>1. m \in 0..MaxTime
      BY DEF Times
    <3>2. QED
      BY <1>1, <3>1
  <2>2. MaxTime - n \in T
    OBVIOUS
  <2>3. QED
    BY <2>1, <2>2
<1>3. PICK l \in T : \A m \in T : l <= m
  BY <1>2, LeastOf
<1>4. PICK k \in S : l = MaxTime - k
  OBVIOUS
<1>5. ASSUME NEW m \in S PROVE m <= k
  <2>1. l <= MaxTime - m
    BY <1>3
  <2>2. m \in Nat /\ k \in Nat
    BY <1>2
  <2> HIDE DEF T
  <2>3. QED
    BY <1>1, <1>4, <2>1, <2>2
<1>6. Latest(S) \in S /\ \A m \in S : m <= Latest(S)
  BY <1>5 DEF Latest
<1>7. QED
  BY <1>6

-----------------------------------------------------------------------------
(* What the operators return.                                               *)

LEMMA PartialIs ==
    ASSUME NEW S, NEW f \in Partial(S)
    PROVE  /\ DOMAIN f \in SUBSET Pids
           /\ \A pid \in DOMAIN f : f[pid] \in S
BY DEF Partial

LEMMA NothingIsPartial ==
    ASSUME NEW S PROVE Nothing \in Partial(S) /\ DOMAIN Nothing = {}
<1>1. Nothing \in [{} -> S] /\ {} \in SUBSET Pids
  BY DEF Nothing
<1>2. QED
  BY <1>1 DEF Partial, Nothing

LEMMA OverIsPartial ==
    ASSUME NEW S, NEW f \in Partial(S), NEW g \in Partial(S)
    PROVE  Over(f, g) \in Partial(S)
<1>1. /\ DOMAIN f \cup DOMAIN g \in SUBSET Pids
      /\ \A pid \in DOMAIN f : f[pid] \in S
      /\ \A pid \in DOMAIN g : g[pid] \in S
  BY PartialIs
<1>2. Over(f, g) \in [DOMAIN f \cup DOMAIN g -> S]
  BY <1>1 DEF Over
<1>3. QED
  BY <1>1, <1>2 DEF Partial

(* All the processes of a set, at one place.                                *)
LEMMA AllAtIsPartial ==
    ASSUME NEW S, NEW pids \in SUBSET Pids, NEW f, f \in [pids -> S]
    PROVE  f \in Partial(S) /\ DOMAIN f = pids
BY DEF Partial

LEMMA AsleepIsPoll == Asleep \in Polls
<1>1. 0 \in Times
  BY WatchersAssumption DEF WatchersAssumption, Times
<1>2. Nothing \in Partial(Places)
  BY NothingIsPartial
<1>3. QED
  BY <1>1, <1>2 DEF Asleep, Polls

LEMMA SessionOfDirType == ASSUME NEW dir PROVE SessionOfDir(dir) \in Sessions \cup {NoSession}
BY DEF SessionOfDir

LEMMA StatusAtType ==
    ASSUME NEW f \in Written, NEW mtime, NEW now PROVE StatusAt(f, mtime, now) \in Statuses
<1>1. f.status \in Statuses /\ {"stale", "waiting", "running"} \subseteq Statuses
  BY DEF Written, Statuses
<1>2. QED
  BY <1>1 DEF StatusAt

LEMMA ObservedType ==
    ASSUME NEW t \in Threads, NEW f \in Written, NEW mtime \in Times, NEW now
    PROVE  Observed(t, f, mtime, now) \in Observations
<1>1. Snapshot(f, mtime, now) \in Snapshots
  BY StatusAtType DEF Snapshot, Snapshots
<1>2. QED
  BY <1>1 DEF Observed, Observations, Written

LEMMA MergedType ==
    ASSUME NEW legacy \in Observations, NEW log \in Observations, legacy.thread = log.thread,
           legacy.kind = log.kind
    PROVE  /\ Merged(legacy, log) \in Observations
           /\ Merged(legacy, log).thread = log.thread
           /\ Merged(legacy, log).kind = log.kind
           /\ Merged(legacy, log).pid = log.pid
<1> DEFINE m == IF log.mtime > legacy.mtime THEN log.mtime ELSE legacy.mtime
<1>1. m \in Times /\ log.pid \in Pids \cup {NoPid}
  BY DEF Observations
<1> HIDE DEF m
<1>2. [legacy EXCEPT !.mtime = m, !.pid = log.pid] \in Observations
  BY <1>1 DEF Observations
<1>3. QED
  BY <1>2 DEF Merged, Observations, m

LEMMA AppendedType ==
    ASSUME NEW f \in Written, NEW entry, NEW mtime \in Times, NEW pid \in Pids \cup {NoPid},
           NEW dir \in Dirs
    PROVE  /\ Appended(f, entry) \in Written /\ Appended(f, entry).kind = f.kind
           /\ [Appended(f, entry) EXCEPT !.mtime = mtime, !.pid = pid, !.dir = dir] \in Written
<1>1. StatusAfter(f, entry) \in Statuses
  <2>1. f.status \in Statuses /\ "idle" \in Statuses
    BY DEF Written, Statuses
  <2>2. Tells(f.kind, entry) \subseteq Statuses
    BY DEF Tells
  <2>3. QED
    BY <2>1, <2>2 DEF StatusAfter
<1> DEFINE tool == IF Forgets(f.kind, entry) THEN entry = "tool" ELSE f.tool
<1>2. tool \in BOOLEAN
  BY DEF Written
<1>3. Appended(f, entry) = [f EXCEPT !.status = StatusAfter(f, entry), !.tool = tool]
  BY DEF Appended
<1> HIDE DEF tool
<1>4. Appended(f, entry) \in Written /\ Appended(f, entry).kind = f.kind
  BY <1>1, <1>2, <1>3 DEF Written
<1>5. QED
  BY <1>4 DEF Written

RowSets == [Sessions \X Threads -> Rows \cup {NoRow}]

(* A report changes rows into rows, and what it files newly is no seed.     *)
LEMMA ReportedType ==
    ASSUME rows \in RowSets, NEW key \in Sessions \X Threads, NEW report \in Rows,
           ~report.seeded
    PROVE  /\ Reported(key, report) \in RowSets
           /\ \A k \in Sessions \X Threads :
                rows[k] = NoRow /\ Reported(key, report)[k] # NoRow
                    => ~Reported(key, report)[k].seeded
<1> DEFINE pane == IF report.pane # NoPane \/ rows[key] = NoRow THEN report.pane
                   ELSE rows[key].pane
           row  == [report EXCEPT !.pane = pane]
<1>1. \A k \in Sessions \X Threads : rows[k] \in Rows \cup {NoRow}
  BY DEF RowSets
<1>2. pane \in Panes \cup {NoPane}
  BY <1>1 DEF Rows
<1> HIDE DEF pane
<1>3. row \in Rows /\ ~row.seeded
  BY <1>2 DEF Rows
<1>4. ASSUME NEW k \in Sessions \X Threads, rows[k] # NoRow
      PROVE  [rows[k] EXCEPT !.pane = NoPane] \in Rows
  BY <1>1, <1>4 DEF Rows
<1> HIDE DEF row
<1> DEFINE others == {k \in {key[1]} \X {t \in Threads : files[t].kind = files[key[2]].kind} :
                         k # key /\ rows[k] # NoRow}
           seeds  == {k \in others : /\ rows[k].seeded
                                     /\ report.pane # NoPane => rows[k].pane \in {NoPane, report.pane}}
           left   == {k \in others : pane # NoPane /\ rows[k].pane = pane /\ rows[k].ts <= report.ts}
           result == [k \in DOMAIN rows |-> IF k = key THEN row
                                             ELSE IF k \in seeds THEN NoRow
                                             ELSE IF k \in left THEN [rows[k] EXCEPT !.pane = NoPane]
                                             ELSE rows[k]]
<1>5. Reported(key, report) = IF Restates(key, report) THEN rows ELSE result
  BY DEF Reported, pane, row
<1>6. \A k \in left : rows[k] # NoRow
  OBVIOUS
<1> HIDE DEF seeds, left
<1>7. DOMAIN rows = Sessions \X Threads
  BY DEF RowSets
<1>8. ASSUME NEW k \in Sessions \X Threads
      PROVE  /\ result[k] \in Rows \cup {NoRow}
             /\ rows[k] = NoRow /\ result[k] # NoRow => ~result[k].seeded
  BY <1>1, <1>3, <1>4, <1>6, <1>7
<1>9. result \in RowSets
  BY <1>7, <1>8 DEF RowSets
<1> HIDE DEF result
<1>10. QED
  BY <1>5, <1>8, <1>9

(* What a set of seeds files: each row is what it was or one of the seeds.  *)
SeedTypes == [thread : Threads, kind : Kinds,
              place : [session : Sessions, pane : Panes \cup {NoPane}],
              status : Statuses, ts : Times]
SeedRow(x) == [status |-> x.status, ts |-> x.ts, seeded |-> TRUE, pane |-> x.place.pane]

LEMMA SeededType ==
    ASSUME NEW set \in SUBSET SeedTypes, NEW current \in RowSets
    PROVE  /\ Seeded(set, current) \in RowSets
           /\ \A k \in Sessions \X Threads :
                \/ Seeded(set, current)[k] = current[k]
                \/ \E x \in set : /\ <<x.place.session, x.thread>> = k
                                  /\ Seeded(set, current)[k] = SeedRow(x)
<1> DEFINE taken(x) ==
            \/ current[<<x.place.session, x.thread>>] # NoRow
            \/ \E t \in Threads :
                   /\ current[<<x.place.session, t>>] # NoRow
                   /\ IF x.place.pane # NoPane
                      THEN current[<<x.place.session, t>>].pane = x.place.pane
                      ELSE files[t].kind = x.kind
           free == {x \in set : ~taken(x)}
           seedOf(k) == CHOOSE x \in free : <<x.place.session, x.thread>> = k
           result == [k \in Sessions \X Threads |->
                        IF \E x \in free : <<x.place.session, x.thread>> = k
                        THEN [status |-> seedOf(k).status, ts |-> seedOf(k).ts, seeded |-> TRUE,
                              pane |-> seedOf(k).place.pane]
                        ELSE current[k]]
<1>1. Seeded(set, current) = result
  BY DEF Seeded
<1>2. free \subseteq set
  OBVIOUS
<1> HIDE DEF free
<1>3. ASSUME NEW k \in Sessions \X Threads, \E x \in free : <<x.place.session, x.thread>> = k
      PROVE  /\ seedOf(k) \in free /\ <<seedOf(k).place.session, seedOf(k).thread>> = k
             /\ result[k] = SeedRow(seedOf(k))
  <2>1. seedOf(k) \in free /\ <<seedOf(k).place.session, seedOf(k).thread>> = k
    BY <1>3
  <2>2. QED
    BY <1>3, <2>1 DEF SeedRow
<1>4. ASSUME NEW k \in Sessions \X Threads, ~\E x \in free : <<x.place.session, x.thread>> = k
      PROVE  result[k] = current[k]
  BY <1>4
<1>5. ASSUME NEW x \in set PROVE SeedRow(x) \in Rows
  BY DEF SeedRow, SeedTypes, Rows
<1> HIDE DEF seedOf
<1>6. ASSUME NEW k \in Sessions \X Threads
      PROVE  /\ result[k] \in Rows \cup {NoRow}
             /\ \/ result[k] = current[k]
                \/ \E x \in set : <<x.place.session, x.thread>> = k /\ result[k] = SeedRow(x)
  <2> HIDE DEF result
  <2>1. CASE \E x \in free : <<x.place.session, x.thread>> = k
    BY <1>2, <1>3, <1>5, <2>1
  <2>2. CASE ~\E x \in free : <<x.place.session, x.thread>> = k
    BY <1>4, <2>2 DEF RowSets
  <2>3. QED
    BY <2>1, <2>2
<1>7. result \in RowSets
  BY <1>6 DEF RowSets
<1> HIDE DEF result
<1>8. QED
  BY <1>1, <1>6, <1>7

(* What the seeding finds: one observation for each seed, dated by the      *)
(* latest of what is near it.                                               *)
LEMMA PlaceOfType ==
    ASSUME poll \in Polls, NEW o \in Observations, Placed(o), NEW ok
    PROVE  /\ o.pid # NoPid => /\ o.pid \in Pids /\ o.pid \in DOMAIN poll.found
                               /\ PlaceOf(o, ok) = poll.found[o.pid]
                               /\ PlaceOf(o, ok) \in Places
           /\ o.pid = NoPid => PlaceOf(o, ok) = [session |-> IF ok THEN SessionOfDir(o.dir)
                                                             ELSE NoSession, pane |-> NoPane]
           /\ PlaceOf(o, ok) \in [session : Sessions \cup {NoSession}, pane : Panes \cup {NoPane}]
           /\ PlaceOf(o, ok) # Anywhere =>
                 PlaceOf(o, ok) \in [session : Sessions, pane : Panes \cup {NoPane}]
<1>1. poll.found \in Partial(Places) /\ o.pid \in Pids \cup {NoPid}
  BY DEF Polls, Observations
<1>2. \A pid \in DOMAIN poll.found : poll.found[pid] \in Places
  BY <1>1, PartialIs
<1>3. CASE o.pid # NoPid
  BY <1>1, <1>2, <1>3 DEF Placed, PlaceOf, Places
<1>4. CASE o.pid = NoPid
  BY <1>4, SessionOfDirType DEF PlaceOf, Anywhere
<1>5. QED
  BY <1>3, <1>4

LEMMA SeedsType ==
    ASSUME poll \in Polls, NEW ok, NEW x \in Seeds(poll.obs, ok)
    PROVE  /\ x \in SeedTypes
           /\ \E o \in poll.obs :
                /\ Placed(o) /\ x.thread = o.thread /\ x.kind = o.kind /\ x.place = PlaceOf(o, ok)
                /\ x.ts = Latest({p.mtime : p \in Near(o, {q \in poll.obs : Placed(q)}, ok)})
<1> DEFINE placed == {o \in poll.obs : Placed(o)}
<1>1. PICK o \in placed :
         /\ PlaceOf(o, ok) # Anywhere /\ o.snapshot # NoSnapshot
         /\ x = [thread |-> o.thread, kind |-> o.kind, place |-> PlaceOf(o, ok),
                 status |-> o.snapshot.status, ts |-> Latest({p.mtime : p \in Near(o, placed, ok)})]
  BY Zenon DEF Seeds
<1>2. poll.obs \subseteq Observations
  BY DEF Polls
<1>3. o \in Observations /\ Placed(o)
  BY <1>2
<1>4. PlaceOf(o, ok) \in [session : Sessions, pane : Panes \cup {NoPane}]
  BY <1>1, <1>3, PlaceOfType
<1>5. o.snapshot.status \in Statuses
  BY <1>1, <1>3 DEF Observations, Snapshots
<1> DEFINE times == {p.mtime : p \in Near(o, placed, ok)}
<1>6. \A p \in Near(o, placed, ok) : p \in Observations
  BY <1>2 DEF Near, At
<1>7. times \in SUBSET Times
  BY <1>6 DEF Observations
<1>8. o \in Near(o, placed, ok)
  BY DEF Near, At
<1>9. o.mtime \in times
  BY <1>8
<1>10. Latest(times) \in Times
  BY <1>7, <1>9, LatestIsLatest
<1> HIDE DEF times
<1>11. x.ts = Latest(times) /\ x.thread = o.thread /\ x.kind = o.kind /\ x.place = PlaceOf(o, ok)
  BY <1>1 DEF times
<1>12. x \in SeedTypes
  BY <1>1, <1>3, <1>4, <1>5, <1>10 DEF SeedTypes, Observations, times
<1>13. QED
  BY <1>11, <1>12 DEF times

-----------------------------------------------------------------------------
(* What the parts of the invariant need to stay.                            *)

LEMMA BudgetType ==
    ASSUME TypeOK, NEW ok, Fails(ok) PROVE budget' \in 0..MaxEvents
BY WatchersAssumption DEF TypeOK, Fails, WatchersAssumption

LEMMA WantedAre ==
    ASSUME TypeOK, AllBorn, OnceRead
    PROVE  Wanted \in SUBSET Pids /\ \A pid \in Wanted : Born(pid) /\ pid # NoPid
<1>1. poll.obs \subseteq Observations
  BY DEF TypeOK, Polls
<1>2. QED
  BY <1>1 DEF Wanted, AllBorn, OnceRead, Observations

(* A poll that neither looks for processes nor remembers routes.            *)
LEMMA Reading ==
    ASSUME IInv, UNCHANGED world, UNCHANGED cache, poll'.pc \notin {"table", "listing"},
           \A pid \in Pids : poll'.table[pid] # NoPane => poll.table[pid] # NoPane,
           DOMAIN poll'.found \subseteq DOMAIN poll.found,
           \A o \in poll'.obs : o \in poll.obs \/ (o.kind = files[o.thread].kind /\ Born(o.pid))
    PROVE  Kindred' /\ AllBorn' /\ RoutesHold' /\ Listing'
<1>1. UNCHANGED <<files, old, procs, panes>>
  BY DEF world
<1>2. Kindred'
  BY <1>1 DEF IInv, Kindred
<1>3. AllBorn'
  BY <1>1 DEF IInv, AllBorn, Born
<1>4. RoutesHold'
  BY <1>1 DEF IInv, RoutesHold, Running, PlaceIn
<1>5. Listing'
  BY DEF Listing, Undisturbed
<1>6. QED
  BY <1>2, <1>3, <1>4, <1>5

LEMMA BeginScanStep == ASSUME IInv, BeginScan PROVE IInv'
<1>1. TypeOK /\ poll \in Polls /\ Fresh
  BY DEF IInv, TypeOK
<1>2. UNCHANGED <<clock, files, old, procs, panes, rows, cache, seen, budget>>
  BY DEF BeginScan, world
<1> DEFINE mtimes == [t \in Threads |-> files[t].mtime]
           unread == {t \in Threads : InWindow(files[t], clock) \/ InWindow(old[t], clock)}
<1>3. mtimes \in [Threads -> Times] /\ unread \in SUBSET Threads /\ clock \in Times
  BY <1>1 DEF TypeOK, Written
<1>4. poll' = [poll EXCEPT !.pc = "reading", !.now = clock, !.mtimes = mtimes, !.unread = unread]
  BY DEF BeginScan
<1> HIDE DEF mtimes, unread
<1>5. /\ poll' \in Polls /\ poll'.pc = "reading" /\ poll'.obs = poll.obs
      /\ poll'.astray = poll.astray /\ poll'.table = poll.table /\ poll'.found = poll.found
      /\ poll'.seeding = poll.seeding
  BY <1>1, <1>3, <1>4 DEF Polls
<1>6. poll.obs = {} /\ poll.astray = {} /\ (~poll.seeding => DOMAIN poll.found = {})
  BY <1>1 DEF BeginScan, Fresh
<1>7. TypeOK'
  BY <1>1, <1>2, <1>5 DEF TypeOK
<1>8. Fresh' /\ OnceRead'
  BY <1>5, <1>6 DEF Fresh, OnceRead
<1>9. QED
  BY <1>2, <1>5, <1>7, <1>8, Reading DEF IInv, world

LEMMA ReadFileStep == ASSUME IInv, ReadFile PROVE IInv'
<1>1. TypeOK /\ poll \in Polls /\ Fresh /\ OnceRead /\ Kindred /\ AllBorn
  BY DEF IInv, TypeOK
<1>2. UNCHANGED <<clock, files, old, procs, panes, rows, cache, seen, budget>>
  BY DEF ReadFile, world
<1>3. poll.pc = "reading" /\ poll.unread # {} /\ poll.unread \subseteq Threads
  BY <1>1 DEF ReadFile, Polls
<1> DEFINE t      == First(poll.unread)
           legacy == Observed(t, old[t], old[t].mtime, poll.now)
           log    == Observed(t, files[t], poll.mtimes[t], poll.now)
           o      == IF ~InWindow(old[t], poll.now) THEN log
                     ELSE IF poll.seeding \/ poll.now <= poll.mtimes[t] + Recent
                          THEN Merged(legacy, log) ELSE legacy
<1>4. t \in poll.unread /\ t \in Threads
  BY <1>3 DEF First
<1>5. poll' = [poll EXCEPT !.unread = @ \ {t}, !.mtimes[t] = 0, !.obs = @ \cup {o}]
  BY DEF ReadFile
<1>6. /\ poll.mtimes \in [Threads -> Times] /\ files[t] \in Written
      /\ InWindow(old[t], poll.now) => old[t] \in Written /\ old[t] # NoFile
  BY <1>1, <1>4 DEF TypeOK, Polls, InWindow
<1>7. /\ log \in Observations /\ log.thread = t /\ log.kind = files[t].kind
      /\ log.pid = files[t].pid
  <2>1. log \in Observations
    BY <1>4, <1>6, ObservedType
  <2>2. QED
    BY <2>1 DEF Observed
<1>8. ASSUME InWindow(old[t], poll.now)
      PROVE  /\ legacy \in Observations /\ legacy.thread = t /\ legacy.kind = files[t].kind
             /\ legacy.pid = NoPid
  <2>1. legacy \in Observations
    BY <1>4, <1>6, <1>8, ObservedType DEF Written
  <2>2. legacy.thread = t /\ legacy.kind = old[t].kind /\ legacy.pid = old[t].pid
    BY DEF Observed
  <2>3. QED
    BY <1>1, <1>4, <1>6, <1>8, <2>1, <2>2 DEF Kindred
<1> HIDE DEF legacy, log
<1>9. o \in Observations /\ o.thread = t /\ o.kind = files[t].kind /\ Born(o.pid)
  <2>1. Born(files[t].pid) /\ Born(NoPid)
    BY <1>1, <1>4 DEF AllBorn, Born
  <2>2. CASE ~InWindow(old[t], poll.now)
    BY <1>7, <2>1, <2>2
  <2>3. CASE InWindow(old[t], poll.now)
    BY <1>7, <1>8, <2>1, <2>3, MergedType
  <2>4. QED
    BY <2>2, <2>3
<1> HIDE DEF t, o
<1>10. [poll.mtimes EXCEPT ![t] = 0] \in [Threads -> Times]
  <2>1. 0 \in Times
    BY WatchersAssumption DEF WatchersAssumption, Times
  <2>2. QED
    BY <1>4, <1>6, <2>1
<1>11. /\ poll' \in Polls /\ poll'.pc = "reading" /\ poll'.obs = poll.obs \cup {o}
       /\ poll'.astray = poll.astray /\ poll'.table = poll.table /\ poll'.found = poll.found
       /\ poll'.seeding = poll.seeding /\ poll'.unread = poll.unread \ {t}
  BY <1>1, <1>3, <1>5, <1>9, <1>10 DEF Polls
<1>12. TypeOK'
  BY <1>1, <1>2, <1>11 DEF TypeOK
<1>13. Fresh'
  BY <1>1, <1>3, <1>11 DEF Fresh
<1>14. poll.astray = {} /\ \A p \in poll.obs : p.thread # t
  BY <1>1, <1>3, <1>4 DEF Fresh, OnceRead
<1>15. OnceRead'
  BY <1>1, <1>3, <1>9, <1>11, <1>14 DEF OnceRead
<1>16. QED
  BY <1>2, <1>9, <1>11, <1>12, <1>13, <1>15, Reading DEF IInv, world

LEMMA ReleaseSeedsStep == ASSUME IInv, ReleaseSeeds PROVE IInv'
<1>1. TypeOK /\ poll \in Polls /\ Fresh /\ OnceRead
  BY DEF IInv, TypeOK
<1>2. UNCHANGED <<clock, files, old, procs, panes, cache, seen, budget>>
  BY DEF ReleaseSeeds, world
<1>3. /\ poll' \in Polls /\ poll'.pc = "released" /\ poll'.obs = poll.obs
      /\ poll'.astray = poll.astray /\ poll'.table = poll.table /\ poll'.found = poll.found
      /\ poll'.seeding = poll.seeding /\ poll.pc = "reading" /\ ~poll.seeding
  BY <1>1 DEF ReleaseSeeds, Polls
<1>4. rows' \in [Sessions \X Threads -> Rows \cup {NoRow}]
  BY <1>1 DEF ReleaseSeeds, TypeOK
<1>5. TypeOK'
  BY <1>1, <1>2, <1>3, <1>4 DEF TypeOK
<1>6. Fresh' /\ OnceRead'
  BY <1>1, <1>3 DEF Fresh, OnceRead
<1>7. QED
  BY <1>2, <1>3, <1>5, <1>6, Reading DEF IInv, world

LEMMA FindAstrayStep == ASSUME IInv, NEW ok \in BOOLEAN, FindAstray(ok) PROVE IInv'
<1>1. TypeOK /\ poll \in Polls /\ Fresh /\ OnceRead
  BY DEF IInv, TypeOK
<1>2. UNCHANGED <<clock, files, old, procs, panes, rows, cache, seen>>
  BY DEF FindAstray, world
<1> DEFINE written == {o \in poll.obs : /\ o.pid # NoPid /\ o.snapshot # NoSnapshot
                                        /\ o.snapshot.status # "idle"}
           astray  == {o.thread : o \in {o \in written : SessionOfDir(o.dir) = NoSession \/ ~ok}}
<1>3. poll' = [poll EXCEPT !.astray = astray,
                           !.pc = IF astray = {} THEN "applying" ELSE "astray"]
  BY DEF FindAstray
<1>4. poll.obs \subseteq Observations
  BY <1>1 DEF Polls
<1>5. astray \in SUBSET Threads
  BY <1>4 DEF Observations
<1>6. \A o \in poll.obs : o.thread \in astray => o.pid # NoPid
  BY <1>1 DEF OnceRead
<1> HIDE DEF astray
<1>7. /\ poll' \in Polls /\ poll'.pc \in {"applying", "astray"} /\ poll'.obs = poll.obs
      /\ poll'.astray = astray /\ poll'.table = poll.table /\ poll'.found = poll.found
      /\ poll'.seeding = poll.seeding
  BY <1>1, <1>3, <1>5 DEF Polls
<1>8. poll.pc = "released"
  BY DEF FindAstray
<1>9. TypeOK'
  BY <1>1, <1>2, <1>7, BudgetType DEF TypeOK, FindAstray
<1>10. Fresh' /\ OnceRead'
  BY <1>1, <1>6, <1>7, <1>8 DEF Fresh, OnceRead
<1>11. QED
  BY <1>2, <1>7, <1>9, <1>10, Reading DEF IInv, world

LEMMA CheckCacheStep == ASSUME IInv, NEW ok \in BOOLEAN, CheckCache(ok) PROVE IInv'
<1>1. TypeOK /\ poll \in Polls /\ cache \in Caches /\ Fresh /\ OnceRead /\ Kindred /\ AllBorn
  BY DEF IInv, TypeOK
<1>2. UNCHANGED <<clock, files, old, procs, panes, rows, seen>>
  BY DEF CheckCache, world
<1>3. panes \in [Panes -> PaneStates]
  BY <1>1 DEF TypeOK
<1>4. /\ cache' \in Caches /\ (cache' = cache \/ DOMAIN cache'.routes = {})
      /\ cache'.layout = (IF ok THEN panes ELSE NoLayout)
  <2>1. \A l \in [Panes -> PaneStates] \cup {NoLayout} :
          NoRoutes(l) \in Caches /\ NoRoutes(l).layout = l /\ DOMAIN NoRoutes(l).routes = {}
    BY NothingIsPartial DEF NoRoutes, Caches
  <2>2. cache' = IF ok /\ cache.layout = panes THEN cache
                 ELSE NoRoutes(IF ok THEN panes ELSE NoLayout)
    BY DEF CheckCache, CacheFor, Layout
  <2>3. QED
    BY <1>1, <1>3, <2>1, <2>2
<1>5. /\ poll.pc = "astray" /\ ~poll.seeding
      /\ poll' = [poll EXCEPT !.pc = IF Wanted \subseteq DOMAIN cache'.routes
                                     THEN "applying" ELSE "table"]
  BY <1>1 DEF CheckCache, Fresh
<1>6. /\ poll' \in Polls /\ poll'.pc \in {"applying", "table"} /\ poll'.obs = poll.obs
      /\ poll'.astray = poll.astray /\ poll'.table = poll.table /\ poll'.found = poll.found
      /\ ~poll'.seeding
  BY <1>1, <1>5 DEF Polls
<1>7. TypeOK'
  BY <1>1, <1>2, <1>4, <1>6, BudgetType DEF TypeOK, CheckCache
<1>8. Fresh' /\ OnceRead'
  BY <1>1, <1>5, <1>6 DEF Fresh, OnceRead
<1>9. Kindred' /\ AllBorn'
  BY <1>1, <1>2, <1>4, <1>6 DEF Kindred, AllBorn, Born
<1>10. RoutesHold'
  BY <1>2, <1>4 DEF IInv, RoutesHold, Running, PlaceIn
<1>11. Listing'
  BY <1>2, <1>4, <1>6 DEF Listing, Undisturbed
<1>12. QED
  BY <1>7, <1>8, <1>9, <1>10, <1>11 DEF IInv

LEMMA ReadTableStep == ASSUME IInv, NEW ok \in BOOLEAN, ReadTable(ok) PROVE IInv'
<1>1. TypeOK /\ poll \in Polls /\ Fresh /\ OnceRead /\ Kindred /\ AllBorn
  BY DEF IInv, TypeOK
<1>2. UNCHANGED <<clock, files, old, procs, panes, rows, cache, seen>>
  BY DEF ReadTable, world
<1> DEFINE table == [pid \in Pids |-> IF Running(pid) THEN procs[pid] ELSE NoPane]
<1>3. table \in [Pids -> Panes \cup {NoPane}]
  BY DEF Running
<1>4. \A pid \in Pids : /\ Running(pid) => table[pid] = procs[pid] /\ table[pid] # NoPane
                        /\ ~Running(pid) => table[pid] = NoPane
  BY WatchersAssumption DEF Running, WatchersAssumption
<1>5. poll.pc \in {"table", "reading"} /\ (poll.pc = "reading" => poll.unread = {} /\ poll.seeding)
  BY DEF ReadTable
<1>6. poll' = IF ok THEN [poll EXCEPT !.pc = "listing", !.table = table, !.unlisted = Sessions]
              ELSE [poll EXCEPT !.pc = IF poll.seeding THEN "seeding" ELSE "applying"]
  BY DEF ReadTable
<1> HIDE DEF table
<1>7. /\ poll' \in Polls /\ poll'.obs = poll.obs /\ poll'.astray = poll.astray
      /\ poll'.found = poll.found /\ poll'.seeding = poll.seeding /\ poll'.lost = poll.lost
      /\ IF ok THEN poll'.pc = "listing" /\ poll'.table = table /\ poll'.unlisted = Sessions
         ELSE poll'.pc = (IF poll.seeding THEN "seeding" ELSE "applying") /\ poll'.table = poll.table
  BY <1>1, <1>3, <1>6 DEF Polls
<1>8. TypeOK'
  BY <1>1, <1>2, <1>7, BudgetType DEF TypeOK, ReadTable
<1>9. Fresh' /\ OnceRead'
  BY <1>1, <1>5, <1>7 DEF Fresh, OnceRead
<1>10. \A pid \in Pids : Running(pid) => Born(pid)
  BY WatchersAssumption DEF Running, Born, WatchersAssumption
<1>11. Kindred' /\ AllBorn'
  BY <1>1, <1>2, <1>4, <1>7, <1>10 DEF Kindred, AllBorn, Born
<1>12. RoutesHold'
  BY <1>2 DEF IInv, RoutesHold, Running, PlaceIn
<1>13. Listing'
  <2>1. SUFFICES ASSUME Undisturbed' PROVE Listing'
    BY DEF Listing
  <2>2. ok /\ ~poll.seeding
    BY <1>7, <2>1 DEF Undisturbed
  <2>3. poll.pc = "table" /\ Undisturbed
    BY <1>2, <1>5, <1>7, <2>1, <2>2 DEF Undisturbed
  <2>4. panes = cache.layout /\ DOMAIN poll.found = {}
    BY <1>1, <2>2, <2>3 DEF IInv, Listing, Fresh
  <2>5. ASSUME NEW pid \in Pids
        PROVE  /\ table[pid] # NoPane => procs[pid] = table[pid] /\ panes[table[pid]].session \in Sessions
               /\ table[pid] = NoPane => ~Running(pid)
    <3>1. panes \in [Panes -> PaneStates]
      BY <1>1 DEF TypeOK
    <3>2. QED
      BY <1>4, <3>1 DEF Running, PaneStates
  <2>6. QED
    BY <1>2, <1>7, <2>2, <2>4, <2>5 DEF Listing, Running
<1>14. QED
  BY <1>8, <1>9, <1>11, <1>12, <1>13 DEF IInv

LEMMA ListPanesStep == ASSUME IInv, NEW ok \in BOOLEAN, ListPanes(ok) PROVE IInv'
<1>1. TypeOK /\ poll \in Polls /\ Fresh /\ OnceRead /\ Kindred /\ AllBorn /\ Listing
  BY DEF IInv, TypeOK
<1>2. UNCHANGED <<clock, files, old, procs, panes, rows, cache, seen>>
  BY DEF ListPanes, world
<1> DEFINE s    == First(poll.unlisted)
           here == {pid \in Pids : /\ poll.table[pid] # NoPane
                                   /\ panes[poll.table[pid]] = [session |-> s, agent |-> "amp"]}
           new  == [pid \in here |-> [session |-> s, pane |-> poll.table[pid]]]
           found == IF ok THEN Over(new, poll.found) ELSE poll.found
<1>3. poll.pc = "listing" /\ s \in poll.unlisted /\ s \in Sessions
  BY <1>1 DEF ListPanes, First, Polls
<1>4. /\ panes \in [Panes -> PaneStates] /\ poll.table \in [Pids -> Panes \cup {NoPane}]
      /\ poll.found \in Partial(Places)
  BY <1>1 DEF TypeOK, Polls
<1>5. poll' = [poll EXCEPT !.unlisted = @ \ {s}, !.lost = @ \/ ~ok, !.found = found]
  BY DEF ListPanes
<1> HIDE DEF s
<1>6. new \in Partial(Places) /\ DOMAIN new = here
  <2>1. new \in [here -> Places]
    BY <1>3, <1>4 DEF Places
  <2>2. QED
    BY <2>1, AllAtIsPartial
<1>7. \A pid \in here : new[pid] = [session |-> s, pane |-> poll.table[pid]]
  OBVIOUS
<1> HIDE DEF new
<1>8. /\ Over(new, poll.found) \in Partial(Places)
      /\ DOMAIN Over(new, poll.found) = here \cup DOMAIN poll.found
      /\ \A pid \in here : Over(new, poll.found)[pid] = new[pid]
      /\ \A pid \in DOMAIN poll.found \ here : Over(new, poll.found)[pid] = poll.found[pid]
  <2>1. Over(new, poll.found) \in Partial(Places)
    BY <1>4, <1>6, OverIsPartial
  <2> HIDE DEF here
  <2>2. QED
    BY <1>6, <2>1 DEF Over
<1>9. found \in Partial(Places)
  BY <1>4, <1>8
<1> HIDE DEF found
<1> DEFINE lost == poll.lost \/ ~ok
<1>10. lost \in BOOLEAN
  OBVIOUS
<1>11. poll' = [poll EXCEPT !.unlisted = poll.unlisted \ {s}, !.lost = lost, !.found = found]
  BY <1>5
<1> HIDE DEF lost
<1>12. /\ poll' \in Polls /\ poll'.pc = "listing" /\ poll'.obs = poll.obs
       /\ poll'.astray = poll.astray /\ poll'.table = poll.table /\ poll'.found = found
       /\ poll'.seeding = poll.seeding /\ poll'.lost = lost
       /\ poll'.unlisted = poll.unlisted \ {s}
  BY <1>1, <1>3, <1>9, <1>10, <1>11 DEF Polls
<1>13. TypeOK'
  BY <1>1, <1>2, <1>12, BudgetType DEF TypeOK, ListPanes
<1>14. Fresh' /\ OnceRead'
  BY <1>1, <1>3, <1>12 DEF Fresh, OnceRead
<1>15. Kindred' /\ AllBorn'
  <2>1. \A pid \in DOMAIN found : pid \in DOMAIN poll.found \/ poll.table[pid] # NoPane
    BY <1>8 DEF found
  <2>2. QED
    BY <1>1, <1>2, <1>12, <2>1 DEF Kindred, AllBorn, Born
<1>16. RoutesHold'
  BY <1>2 DEF IInv, RoutesHold, Running, PlaceIn
<1>17. Listing'
  <2>1. SUFFICES ASSUME Undisturbed' PROVE Listing'
    BY DEF Listing
  <2>2. Undisturbed /\ ok /\ Wanted' = Wanted /\ panes = cache.layout
    BY <1>1, <1>2, <1>3, <1>12, <2>1 DEF Undisturbed, lost, Wanted, Listing
  <2>3. found = Over(new, poll.found)
    BY <2>2 DEF found
  <2>4. ASSUME NEW pid \in Pids
        PROVE  /\ poll.table[pid] # NoPane => procs[pid] \in {poll.table[pid], NoPane}
               /\ poll.table[pid] = NoPane /\ pid \in Wanted => ~Running(pid)
               /\ pid \in DOMAIN poll.found => /\ poll.table[pid] # NoPane
                                               /\ poll.found[pid] = PlaceIn(panes, poll.table[pid])
               /\ /\ poll.table[pid] # NoPane
                  /\ panes[poll.table[pid]].agent = "amp"
                  /\ panes[poll.table[pid]].session \notin poll.unlisted
                  => pid \in DOMAIN poll.found
    BY <1>1, <1>3, <2>2 DEF Listing
  <2>5. ASSUME NEW pid \in here
        PROVE  poll.table[pid] # NoPane /\ found[pid] = PlaceIn(panes, poll.table[pid])
    <3>1. poll.table[pid] \in Panes /\ panes[poll.table[pid]] = [session |-> s, agent |-> "amp"]
      BY <1>4
    <3>2. QED
      BY <1>7, <1>8, <2>3, <3>1 DEF PlaceIn
  <2>6. ASSUME NEW pid \in Pids
        PROVE  /\ pid \in DOMAIN found => /\ poll.table[pid] # NoPane
                                          /\ found[pid] = PlaceIn(panes, poll.table[pid])
               /\ /\ poll.table[pid] # NoPane
                  /\ panes[poll.table[pid]].agent = "amp"
                  /\ panes[poll.table[pid]].session \notin poll.unlisted \ {s}
                  => pid \in DOMAIN found
    <3>1. pid \in DOMAIN found => /\ poll.table[pid] # NoPane
                                  /\ found[pid] = PlaceIn(panes, poll.table[pid])
      BY <1>8, <2>3, <2>4, <2>5
    <3>2. ASSUME poll.table[pid] # NoPane, panes[poll.table[pid]].agent = "amp",
                 panes[poll.table[pid]].session = s
          PROVE  pid \in here
      <4>1. panes[poll.table[pid]] \in PaneStates
        BY <1>4, <3>2
      <4>2. panes[poll.table[pid]] = [session |-> s, agent |-> "amp"]
        BY <3>2, <4>1 DEF PaneStates
      <4>3. QED
        BY <3>2, <4>2
    <3>3. QED
      BY <1>8, <2>3, <2>4, <3>1, <3>2
  <2> HIDE DEF here
  <2>7. QED
    BY <1>2, <1>12, <2>2, <2>4, <2>6 DEF Listing, Running
<1>18. QED
  BY <1>13, <1>14, <1>15, <1>16, <1>17 DEF IInv

LEMMA RememberRoutesStep == ASSUME IInv, RememberRoutes PROVE IInv'
<1>1. /\ TypeOK /\ poll \in Polls /\ cache \in Caches /\ Fresh /\ OnceRead /\ Kindred /\ AllBorn
      /\ RoutesHold /\ Listing
  BY DEF IInv, TypeOK
<1>2. UNCHANGED <<clock, files, old, procs, panes, rows, seen, budget>>
  BY DEF RememberRoutes, world
<1>3. poll.pc = "listing" /\ poll.unlisted = {}
  BY DEF RememberRoutes
<1> DEFINE table == Asleep.table
           nowhere == [pid \in Wanted |-> NoRow]
           routes == Over(poll.found, Over(nowhere, cache.routes))
<1>4. table \in [Pids -> Panes \cup {NoPane}] /\ \A pid \in Pids : table[pid] = NoPane
  BY DEF Asleep
<1>5. Nothing \in Partial(Places) /\ DOMAIN Nothing = {}
  BY NothingIsPartial
<1>6. Wanted \in SUBSET Pids /\ \A pid \in Wanted : Born(pid)
  BY <1>1, WantedAre
<1>7. /\ routes \in Partial(Places \cup {NoRow})
      /\ \A pid \in DOMAIN routes :
           pid \in DOMAIN poll.found \/ pid \in Wanted \/ pid \in DOMAIN cache.routes
      /\ \A pid \in DOMAIN routes :
           routes[pid] = IF pid \in DOMAIN poll.found THEN poll.found[pid]
                         ELSE IF pid \in Wanted THEN NoRow ELSE cache.routes[pid]
  <2> DEFINE mid == Over(nowhere, cache.routes)
  <2>1. nowhere \in Partial(Places \cup {NoRow}) /\ DOMAIN nowhere = Wanted
    <3>1. nowhere \in [Wanted -> Places \cup {NoRow}]
      OBVIOUS
    <3>2. QED
      BY <1>6, <3>1, AllAtIsPartial
  <2>2. poll.found \in Partial(Places \cup {NoRow}) /\ cache.routes \in Partial(Places \cup {NoRow})
    BY <1>1 DEF Polls, Caches, Partial
  <2>3. mid \in Partial(Places \cup {NoRow})
    BY <2>1, <2>2, OverIsPartial
  <2>4. /\ DOMAIN mid = Wanted \cup DOMAIN cache.routes
        /\ \A pid \in DOMAIN mid : mid[pid] = IF pid \in Wanted THEN NoRow ELSE cache.routes[pid]
    BY <2>1 DEF Over
  <2> HIDE DEF mid
  <2>5. routes \in Partial(Places \cup {NoRow})
    BY <2>2, <2>3, OverIsPartial DEF mid
  <2>6. routes = Over(poll.found, mid)
    BY DEF mid
  <2>7. /\ DOMAIN routes = DOMAIN poll.found \cup DOMAIN mid
        /\ \A pid \in DOMAIN routes :
             routes[pid] = IF pid \in DOMAIN poll.found THEN poll.found[pid] ELSE mid[pid]
    BY <2>6 DEF Over
  <2>8. QED
    BY <2>4, <2>5, <2>7
<1>8. CASE poll.seeding
  <2>1. /\ poll' = [poll EXCEPT !.pc = "seeding", !.table = table]
        /\ cache' = cache
    BY <1>8 DEF RememberRoutes
  <2> HIDE DEF table
  <2>2. /\ poll' \in Polls /\ poll'.pc = "seeding" /\ poll'.obs = poll.obs
        /\ poll'.astray = poll.astray /\ poll'.table = table /\ poll'.found = poll.found
        /\ poll'.seeding = poll.seeding
    BY <1>1, <1>4, <2>1 DEF Polls
  <2>3. TypeOK'
    BY <1>1, <1>2, <2>1, <2>2 DEF TypeOK
  <2>4. Fresh' /\ OnceRead'
    BY <1>1, <1>3, <1>8, <2>2 DEF Fresh, OnceRead
  <2>5. QED
    BY <1>2, <1>4, <2>1, <2>2, <2>3, <2>4, Reading DEF IInv, world
<1>9. CASE ~poll.seeding
  <2>1. /\ poll' = [poll EXCEPT !.pc = "applying", !.table = table, !.found = Nothing, !.lost = FALSE]
        /\ cache' = [cache EXCEPT !.routes = routes, !.sure = cache.sure /\ ~poll.lost]
    BY <1>9 DEF RememberRoutes
  <2> HIDE DEF table, routes
  <2>2. /\ poll' \in Polls /\ poll'.pc = "applying" /\ poll'.obs = poll.obs
        /\ poll'.astray = poll.astray /\ poll'.table = table /\ poll'.found = Nothing
        /\ poll'.seeding = poll.seeding
    BY <1>1, <1>4, <1>5, <2>1 DEF Polls
  <2> DEFINE sure == cache.sure /\ ~poll.lost
  <2>3. sure \in BOOLEAN /\ cache' = [cache EXCEPT !.routes = routes, !.sure = sure]
    BY <1>1, <2>1 DEF Caches, Polls
  <2> HIDE DEF sure
  <2>4. /\ cache' \in Caches /\ cache'.layout = cache.layout /\ cache'.routes = routes
        /\ cache'.sure = sure
    BY <1>1, <1>7, <2>3 DEF Caches
  <2>5. TypeOK'
    BY <1>1, <1>2, <2>2, <2>4 DEF TypeOK
  <2>6. Fresh' /\ OnceRead'
    BY <1>1, <1>3, <1>5, <1>9, <2>2 DEF Fresh, OnceRead
  <2>7. Kindred'
    BY <1>1, <1>2, <2>2 DEF Kindred
  <2>8. AllBorn'
    BY <1>1, <1>2, <1>4, <1>5, <1>6, <1>7, <2>2, <2>4 DEF AllBorn, Born
  <2>9. RoutesHold'
    <3>1. SUFFICES ASSUME sure, cache.layout # NoLayout, NEW pid \in DOMAIN routes, Running(pid)
                   PROVE  routes[pid] = PlaceIn(cache.layout, procs[pid])
      BY <1>2, <2>4 DEF RoutesHold, Running, PlaceIn
    <3>2. pid \in Pids
      BY <1>7, PartialIs
    <3>3. cache.sure /\ ~poll.lost
      BY <3>1 DEF sure
    <3>4. Undisturbed
      BY <1>3, <1>9, <3>1, <3>3 DEF Undisturbed
    <3>5. panes = cache.layout /\ panes \in [Panes -> PaneStates]
          /\ poll.table \in [Pids -> Panes \cup {NoPane}] /\ procs[pid] \in Panes
      BY <1>1, <3>1, <3>4 DEF Listing, TypeOK, Polls, Running
    <3>6. /\ poll.table[pid] # NoPane => procs[pid] = poll.table[pid]
          /\ pid \in Wanted => poll.table[pid] # NoPane
          /\ pid \in DOMAIN poll.found => /\ poll.table[pid] # NoPane
                                          /\ poll.found[pid] = PlaceIn(panes, poll.table[pid])
          /\ poll.table[pid] # NoPane /\ panes[poll.table[pid]].agent = "amp"
             => pid \in DOMAIN poll.found
      <4>1. NoPane \notin Panes
        BY WatchersAssumption DEF WatchersAssumption
      <4>2. QED
        BY <1>1, <1>3, <3>1, <3>2, <3>4, <3>5, <4>1 DEF Listing
    <3>7. CASE pid \in DOMAIN poll.found
      BY <1>7, <3>1, <3>5, <3>6, <3>7
    <3>8. CASE pid \notin DOMAIN poll.found /\ pid \in Wanted
      BY <1>7, <3>1, <3>5, <3>6, <3>8 DEF PlaceIn
    <3>9. CASE pid \notin DOMAIN poll.found /\ pid \notin Wanted
      BY <1>1, <1>7, <3>1, <3>3, <3>9 DEF RoutesHold
    <3>10. QED
      BY <3>7, <3>8, <3>9
  <2>10. Listing'
    BY <2>2 DEF Listing, Undisturbed
  <2>11. QED
    BY <2>5, <2>6, <2>7, <2>8, <2>9, <2>10 DEF IInv
<1>10. QED
  BY <1>8, <1>9

LEMMA EndPollStep == ASSUME IInv, poll' = Asleep, UNCHANGED <<world, cache, seen>>,
                            rows' \in RowSets, budget' \in 0..MaxEvents
                     PROVE  IInv'
<1>1. TypeOK
  BY DEF IInv
<1>2. /\ poll' \in Polls /\ poll'.pc = "asleep" /\ poll'.obs = {} /\ poll'.astray = {}
      /\ ~poll'.seeding /\ DOMAIN poll'.found = {} /\ \A pid \in Pids : poll'.table[pid] = NoPane
  BY AsleepIsPoll, NothingIsPartial DEF Asleep
<1>3. TypeOK'
  BY <1>1, <1>2 DEF TypeOK, world, RowSets
<1>4. Fresh' /\ OnceRead'
  BY <1>2 DEF Fresh, OnceRead
<1>5. QED
  BY <1>2, <1>3, <1>4, Reading DEF IInv

LEMMA ApplySeedsRows ==
    ASSUME IInv, NEW ok \in BOOLEAN, ApplySeeds(ok)
    PROVE  /\ rows' \in RowSets
           /\ \A k \in Sessions \X Threads :
                \/ rows'[k] = rows[k]
                \/ \E x \in Seeds(poll.obs, ok) : /\ <<x.place.session, x.thread>> = k
                                                  /\ rows'[k] = SeedRow(x)
<1> DEFINE seeds == Seeds(poll.obs, ok)
           bound == {x \in seeds : x.place.pane # NoPane}
           first == Seeded(bound, rows)
<1>1. poll \in Polls /\ rows \in RowSets
  BY DEF IInv, TypeOK, RowSets
<1>2. seeds \in SUBSET SeedTypes
  BY <1>1, SeedsType
<1> HIDE DEF seeds
<1>3. bound \in SUBSET SeedTypes /\ bound \subseteq seeds /\ seeds \ bound \in SUBSET SeedTypes
  BY <1>2
<1>4. rows' = Seeded(seeds \ bound, first)
  BY DEF ApplySeeds, seeds
<1> HIDE DEF bound
<1>5. /\ first \in RowSets
      /\ \A k \in Sessions \X Threads :
           \/ first[k] = rows[k]
           \/ \E x \in bound : <<x.place.session, x.thread>> = k /\ first[k] = SeedRow(x)
  BY <1>1, <1>3, SeededType
<1> HIDE DEF first
<1>6. /\ rows' \in RowSets
      /\ \A k \in Sessions \X Threads :
           \/ rows'[k] = first[k]
           \/ \E x \in seeds \ bound : <<x.place.session, x.thread>> = k /\ rows'[k] = SeedRow(x)
  BY <1>3, <1>4, <1>5, SeededType
<1>7. QED
  BY <1>3, <1>5, <1>6 DEF seeds

LEMMA ApplySnapshotStep ==
    ASSUME IInv, NEW ok \in BOOLEAN, ApplySnapshot(ok)
    PROVE  /\ IInv'
           /\ \A k \in Sessions \X Threads :
                rows[k] = NoRow /\ rows'[k] # NoRow => ~rows'[k].seeded
<1>1. /\ TypeOK /\ poll \in Polls /\ cache \in Caches /\ rows \in RowSets
      /\ seen \in [Threads -> Lives \cup {NoRow}] /\ Fresh /\ OnceRead
  BY DEF IInv, TypeOK, RowSets
<1>2. UNCHANGED <<clock, files, old, procs, panes, cache>>
  BY DEF ApplySnapshot, world
<1> DEFINE o       == First(poll.obs)
           route   == Route(o)
           live    == [status |-> o.snapshot.status, ts |-> o.snapshot.ts, dir |-> o.dir,
                       route |-> route]
           fresh   == o.snapshot # NoSnapshot /\ o.snapshot.status # "idle" /\ IsNews(o, live)
           session == IF route # NoRow THEN route.session
                      ELSE IF ok THEN SessionOfDir(o.dir) ELSE NoSession
           applies == fresh /\ session # NoSession /\ (o.kind = "amp" => ~Newer(o))
           report  == [status |-> o.snapshot.status, ts |-> o.snapshot.ts, seeded |-> FALSE,
                       pane |-> IF route # NoRow THEN route.pane ELSE NoPane]
<1>3. poll.pc = "applying" /\ o \in poll.obs /\ o \in Observations
  BY <1>1 DEF ApplySnapshot, First, Polls
<1>4. /\ rows' = IF applies THEN Reported(<<session, o.thread>>, report) ELSE rows
      /\ seen' = IF applies THEN [seen EXCEPT ![o.thread] = live] ELSE seen
      /\ poll' = [poll EXCEPT !.obs = poll.obs \ {o}]
  BY DEF ApplySnapshot
<1> HIDE DEF o
<1>5. route \in Places \cup {NoRow}
  <2>1. cache.routes \in Partial(Places \cup {NoRow})
    BY <1>1 DEF Caches
  <2>2. QED
    BY <2>1, PartialIs DEF Route
<1>6. applies => session \in Sessions
  BY <1>5, SessionOfDirType DEF Places
<1>7. applies => o.snapshot.status \in Statuses /\ o.snapshot.ts \in Times
  BY <1>3 DEF Observations, Snapshots
<1>8. o.thread \in Threads /\ o.dir \in Dirs
  BY <1>3 DEF Observations
<1>9. (route # NoRow => route.pane \in Panes)
  BY <1>5 DEF Places
<1> HIDE DEF route
<1>10. applies => live \in Lives /\ report \in Rows /\ ~report.seeded
  BY <1>5, <1>7, <1>8, <1>9 DEF Lives, Rows
<1> HIDE DEF session, live, report, applies
<1>11. /\ rows' \in RowSets
       /\ \A k \in Sessions \X Threads : rows[k] = NoRow /\ rows'[k] # NoRow => ~rows'[k].seeded
  BY <1>1, <1>4, <1>6, <1>8, <1>10, ReportedType
<1>12. seen' \in [Threads -> Lives \cup {NoRow}]
  BY <1>1, <1>4, <1>8, <1>10
<1>13. /\ poll' \in Polls /\ poll'.pc = "applying" /\ poll'.obs = poll.obs \ {o}
       /\ poll'.astray = poll.astray /\ poll'.table = poll.table /\ poll'.found = poll.found
       /\ poll'.seeding = poll.seeding
  BY <1>1, <1>3, <1>4 DEF Polls
<1>14. TypeOK'
  BY <1>1, <1>2, <1>11, <1>12, <1>13, BudgetType DEF TypeOK, ApplySnapshot, RowSets
<1>15. Fresh' /\ OnceRead'
  BY <1>1, <1>3, <1>13 DEF Fresh, OnceRead
<1>16. QED
  BY <1>2, <1>11, <1>13, <1>14, <1>15, Reading DEF IInv, world

-----------------------------------------------------------------------------
(* The steps of agents, users and plugins.                                  *)

LEMMA MovesType == ASSUME TypeOK, Moves PROVE budget' \in 0..MaxEvents /\ UNCHANGED <<rows, seen>>
BY WatchersAssumption DEF TypeOK, Moves, WatchersAssumption

LEMMA WriteStep ==
    ASSUME IInv, NEW t \in Threads, NEW entry \in Entries,
           NEW dir \in {w.files[t].dir : w \in Worlds}, Write(t, entry, dir)
    PROVE  IInv'
<1>1. TypeOK /\ files \in [Threads -> Written] /\ clock \in Times /\ Kindred /\ AllBorn
  BY DEF IInv, TypeOK
<1>2. UNCHANGED <<clock, old, procs, panes, rows, poll, cache, seen>> /\ budget' \in 0..MaxEvents
  BY <1>1, MovesType DEF Write
<1>3. dir \in Dirs
  BY WatchersAssumption DEF WatchersAssumption, Files
<1>4. PICK pid \in IF files[t].kind = "amp" THEN {p \in Pids : Running(p)} ELSE {NoPid} :
         files' = [files EXCEPT ![t] = [Appended(@, entry) EXCEPT
                      !.mtime = clock, !.pid = pid, !.dir = dir]]
  BY DEF Write
<1>5. pid \in Pids \cup {NoPid} /\ Born(pid)
  BY WatchersAssumption DEF Born, Running, WatchersAssumption
<1> DEFINE f == [Appended(files[t], entry) EXCEPT !.mtime = clock, !.pid = pid, !.dir = dir]
<1>6. f \in Written /\ f.kind = files[t].kind /\ f.pid = pid
  <2>1. files[t] \in Written
    BY <1>1
  <2>2. Appended(files[t], entry) \in Written /\ Appended(files[t], entry).kind = files[t].kind
        /\ f \in Written
    BY <1>1, <1>3, <1>5, <2>1, AppendedType
  <2>3. QED
    BY <2>2 DEF Written
<1>7. files' = [files EXCEPT ![t] = f]
  BY <1>4
<1> HIDE DEF f
<1>8. files' \in [Threads -> Written]
  BY <1>1, <1>6, <1>7
<1>9. \A u \in Threads : files'[u].kind = files[u].kind /\ (files'[u].pid = files[u].pid \/ files'[u].pid = pid)
  BY <1>1, <1>6, <1>7
<1>10. TypeOK'
  BY <1>1, <1>2, <1>8 DEF TypeOK
<1>11. Kindred' /\ AllBorn'
  <2>1. poll.obs \subseteq Observations
    BY <1>1 DEF TypeOK, Polls
  <2>2. \A o \in poll.obs : o.thread \in Threads
    BY <2>1 DEF Observations
  <2>3. Kindred'
    BY <1>1, <1>2, <1>9, <2>2 DEF Kindred
  <2>4. AllBorn'
    BY <1>1, <1>2, <1>5, <1>9 DEF AllBorn, Born
  <2>5. QED
    BY <2>3, <2>4
<1>12. Fresh' /\ OnceRead' /\ RoutesHold'
  BY <1>2 DEF IInv, Fresh, OnceRead, RoutesHold, Running, PlaceIn
<1>13. Listing'
  BY <1>2 DEF IInv, Listing, Undisturbed, Running, PlaceIn, Wanted
<1>14. QED
  BY <1>10, <1>11, <1>12, <1>13 DEF IInv

(* A process that starts was in no table and is in no route.                *)
LEMMA StartStep ==
    ASSUME IInv, NEW pid \in Pids, NEW p \in Panes, Start(pid, p) PROVE IInv'
<1>1. /\ TypeOK /\ procs \in [Pids -> Panes \cup {NoPane, Unborn}] /\ cache \in Caches
      /\ poll \in Polls /\ Kindred /\ AllBorn /\ OnceRead
  BY DEF IInv, TypeOK
<1>2. UNCHANGED <<clock, files, old, panes, rows, poll, cache, seen>> /\ budget' \in 0..MaxEvents
  BY <1>1, MovesType DEF Start
<1>3. procs[pid] = Unborn /\ procs' = [procs EXCEPT ![pid] = p]
  BY DEF Start
<1>4. /\ procs' \in [Pids -> Panes \cup {NoPane, Unborn}]
      /\ \A q \in Pids : q # pid => procs'[q] = procs[q]
  BY <1>1, <1>3
<1>5. ~Born(pid)
  BY <1>3, WatchersAssumption DEF Born, WatchersAssumption
<1>6. TypeOK'
  BY <1>1, <1>2, <1>4 DEF TypeOK
<1>7. ASSUME NEW q, Born(q), q \in Pids \cup {NoPid} PROVE Born(q)' /\ q # pid
  BY <1>4, <1>5, <1>7 DEF Born
<1>8. Kindred' /\ AllBorn'
  <2>1. Kindred'
    BY <1>1, <1>2 DEF Kindred
  <2>2. poll.obs \subseteq Observations /\ \A t \in Threads : files[t] \in Written
    BY <1>1 DEF TypeOK, Polls
  <2>3. AllBorn'
    BY <1>1, <1>2, <1>4, <1>5, <2>2 DEF AllBorn, Born, Observations, Written
  <2>4. QED
    BY <2>1, <2>3
<1>9. poll.table[pid] = NoPane /\ pid \notin DOMAIN poll.found /\ pid \notin DOMAIN cache.routes
      /\ pid \notin Wanted
  BY <1>1, <1>5, WantedAre DEF AllBorn
<1>10. DOMAIN cache.routes \subseteq Pids
  BY <1>1, PartialIs DEF Caches
<1>11. Fresh' /\ OnceRead'
  BY <1>2 DEF IInv, Fresh, OnceRead
<1>12. RoutesHold'
  <2>1. \A q \in DOMAIN cache.routes : procs'[q] = procs[q]
    BY <1>4, <1>9, <1>10
  <2>2. QED
    BY <1>2, <2>1 DEF IInv, RoutesHold, Running, PlaceIn
<1>13. Listing'
  BY <1>2, <1>4, <1>9 DEF IInv, Listing, Undisturbed, Running, PlaceIn, Wanted
<1>14. QED
  BY <1>6, <1>8, <1>11, <1>12, <1>13 DEF IInv

LEMMA ExitStep == ASSUME IInv, NEW pid \in Pids, Exit(pid) PROVE IInv'
<1>1. /\ TypeOK /\ procs \in [Pids -> Panes \cup {NoPane, Unborn}] /\ cache \in Caches
      /\ poll \in Polls /\ Kindred /\ AllBorn /\ OnceRead
  BY DEF IInv, TypeOK
<1>2. UNCHANGED <<clock, files, old, panes, rows, poll, cache, seen>> /\ budget' \in 0..MaxEvents
  BY <1>1, MovesType DEF Exit
<1>3. Running(pid) /\ procs' = [procs EXCEPT ![pid] = NoPane]
  BY DEF Exit
<1>4. NoPane # Unborn /\ NoPane \notin Panes /\ NoPid \notin Pids
  BY WatchersAssumption DEF WatchersAssumption
<1>5. /\ procs' \in [Pids -> Panes \cup {NoPane, Unborn}]
      /\ \A q \in Pids : procs'[q] = procs[q] \/ procs'[q] = NoPane
      /\ \A q \in Pids : (procs'[q] \in Panes) => procs'[q] = procs[q]
  BY <1>1, <1>3, <1>4
<1>6. TypeOK'
  BY <1>1, <1>2, <1>5 DEF TypeOK
<1>7. Kindred' /\ AllBorn'
  <2>1. Kindred'
    BY <1>1, <1>2 DEF Kindred
  <2>2. poll.obs \subseteq Observations /\ \A t \in Threads : files[t] \in Written
    BY <1>1 DEF TypeOK, Polls
  <2>3. AllBorn'
    BY <1>1, <1>2, <1>4, <1>5, <2>2 DEF AllBorn, Born, Observations, Written
  <2>4. QED
    BY <2>1, <2>3
<1>8. DOMAIN cache.routes \subseteq Pids
  BY <1>1, PartialIs DEF Caches
<1>9. Fresh' /\ OnceRead'
  BY <1>2 DEF IInv, Fresh, OnceRead
<1>10. RoutesHold'
  BY <1>2, <1>5, <1>8 DEF IInv, RoutesHold, Running, PlaceIn
<1>11. Listing'
  BY <1>2, <1>5 DEF IInv, Listing, Undisturbed, Running, PlaceIn, Wanted
<1>12. QED
  BY <1>6, <1>7, <1>9, <1>10, <1>11 DEF IInv

LEMMA ChangePaneStep ==
    ASSUME IInv, NEW p \in Panes, NEW s \in Sessions, NEW a \in {"amp", "none"},
           ChangePane(p, [session |-> s, agent |-> a])
    PROVE  IInv'
<1>1. /\ TypeOK /\ panes \in [Panes -> PaneStates] /\ poll \in Polls /\ Kindred /\ AllBorn
  BY DEF IInv, TypeOK
<1>2. UNCHANGED <<clock, files, old, procs, rows, cache, seen>> /\ budget' \in 0..MaxEvents
  BY <1>1, MovesType DEF ChangePane
<1> DEFINE lost == poll.lost \/ (poll.pc \in {"table", "listing"} /\ ~poll.seeding)
<1>3. /\ panes' = [panes EXCEPT ![p] = [session |-> s, agent |-> a]]
      /\ poll' = [poll EXCEPT !.lost = lost]
  BY DEF ChangePane
<1>4. panes' \in [Panes -> PaneStates]
  BY <1>1, <1>3 DEF PaneStates
<1>5. lost \in BOOLEAN
  BY <1>1 DEF Polls
<1> HIDE DEF lost
<1>6. /\ poll' \in Polls /\ poll'.pc = poll.pc /\ poll'.obs = poll.obs /\ poll'.unread = poll.unread
      /\ poll'.astray = poll.astray /\ poll'.table = poll.table /\ poll'.found = poll.found
      /\ poll'.seeding = poll.seeding /\ poll'.lost = lost
  BY <1>1, <1>3, <1>5 DEF Polls
<1>7. TypeOK'
  BY <1>1, <1>2, <1>4, <1>6 DEF TypeOK
<1>8. Kindred' /\ AllBorn'
  BY <1>1, <1>2, <1>6 DEF Kindred, AllBorn, Born
<1>9. Fresh' /\ OnceRead' /\ RoutesHold'
  BY <1>2, <1>6 DEF IInv, Fresh, OnceRead, RoutesHold, Running, PlaceIn
<1>10. Listing'
  BY <1>6 DEF Listing, Undisturbed, lost
<1>11. QED
  BY <1>7, <1>8, <1>9, <1>10 DEF IInv

LEMMA PostStep ==
    ASSUME IInv, NEW s \in Sessions, NEW t \in Threads, Post(s, t)
    PROVE  /\ IInv'
           /\ \A k \in Sessions \X Threads :
                rows[k] = NoRow /\ rows'[k] # NoRow => ~rows'[k].seeded
<1>1. TypeOK /\ rows \in RowSets /\ clock \in Times
  BY DEF IInv, TypeOK, RowSets
<1>2. UNCHANGED <<clock, files, old, procs, panes, poll, cache, seen>>
  BY DEF Post, world
<1> DEFINE report == [status |-> "done", ts |-> clock, seeded |-> FALSE, pane |-> NoPane]
<1>3. report \in Rows /\ ~report.seeded
  BY <1>1 DEF Rows, Statuses
<1>4. rows' = Reported(<<s, t>>, report)
  BY DEF Post
<1> HIDE DEF report
<1>5. /\ rows' \in RowSets
      /\ \A k \in Sessions \X Threads : rows[k] = NoRow /\ rows'[k] # NoRow => ~rows'[k].seeded
  BY <1>1, <1>3, <1>4, ReportedType
<1>6. budget' \in 0..MaxEvents
  BY <1>1, WatchersAssumption DEF TypeOK, Post, WatchersAssumption
<1>7. TypeOK'
  BY <1>1, <1>2, <1>5, <1>6 DEF TypeOK, RowSets
<1>8. Kindred' /\ AllBorn' /\ Fresh' /\ OnceRead'
  BY <1>2 DEF IInv, Kindred, AllBorn, Born, Fresh, OnceRead
<1>9. RoutesHold' /\ Listing'
  BY <1>2 DEF IInv, RoutesHold, Listing, Undisturbed, Running, PlaceIn, Wanted
<1>10. QED
  BY <1>5, <1>7, <1>8, <1>9 DEF IInv

LEMMA TickStep == ASSUME IInv, Tick PROVE IInv'
<1>1. TypeOK /\ clock \in Times
  BY DEF IInv, TypeOK
<1>2. UNCHANGED <<files, old, procs, panes, rows, poll, cache, seen, budget>>
  BY DEF Tick
<1>3. clock' \in Times
  BY <1>1, WatchersAssumption DEF Tick, Times, WatchersAssumption
<1>4. TypeOK'
  BY <1>1, <1>2, <1>3 DEF TypeOK
<1>5. Kindred' /\ AllBorn' /\ Fresh' /\ OnceRead'
  BY <1>2 DEF IInv, Kindred, AllBorn, Born, Fresh, OnceRead
<1>6. RoutesHold' /\ Listing'
  BY <1>2 DEF IInv, RoutesHold, Listing, Undisturbed, Running, PlaceIn, Wanted
<1>7. QED
  BY <1>4, <1>5, <1>6 DEF IInv

-----------------------------------------------------------------------------
LEMMA InitInv == ASSUME Init PROVE IInv
<1>1. PICK w \in Worlds : files = w.files /\ old = w.old /\ procs = w.procs /\ panes = w.panes
  BY DEF Init
<1>2. Files \subseteq Written /\ {0, Oldest} \subseteq Times /\ MaxEvents \in 0..MaxEvents
  BY WatchersAssumption DEF WatchersAssumption, Files, Written, Times
<1>3. /\ files \in [Threads -> Files] /\ old \in [Threads -> Files \cup {NoFile}]
      /\ procs \in [Pids -> Panes \cup {NoPane, Unborn}] /\ panes \in [Panes -> PaneStates]
      /\ \A t \in Threads : /\ files[t].pid # NoPid => procs[files[t].pid] # Unborn
                            /\ old[t] # NoFile => /\ files[t].kind = "amp" /\ old[t].kind = "amp"
                                                  /\ old[t].pid = NoPid
  BY <1>1, WatchersAssumption DEF WatchersAssumption
<1>4. /\ poll \in Polls /\ poll.pc = "starting" /\ poll.seeding /\ poll.obs = {}
      /\ poll.astray = {} /\ DOMAIN poll.found = {} /\ \A pid \in Pids : poll.table[pid] = NoPane
  <2>1. /\ Asleep.obs = {} /\ Asleep.astray = {} /\ DOMAIN Asleep.found = {}
        /\ \A pid \in Pids : Asleep.table[pid] = NoPane
    BY NothingIsPartial DEF Asleep
  <2>2. poll = [Asleep EXCEPT !.pc = "starting", !.seeding = TRUE]
    BY DEF Init
  <2>3. QED
    BY <2>1, <2>2, AsleepIsPoll DEF Polls
<1>5. cache \in Caches /\ DOMAIN cache.routes = {}
  BY NothingIsPartial DEF Init, NoRoutes, Caches
<1>6. TypeOK
  BY <1>2, <1>3, <1>4, <1>5 DEF Init, TypeOK
<1>7. Kindred /\ AllBorn
  BY <1>3, <1>4, <1>5 DEF Kindred, AllBorn, Born
<1>8. Fresh /\ OnceRead
  BY <1>4 DEF Fresh, OnceRead
<1>9. RoutesHold /\ Listing
  BY <1>4, <1>5 DEF RoutesHold, Listing, Undisturbed
<1>10. QED
  BY <1>6, <1>7, <1>8, <1>9 DEF IInv

LEMMA StepInv == ASSUME IInv, [Next]_vars PROVE IInv'
<1>1. ASSUME NEW ok \in BOOLEAN, ApplySeeds(ok) PROVE IInv'
  <2>1. TypeOK /\ rows' \in RowSets
    BY <1>1, ApplySeedsRows DEF IInv
  <2>2. poll' = Asleep /\ UNCHANGED <<world, cache, seen>> /\ budget' \in 0..MaxEvents
    BY <1>1, <2>1, BudgetType DEF ApplySeeds
  <2>3. QED
    BY <2>1, <2>2, EndPollStep
<1>2. ASSUME EndPoll PROVE IInv'
  BY <1>2, EndPollStep DEF EndPoll, IInv, TypeOK, RowSets
<1>3. ASSUME UNCHANGED vars PROVE IInv'
  <2>1. UNCHANGED <<clock, files, old, procs, panes, rows, poll, cache, seen, budget>>
    BY <1>3 DEF vars, world
  <2>2. TypeOK' /\ Kindred' /\ AllBorn' /\ Fresh' /\ OnceRead'
    BY <2>1 DEF IInv, TypeOK, Kindred, AllBorn, Born, Fresh, OnceRead
  <2>3. RoutesHold' /\ Listing'
    BY <2>1 DEF IInv, RoutesHold, Listing, Undisturbed, Running, PlaceIn, Wanted
  <2>4. QED
    BY <2>2, <2>3 DEF IInv
<1>4. ASSUME PollStep PROVE IInv'
  BY <1>1, <1>2, <1>4, BeginScanStep, ReadFileStep, ReleaseSeedsStep, RememberRoutesStep,
     FindAstrayStep, CheckCacheStep, ReadTableStep, ListPanesStep, ApplySnapshotStep DEF PollStep
<1>5. ASSUME Next PROVE IInv'
  BY <1>4, <1>5, TickStep, WriteStep, PostStep, ExitStep, StartStep, ChangePaneStep DEF Next
<1>6. QED
  BY <1>3, <1>5

THEOREM Inductive == Spec => []IInv
BY InitInv, StepInv, PTL DEF Spec

(* The state has its type at every moment, whatever agents write and        *)
(* whichever reading fails.                                                 *)
THEOREM TypeCorrect == Spec => []TypeOK
<1>1. IInv => TypeOK
  BY DEF IInv
<1>2. QED
  BY <1>1, Inductive, PTL

(* As long as tmux looks as it did, what is remembered of a process is      *)
(* where it runs, or that it runs in no pane of its agent:                  *)
(* route_unattributed_observations may leave out ps and the listings.       *)
THEOREM RoutesStayTrue == Spec => []RoutesAreTrue
<1>1. ASSUME IInv PROVE RoutesAreTrue
  <2>1. panes # NoLayout
    BY <1>1, WatchersAssumption DEF IInv, TypeOK, WatchersAssumption
  <2>2. SUFFICES ASSUME cache.layout = Layout, cache.sure, NEW pid \in DOMAIN cache.routes,
                        Running(pid)
                 PROVE  cache.routes[pid] = PlaceNow(pid)
    BY DEF RoutesAreTrue
  <2>3. cache.routes[pid] = PlaceIn(cache.layout, procs[pid])
    BY <1>1, <2>1, <2>2 DEF IInv, RoutesHold, Layout
  <2>4. QED
    BY <2>2, <2>3 DEF Layout, PlaceIn, PlaceNow
<1>2. QED
  BY <1>1, Inductive, PTL

-----------------------------------------------------------------------------
(* A seed is as late as everything that could be its own.                   *)
LEMMA SeedsAreLatest ==
    ASSUME IInv, NEW ok \in BOOLEAN, NEW x \in Seeds(poll.obs, ok), NEW o \in poll.obs,
           MayBeOf(o, [kind |-> x.kind, session |-> x.place.session, pane |-> x.place.pane])
    PROVE  o.mtime <= x.ts
<1>1. poll \in Polls /\ poll.obs \subseteq Observations /\ poll.found \in Partial(Places)
  BY DEF IInv, TypeOK, Polls
<1> DEFINE placed == {q \in poll.obs : Placed(q)}
<1>2. PICK seed \in poll.obs :
        /\ Placed(seed) /\ x.thread = seed.thread /\ x.kind = seed.kind
        /\ x.place = PlaceOf(seed, ok)
        /\ x.ts = Latest({p.mtime : p \in Near(seed, placed, ok)})
  BY <1>1, SeedsType
<1>3. x.place \in [session : Sessions, pane : Panes \cup {NoPane}]
  BY <1>1, SeedsType DEF SeedTypes
<1>4. o.kind = seed.kind /\ Placed(o)
  BY <1>2 DEF MayBeOf, Placed
<1>5. o \in Near(seed, placed, ok)
  <2>1. CASE o.pid # NoPid
    <3>1. PlaceOf(o, ok) = poll.found[o.pid] /\ PlaceOf(o, ok) \in Places
      BY <1>1, <1>4, <2>1, PlaceOfType
    <3>2. /\ PlaceOf(o, ok).session = x.place.session
          /\ x.place.pane # NoPane => PlaceOf(o, ok).pane = x.place.pane
      BY <2>1, <3>1 DEF MayBeOf
    <3>3. x.place.pane # NoPane => PlaceOf(o, ok) = x.place
      BY <1>3, <3>1, <3>2 DEF Places
    <3>4. QED
      BY <1>2, <1>4, <3>2, <3>3 DEF Near, At
  <2>2. CASE o.pid = NoPid
    <3>1. x.place.pane = NoPane /\ SessionOfDir(o.dir) \in {x.place.session, NoSession}
      BY <2>2 DEF MayBeOf
    <3>2. PlaceOf(o, ok) = [session |-> IF ok THEN SessionOfDir(o.dir) ELSE NoSession,
                            pane |-> NoPane]
      BY <2>2 DEF PlaceOf
    <3>3. PlaceOf(o, ok) = Anywhere \/ PlaceOf(o, ok).session = x.place.session
      BY <3>1, <3>2 DEF Anywhere
    <3>4. QED
      BY <1>2, <1>4, <3>1, <3>3 DEF Near, At
  <2>3. QED
    BY <2>1, <2>2
<1> DEFINE times == {p.mtime : p \in Near(seed, placed, ok)}
<1>6. \A p \in Near(seed, placed, ok) : p \in Observations
  BY <1>1 DEF Near, At
<1>7. times \in SUBSET Times /\ o.mtime \in times
  BY <1>5, <1>6 DEF Observations
<1> HIDE DEF times
<1>8. o.mtime <= Latest(times)
  BY <1>7, LatestIsLatest
<1>9. QED
  BY <1>2, <1>8 DEF times

(* The seeding never dates an agent's rest before an activity that could be *)
(* that agent's (seed_agent_watcher_observations), and nothing else makes a *)
(* seed.                                                                    *)
NotOlder ==
    \A s \in Sessions, t \in Threads :
        rows[<<s, t>>] = NoRow /\ rows'[<<s, t>>] # NoRow /\ rows'[<<s, t>>].seeded =>
            \A o \in poll.obs :
                MayBeOf(o, [kind |-> files[t].kind, session |-> s, pane |-> rows'[<<s, t>>].pane])
                    => o.mtime <= rows'[<<s, t>>].ts

LEMMA SeedStep == ASSUME IInv, Next PROVE NotOlder \/ UNCHANGED vars
<1>1. ASSUME NEW ok \in BOOLEAN, ApplySeeds(ok) PROVE NotOlder
  <2>1. SUFFICES ASSUME NEW s \in Sessions, NEW t \in Threads, rows[<<s, t>>] = NoRow,
                        rows'[<<s, t>>] # NoRow, NEW o \in poll.obs,
                        MayBeOf(o, [kind |-> files[t].kind, session |-> s,
                                    pane |-> rows'[<<s, t>>].pane])
                 PROVE  o.mtime <= rows'[<<s, t>>].ts
    BY DEF NotOlder
  <2>2. PICK x \in Seeds(poll.obs, ok) : /\ <<x.place.session, x.thread>> = <<s, t>>
                                         /\ rows'[<<s, t>>] = SeedRow(x)
    <3>1. <<s, t>> \in Sessions \X Threads
      OBVIOUS
    <3>2. QED
      BY <1>1, <2>1, <3>1, ApplySeedsRows
  <2>3. x.place.session = s /\ x.thread = t /\ rows'[<<s, t>>].pane = x.place.pane
        /\ rows'[<<s, t>>].ts = x.ts
    BY <2>2 DEF SeedRow
  <2>4. x.kind = files[t].kind
    <3>1. poll \in Polls /\ Kindred
      BY DEF IInv, TypeOK
    <3>2. PICK seed \in poll.obs : x.thread = seed.thread /\ x.kind = seed.kind
      BY <3>1, SeedsType
    <3>3. QED
      BY <2>3, <3>1, <3>2 DEF Kindred
  <2>5. QED
    BY <2>1, <2>3, <2>4, SeedsAreLatest
<1>2. ASSUME NEW ok \in BOOLEAN, ApplySnapshot(ok) PROVE NotOlder
  BY <1>2, ApplySnapshotStep DEF NotOlder
<1>3. ASSUME NEW s \in Sessions, NEW t \in Threads, Post(s, t) PROVE NotOlder
  BY <1>3, PostStep DEF NotOlder
<1>4. ASSUME ReleaseSeeds PROVE NotOlder
  BY <1>4 DEF ReleaseSeeds, NotOlder
<1>5. ASSUME UNCHANGED rows PROVE NotOlder
  BY <1>5 DEF NotOlder
<1>6. ASSUME PollStep PROVE NotOlder
  <2>1. CASE \E ok \in BOOLEAN : ApplySeeds(ok) \/ ApplySnapshot(ok)
    BY <1>1, <1>2, <2>1
  <2>2. CASE ReleaseSeeds
    BY <1>4, <2>2
  <2>3. CASE ~ReleaseSeeds /\ ~\E ok \in BOOLEAN : ApplySeeds(ok) \/ ApplySnapshot(ok)
    <3>1. UNCHANGED rows
      BY <1>6, <2>3 DEF PollStep, BeginScan, ReadFile, RememberRoutes, EndPoll, FindAstray,
         CheckCache, ReadTable, ListPanes
    <3>2. QED
      BY <1>5, <3>1
  <2>4. QED
    BY <2>1, <2>2, <2>3
<1>7. CASE Tick \/ \E t \in Threads : \E e \in Entries, dir \in {w.files[t].dir : w \in Worlds} :
                      Write(t, e, dir)
  BY <1>5, <1>7 DEF Tick, Write, Moves
<1>8. CASE \E pid \in Pids : Exit(pid) \/ \E p \in Panes : Start(pid, p)
  BY <1>5, <1>8 DEF Exit, Start, Moves
<1>9. CASE \E p \in Panes, s \in Sessions, a \in {"amp", "none"} :
              ChangePane(p, [session |-> s, agent |-> a])
  BY <1>5, <1>9 DEF ChangePane, Moves
<1>10. QED
  BY <1>3, <1>6, <1>7, <1>8, <1>9 DEF Next

THEOREM SeedsAreCurrent == Spec => SeedsAreNotOlder
<1>1. IInv /\ [Next]_vars => [NotOlder]_vars
  BY SeedStep
<1>2. QED
  BY <1>1, Inductive, PTL DEF Spec, SeedsAreNotOlder, NotOlder
=============================================================================
