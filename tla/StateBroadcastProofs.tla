------------------------ MODULE StateBroadcastProofs ------------------------
(***************************************************************************)
(* What holds of StateBroadcast for every set of clients, every capacity   *)
(* of the channel and every limit: its type invariant, that no change is   *)
(* left unpublished, that a shutdown reaches whoever was connected, that   *)
(* passive clients do not crowd out sidebars, and that a client with       *)
(* nothing left to read shows the last snapshot that was sent.  At the end *)
(* what holds of the limits themselves, whatever the descriptor limit and  *)
(* the setting.                                                            *)
(***************************************************************************)
EXTENDS StateBroadcast, ConnectionLimits, SequenceTheorems, FiniteSetTheorems, Integers, TLAPS

Messages == States \cup {Activate, Quit}

(* A task that holds a snapshot is where it sends one.                      *)
BuildersInPlace ==
    /\ built["refresher"] # None => refresher = "built"
    /\ startup \in {"built", "stored"} => built["startup"] # None

(* No snapshot shows what has not happened yet.                             *)
NoneFromTheFuture ==
    /\ newest <= world
    /\ lastState # None => lastState.shows <= world
    /\ \A t \in Tasks : built[t] # None => built[t].shows <= world

(* Of a change nobody was told of somebody still knows: a request that      *)
(* waits, the refresher before it builds, a loop that has noticed, or who   *)
(* holds a snapshot that shows it.  (Or the refresher's snapshot failed.)   *)
SomebodyKnows ==
    \/ announced \/ newest = world \/ dropped = world
    \/ due \/ requested \/ refresher \in {"settling", "building"}
    \/ \E t \in Tasks : built[t] = State(world)

(* Whoever was connected when a shutdown was sent has it in its queue for   *)
(* as long as it listens, and does not come back.                           *)
WarnedWillHear ==
    \A c \in warned : /\ stage[c] \in Upgraded \cup {"ended"}
                      /\ Listening(c) => c \in signalled

PassivesBounded == Cardinality(Admitted \ Sidebars) <= PassiveLimit

IInv == TypeOK /\ BuildersInPlace /\ NoneFromTheFuture /\ SomebodyKnows
              /\ WarnedWillHear /\ PassivesBounded

------------------------------------------------------------------------------
(* The channel.                                                             *)

LEMMA StateIsState ==
    ASSUME BroadcastAssumption, NEW n \in Nat
    PROVE  State(n) \in States /\ State(n) \in Snapshots /\ State(n).shows = n /\ State(n) # None
BY DEF State, States, Snapshots, BroadcastAssumption

LEMMA SnapshotShows ==
    ASSUME NEW s \in Snapshots, s # None PROVE s \in States /\ s.shows \in Nat
BY DEF Snapshots, States

LEMMA NewestType ==
    ASSUME BroadcastAssumption, NEW S, NEW messages \in Seq(S) PROVE Newest(messages) \in Seq(S)
<1>1. Capacity \in Nat /\ Len(messages) \in Nat
  BY DEF BroadcastAssumption
<1>2. CASE Len(messages) <= Capacity
  BY <1>2 DEF Newest
<1>3. CASE ~(Len(messages) <= Capacity)
  <2>1. Len(messages) - Capacity + 1 \in 1..Len(messages) + 1
    BY <1>1, <1>3, BroadcastAssumption DEF BroadcastAssumption
  <2>2. SubSeq(messages, Len(messages) - Capacity + 1, Len(messages)) \in Seq(S)
    BY <1>1, <2>1, SubSeqProperties
  <2>3. QED
    BY <1>3, <2>2 DEF Newest
<1>4. QED
  BY <1>2, <1>3

LEMMA SendType ==
    ASSUME BroadcastAssumption, TypeOK, NEW messages \in Seq(Messages), Send(messages)
    PROVE  inbox' \in [Receivers -> Seq(Messages)] /\ lagged' \subseteq Receivers
<1>1. inbox \in [Receivers -> Seq(Messages)] /\ lagged \subseteq Receivers
  BY DEF TypeOK, Messages
<1>2. ASSUME NEW r \in Receivers PROVE inbox[r] \o messages \in Seq(Messages)
  BY <1>1
<1>3. ASSUME NEW r \in Receivers PROVE Newest(inbox[r] \o messages) \in Seq(Messages)
  BY <1>2, NewestType
<1>4. QED
  BY <1>1, <1>3 DEF Send

LEMMA ReadsType ==
    ASSUME TypeOK, NEW r \in Receivers, NEW type, Reads(r, type)
    PROVE  inbox' \in [Receivers -> Seq(Messages)] /\ lagged' = lagged /\ Head(inbox[r]) \in Messages
<1>1. inbox \in [Receivers -> Seq(Messages)]
  BY DEF TypeOK, Messages
<1>2. inbox[r] \in Seq(Messages) /\ inbox[r] # <<>>
  BY <1>1 DEF Reads
<1>3. Head(inbox[r]) \in Messages /\ Tail(inbox[r]) \in Seq(Messages)
  BY <1>2, HeadTailProperties
<1>4. QED
  BY <1>1, <1>3 DEF Reads

LEMMA ReadState ==
    ASSUME TypeOK, NEW r \in Receivers, Reads(r, "state")
    PROVE  Head(inbox[r]) \in Snapshots
<1>1. Head(inbox[r]) \in Messages /\ Head(inbox[r]).type = "state"
  BY ReadsType DEF Reads
<1>2. QED
  BY <1>1 DEF Messages, Snapshots, Activate, Quit

------------------------------------------------------------------------------
(* Types.                                                                   *)

LEMMA TypeOKInit == ASSUME BroadcastAssumption, Init PROVE TypeOK
<1>1. \A r \in Receivers : inbox[r] \in Seq(Messages)
  BY DEF Init
<1>2. inbox \in [Receivers -> Seq(Messages)]
  BY <1>1 DEF Init
<1>3. QED
  BY <1>2 DEF Init, TypeOK, Messages, Snapshots, Stages, Tasks

LEMMA TypeOKCache == ASSUME TypeOK, CacheStep PROVE TypeOK'
<1> USE DEF stopping, clients, building, history
<1>1. "cache" \in Receivers
  BY DEF Receivers
<1>2. CASE CacheLags
  BY <1>2 DEF TypeOK, CacheStep, CacheLags, Hears
<1>3. CASE CacheStores
  <2>1. inbox' \in [Receivers -> Seq(Messages)] /\ lagged' = lagged /\ Head(inbox["cache"]) \in Snapshots
    BY <1>1, <1>3, ReadsType, ReadState DEF CacheStores
  <2>2. QED
    BY <1>3, <2>1 DEF TypeOK, CacheStep, CacheStores, Messages
<1>4. CASE CacheSkips
  <2>1. inbox' \in [Receivers -> Seq(Messages)] /\ lagged' = lagged
    BY <1>1, <1>4, ReadsType DEF CacheSkips
  <2>2. QED
    BY <1>4, <2>1 DEF TypeOK, CacheStep, CacheSkips, Messages
<1>5. QED
  BY <1>2, <1>3, <1>4 DEF CacheStep

(* A step that sends one snapshot.                                          *)
LEMMA SendStateType ==
    ASSUME BroadcastAssumption, TypeOK, NEW s \in States, SendState(s.shows)
    PROVE  /\ inbox' \in [Receivers -> Seq(Messages)] /\ lagged' \subseteq Receivers
           /\ sent' \in Snapshots /\ newest' \in Nat /\ s.shows \in Nat
           /\ newest' = IF s.shows > newest THEN s.shows ELSE newest
           /\ late' = {} /\ warned' = warned /\ after' = 0 /\ dropped' = dropped
<1>1. s.shows \in Nat
  BY DEF States
<1>2. <<State(s.shows)>> \in Seq(Messages) /\ State(s.shows) \in Snapshots
  BY <1>1, StateIsState DEF Messages
<1>3. inbox' \in [Receivers -> Seq(Messages)] /\ lagged' \subseteq Receivers
  BY <1>2, SendType DEF SendState
<1>4. QED
  BY <1>1, <1>2, <1>3 DEF SendState, TypeOK

LEMMA TypeOKStartup ==
    ASSUME BroadcastAssumption, TypeOK, BuildersInPlace, StartupStep PROVE TypeOK'
<1> USE DEF stopping, clients, channel, history
<1>1. CASE HooksInstalled
  BY <1>1 DEF TypeOK, HooksInstalled
<1>2. CASE StartupBuilds
  BY <1>2, StateIsState DEF TypeOK, StartupBuilds, Builds
<1>3. CASE StartupFails
  BY <1>3 DEF TypeOK, StartupFails
<1>4. CASE StartupStores
  BY <1>4 DEF TypeOK, StartupStores, Snapshots, Tasks
<1>5. CASE StartupSends
  <2>1. built["startup"] \in States
    BY <1>5, SnapshotShows DEF StartupSends, BuildersInPlace, TypeOK, Tasks
  <2>2. /\ inbox' \in [Receivers -> Seq(Messages)] /\ lagged' \subseteq Receivers
        /\ sent' \in Snapshots /\ newest' \in Nat /\ late' = {} /\ warned' = warned
        /\ after' = 0 /\ dropped' = dropped
    BY <1>5, <2>1, SendStateType DEF StartupSends
  <2>3. QED
    BY <1>5, <2>2 DEF TypeOK, StartupSends, Messages, Snapshots
<1>6. QED
  BY <1>1, <1>2, <1>3, <1>4, <1>5 DEF StartupStep

LEMMA TypeOKTasks ==
    ASSUME BroadcastAssumption, TypeOK,
           RefresherStep \/ AgentReports \/ Happens \/ LoopBuilds \/ Operate \/ SwitchEnds
           \/ Switches \/ Ensures
    PROVE  TypeOK'
<1> USE DEF stopping, clients, channel, history, building
<1>1. CASE RefresherStep
  <2>1. State(world) \in Snapshots
    BY StateIsState DEF TypeOK
  <2>2. /\ UNCHANGED <<world, due, channel, latest, clients, stopping, sent, newest, late, warned,
                       after>>
        /\ dropped' \in {dropped, world}
    BY <1>1 DEF RefresherStep, RefresherFails
  <2>3. /\ built' \in [Tasks -> Snapshots] /\ lastState' \in Snapshots
        /\ refresher' \in {"waiting", "settling", "building", "built", "stopped"}
        /\ requested' \in BOOLEAN /\ startup' = startup /\ switching' = switching
    <3>1. CASE RefresherBuilds
      BY <2>1, <3>1 DEF TypeOK, RefresherBuilds, Builds
    <3>2. CASE RefresherStops \/ RefresherReceives \/ RefresherDrains \/ RefresherFails
      BY <3>2 DEF TypeOK, RefresherStops, RefresherReceives, RefresherDrains, RefresherFails
    <3>3. QED
      BY <1>1, <3>1, <3>2 DEF RefresherStep
  <2>4. QED
    BY <2>2, <2>3 DEF TypeOK
<1>2. CASE AgentReports
  BY <1>2 DEF TypeOK, AgentReports
<1>3. CASE Happens
  BY <1>3 DEF TypeOK, Happens
<1>4. CASE LoopBuilds
  BY <1>4, StateIsState DEF TypeOK, LoopBuilds, Builds
<1>5. CASE Operate
  <2>1. world + 1 \in Nat
    BY DEF TypeOK
  <2>2. State(world + 1) \in Snapshots
    BY <2>1, StateIsState
  <2>3. QED
    BY <1>5, <2>1, <2>2 DEF TypeOK, Operate, Builds
<1>6. CASE SwitchEnds
  <2>1. /\ world' = world + 1 /\ requested' = TRUE /\ switching' = FALSE
        /\ UNCHANGED <<due, built, lastState, startup, refresher, channel, latest, clients,
                       stopping, history>>
    BY <1>6, Zenon DEF SwitchEnds
  <2>2. world' \in Nat
    BY <2>1 DEF TypeOK
  <2>3. requested' \in BOOLEAN /\ switching' \in BOOLEAN
    BY <2>1, Zenon
  <2>4. /\ due' = due /\ built' = built /\ lastState' = lastState /\ startup' = startup
        /\ refresher' = refresher
        /\ inbox' = inbox /\ lagged' = lagged /\ latest' = latest /\ stage' = stage
        /\ pending' = pending /\ shown' = shown /\ signalled' = signalled
        /\ announced' = announced /\ listener' = listener /\ sent' = sent
        /\ newest' = newest /\ late' = late /\ warned' = warned
        /\ after' = after /\ dropped' = dropped
    BY <2>1
  <2>5. QED
    BY <2>2, <2>3, <2>4 DEF TypeOK
<1>7. CASE Switches \/ Ensures
  <2>1. <<Activate>> \in Seq(Messages)
    BY DEF Messages
  <2>2. SendActivate
    BY <1>7 DEF Switches, Ensures
  <2>3. /\ inbox' \in [Receivers -> Seq(Messages)] /\ lagged' \subseteq Receivers
        /\ UNCHANGED <<sent, newest, late, warned, dropped>>
    BY <2>1, <2>2, SendType DEF SendActivate
  <2>7. after' \in Nat
    BY <2>2 DEF SendActivate, TypeOK
  <2>4. world' \in Nat /\ due' \in BOOLEAN /\ switching' \in BOOLEAN
    <3>1. CASE Switches
      BY <3>1 DEF Switches, TypeOK
    <3>2. CASE Ensures
      <4>1. switching' = switching
        BY <3>2 DEF Ensures
      <4>2. (world' = world /\ due' = due) \/ (world' = world + 1 /\ due' = TRUE)
        BY <3>2 DEF Ensures
      <4>3. world \in Nat /\ world + 1 \in Nat /\ due \in BOOLEAN /\ switching \in BOOLEAN
        BY DEF TypeOK
      <4>4. QED
        BY <4>1, <4>2, <4>3, Zenon
    <3>3. QED
      BY <1>7, <3>1, <3>2
  <2>5. UNCHANGED <<built, lastState, startup, refresher, requested, latest, clients, stopping>>
    BY <1>7 DEF Switches, Ensures
  <2>6. QED
    BY <2>3, <2>4, <2>5, <2>7 DEF TypeOK, Messages
<1>8. QED
  BY <1>1, <1>2, <1>3, <1>4, <1>5, <1>6, <1>7

LEMMA TypeOKPublish ==
    ASSUME BroadcastAssumption, TypeOK, NEW t \in Tasks, Publish(t) PROVE TypeOK'
<1>1. built[t] \in States
  BY SnapshotShows DEF TypeOK, Publish
<1>2. /\ inbox' \in [Receivers -> Seq(Messages)] /\ lagged' \subseteq Receivers
      /\ sent' \in Snapshots /\ newest' \in Nat /\ late' = {} /\ warned' = warned
      /\ after' = 0 /\ dropped' = dropped
  BY <1>1, SendStateType DEF Publish
<1>3. QED
  BY <1>2 DEF TypeOK, Publish, Requests, Messages, Snapshots, clients, stopping

LEMMA TypeOKConnects ==
    ASSUME TypeOK, NEW c \in Clients, Connects(c) PROVE TypeOK'
<1> USE DEF building, stopping, history, channel
<1>1. CASE Accept(c) \/ TurnedAway(c)
  BY <1>1 DEF TypeOK, Connects, Accept, TurnedAway, Moves, Stages
<1>2. CASE Upgrade(c) \/ Subscribes(c) \/ WriteFails(c)
  BY <1>2 DEF TypeOK, Connects, Upgrade, Subscribes, WriteFails, Moves, Stages, Upgraded
<1>3. CASE ReadsCache(c)
  <2>1. late' \subseteq Clients
    BY <1>3 DEF TypeOK, ReadsCache
  <2>2. stage' \in [Clients -> Stages] /\ shown' \in [Clients -> Snapshots]
    BY <1>3 DEF TypeOK, ReadsCache, Moves, Stages, Upgraded
  <2>3. QED
    BY <1>3, <2>1, <2>2 DEF TypeOK, Connects, ReadsCache
<1>4. QED
  BY <1>1, <1>2, <1>3 DEF Connects

LEMMA EndsType ==
    ASSUME TypeOK, NEW c \in Clients, Ends(c)
    PROVE  /\ stage' \in [Clients -> Stages]
           /\ inbox' \in [Receivers -> Seq(Messages)] /\ lagged' \subseteq Receivers
           /\ pending' \in [Clients -> Snapshots] /\ shown' \in [Clients -> Snapshots]
<1>1. <<>> \in Seq(Messages) /\ None \in Snapshots
  BY DEF Snapshots
<1>2. QED
  BY <1>1 DEF TypeOK, Ends, Stages, Messages

LEMMA TypeOKLoops ==
    ASSUME TypeOK, NEW c \in Clients, LoopsOnce(c) \/ Told(c) PROVE TypeOK'
<1> USE DEF building, stopping, history
<1>1. c \in Receivers
  BY DEF Receivers
<1>2. CASE Ends(c) /\ LoopsOnce(c)
  BY <1>2, EndsType DEF TypeOK, LoopsOnce, Messages
<1>3. CASE Told(c)
  <2>1. Ends(c) /\ signalled' \subseteq signalled
    BY <1>3 DEF Told, HearsShutdown
  <2>2. QED
    BY <1>3, <2>1, EndsType DEF TypeOK, Told, Messages
<1>4. CASE LoopsOnce(c) /\ ClientLags(c)
  BY <1>4 DEF TypeOK, LoopsOnce, ClientLags, Hears
<1>5. CASE LoopsOnce(c) /\ Forwards(c)
  <2>1. inbox' \in [Receivers -> Seq(Messages)] /\ lagged' = lagged
    BY <1>1, <1>5, ReadsType DEF Forwards
  <2>2. QED
    BY <1>5, <2>1 DEF TypeOK, LoopsOnce, Forwards, Messages
<1>6. CASE LoopsOnce(c) /\ (BeginsWith(c) \/ HoldsBack(c))
  <2>1. Reads(c, "state")
    BY <1>6 DEF BeginsWith, HoldsBack
  <2>2. /\ inbox' \in [Receivers -> Seq(Messages)] /\ lagged' = lagged
        /\ Head(inbox[c]) \in Snapshots
    BY <1>1, <2>1, ReadsType, ReadState
  <2>3. /\ stage' \in [Clients -> Stages]
        /\ pending' \in [Clients -> Snapshots] /\ shown' \in [Clients -> Snapshots]
    BY <1>6, <2>2 DEF TypeOK, BeginsWith, HoldsBack, Moves, Stages, Upgraded
  <2>4. QED
    BY <1>6, <2>2, <2>3 DEF TypeOK, LoopsOnce, Messages
<1>7. CASE LoopsOnce(c) /\ Flushes(c)
  BY <1>7 DEF TypeOK, LoopsOnce, Flushes, channel, Snapshots
<1>8. QED
  BY <1>2, <1>3, <1>4, <1>5, <1>6, <1>7 DEF LoopsOnce, HearsQuit, Leaves

LEMMA SendShutdownType ==
    ASSUME TypeOK, SendShutdown
    PROVE  signalled' \subseteq Receivers \cup {"refresher", "listener"} /\ warned' \subseteq Clients
BY DEF TypeOK, SendShutdown, Receivers

LEMMA AnnounceType ==
    ASSUME BroadcastAssumption, TypeOK, Announce
    PROVE  /\ inbox' \in [Receivers -> Seq(Messages)] /\ lagged' \subseteq Receivers
           /\ sent' \in Snapshots /\ newest' \in Nat /\ late' \subseteq Clients
           /\ announced'
           /\ newest' \in {newest, lastState.shows} /\ (newest' # newest => lastState # None)
<1>1. CASE announced
  BY <1>1 DEF TypeOK, Announce, Messages, channel
<1>2. CASE ~announced /\ lastState = None
  <2>1. <<Quit>> \in Seq(Messages)
    BY DEF Messages
  <2>2. inbox' \in [Receivers -> Seq(Messages)] /\ lagged' \subseteq Receivers
    BY <1>2, <2>1, SendType DEF Announce
  <2>3. QED
    BY <1>2, <2>2 DEF Announce, TypeOK
<1>3. CASE ~announced /\ lastState # None
  <2>1. lastState \in States /\ lastState \in Snapshots /\ lastState.shows \in Nat
    BY <1>3, SnapshotShows DEF TypeOK
  <2>2. <<lastState, Quit>> \in Seq(Messages)
    BY <2>1 DEF Messages
  <2>3. inbox' \in [Receivers -> Seq(Messages)] /\ lagged' \subseteq Receivers
    BY <1>3, <2>2, SendType DEF Announce
  <2>4. QED
    BY <1>3, <2>1, <2>3 DEF Announce, TypeOK
<1>4. QED
  BY <1>1, <1>2, <1>3

LEMMA TypeOKStopping ==
    ASSUME BroadcastAssumption, TypeOK, RequestShutdown \/ Signal \/ ListenerHears \/ DrainEnds
    PROVE  TypeOK'
<1> USE DEF building, clients
<1>1. CASE RequestShutdown
  <2>1. announced' \in BOOLEAN
    BY <1>1 DEF RequestShutdown, Announce, TypeOK
  <2>2. QED
    BY <1>1, <2>1, SendShutdownType, AnnounceType DEF TypeOK, RequestShutdown, Messages
<1>2. CASE Signal
  BY <1>2, SendShutdownType DEF TypeOK, Signal, channel
<1>3. CASE ListenerHears
  <2>1. announced' \in BOOLEAN
    BY <1>3 DEF ListenerHears, Announce, TypeOK
  <2>2. QED
    BY <1>3, <2>1, AnnounceType DEF TypeOK, ListenerHears, Messages
<1>4. CASE DrainEnds
  BY <1>4 DEF TypeOK, DrainEnds, channel, history
<1>5. QED
  BY <1>1, <1>2, <1>3, <1>4

LEMMA TypeOKNext ==
    ASSUME BroadcastAssumption, TypeOK, BuildersInPlace, [Next]_vars PROVE TypeOK'
<1>1. CASE UNCHANGED vars
  BY <1>1 DEF TypeOK, vars, building, channel, clients, stopping, history
<1>2. CASE Next
  BY <1>2, TypeOKCache, TypeOKStartup, TypeOKTasks, TypeOKPublish, TypeOKConnects,
     TypeOKLoops, TypeOKStopping DEF Next
<1>3. QED
  BY <1>1, <1>2

------------------------------------------------------------------------------
(* Nothing that changed is lost.                                            *)

Known == BuildersInPlace /\ NoneFromTheFuture /\ SomebodyKnows

LEMMA KnownInit == ASSUME BroadcastAssumption, Init PROVE Known
BY DEF Init, Known, BuildersInPlace, NoneFromTheFuture, SomebodyKnows, Tasks

(* Steps of clients, of the cache and of the shutdown leave the builders    *)
(* alone; the announcement shows everything.                                *)
LEMMA KnownElsewhere ==
    ASSUME TypeOK, Known, UNCHANGED <<world, due, building>>,
           \/ newest' = newest /\ announced' = announced /\ dropped' = dropped
           \/ /\ announced' /\ newest' \in {newest, lastState.shows}
              /\ newest' # newest => lastState # None
    PROVE  Known'
BY DEF TypeOK, Known, building, BuildersInPlace, NoneFromTheFuture, SomebodyKnows, Tasks

(* A task publishes what it holds.                                          *)
LEMMA KnownSent ==
    ASSUME BroadcastAssumption, TypeOK, Known, NEW t \in Tasks, built[t] # None,
           SendState(built[t].shows), built' = [built EXCEPT ![t] = None],
           UNCHANGED <<world, due, lastState, announced>>,
           requested' = requested,
           refresher' = IF t = "refresher" THEN "waiting" ELSE refresher,
           (startup' = startup \/ (t = "startup" /\ startup' = "running")),
           t = "startup" => startup' = "running"
    PROVE  Known'
<1>1. built[t] \in States
  BY SnapshotShows DEF TypeOK
<1>2. /\ built[t].shows \in Nat /\ newest \in Nat /\ world \in Nat
      /\ newest' = IF built[t].shows > newest THEN built[t].shows ELSE newest
  BY <1>1, SendStateType DEF TypeOK
<1>3. /\ built' \in [Tasks -> Snapshots] /\ built'[t] = None
      /\ \A u \in Tasks \ {t} : built'[u] = built[u]
  BY DEF TypeOK, Snapshots
<1>4. BuildersInPlace'
  BY <1>3 DEF Known, BuildersInPlace, Tasks
<1>5. NoneFromTheFuture'
  BY <1>2, <1>3 DEF Known, NoneFromTheFuture
<1>6. SomebodyKnows'
  <2>1. CASE built[t] = State(world)
    <3>1. built[t].shows = world
      BY <2>1, <1>2, StateIsState
    <3>2. newest' = world
      BY <3>1, <1>2 DEF Known, NoneFromTheFuture
    <3>3. QED
      BY <3>2 DEF SomebodyKnows
  <2>2. CASE newest = world \/ dropped = world
    BY <2>2, <1>2 DEF Known, NoneFromTheFuture, SomebodyKnows, SendState
  <2>3. CASE built[t] # State(world) /\ newest # world /\ dropped # world
    <3>1. t = "refresher" => refresher = "built"
      BY DEF Known, BuildersInPlace
    <3>2. CASE \E u \in Tasks : built[u] = State(world)
      <4>1. PICK u \in Tasks : built[u] = State(world)
        BY <3>2
      <4>2. built'[u] = State(world)'
        BY <4>1, <1>3, <2>3 DEF State
      <4>3. QED
        BY <4>2 DEF SomebodyKnows
    <3>3. QED
      BY <2>3, <3>1, <3>2 DEF Known, SomebodyKnows
  <2>4. QED
    BY <2>1, <2>2, <2>3
<1>7. QED
  BY <1>4, <1>5, <1>6 DEF Known

LEMMA KnownPublish ==
    ASSUME BroadcastAssumption, TypeOK, Known, NEW t \in Tasks, Publish(t) PROVE Known'
<1>1. /\ t # "startup" /\ built[t] # None
      /\ SendState(built[t].shows) /\ built' = [built EXCEPT ![t] = None]
      /\ refresher' = IF t = "refresher" THEN "waiting" ELSE refresher
      /\ requested' = requested
      /\ UNCHANGED <<world, due, lastState, startup, stopping>>
  BY Zenon DEF Publish, Requests
<1>2. world' = world /\ due' = due /\ lastState' = lastState /\ startup' = startup /\ t # "startup"
  BY <1>1
<1>3. announced' = announced
  BY <1>1 DEF stopping
<1>4. UNCHANGED <<world, due, lastState, announced>>
  BY <1>2, <1>3
<1>5. /\ (startup' = startup \/ (t = "startup" /\ startup' = "running"))
      /\ t = "startup" => startup' = "running"
  BY <1>2
<1>6. QED
  BY <1>1, <1>4, <1>5, KnownSent, Zenon

LEMMA KnownStartup ==
    ASSUME BroadcastAssumption, TypeOK, Known, StartupStep PROVE Known'
<1> USE DEF Known, BuildersInPlace, NoneFromTheFuture, SomebodyKnows
<1> USE DEF stopping, history
<1>1. CASE HooksInstalled
  BY <1>1 DEF HooksInstalled, State
<1>2. CASE StartupBuilds
  <2>1. State(world) # None /\ State(world).shows = world /\ world \in Nat
    BY StateIsState DEF TypeOK
  <2>2. built'["startup"] = State(world) /\ \A u \in Tasks \ {"startup"} : built'[u] = built[u]
    BY <1>2 DEF StartupBuilds, Builds, TypeOK, Tasks
  <2>3. QED
    BY <1>2, <2>1, <2>2 DEF StartupBuilds, Builds, State, Tasks
<1>3. CASE StartupFails
  BY <1>3 DEF StartupFails, State
<1>4. CASE StartupStores
  <2>1. CASE announced
    <3>1. built'["startup"] = None /\ \A u \in Tasks \ {"startup"} : built'[u] = built[u]
      BY <1>4, <2>1 DEF StartupStores, TypeOK, Tasks
    <3>2. QED
      BY <1>4, <2>1, <3>1 DEF StartupStores, Tasks
  <2>2. CASE ~announced
    BY <1>4, <2>2 DEF StartupStores, State
  <2>3. QED
    BY <2>1, <2>2
<1>5. CASE StartupSends
  <2>1. "startup" \in Tasks /\ built["startup"] # None
    BY <1>5 DEF StartupSends, Tasks
  <2>2. QED
    BY <1>5, <2>1, KnownSent DEF StartupSends
<1>6. QED
  BY <1>1, <1>2, <1>3, <1>4, <1>5 DEF StartupStep

LEMMA KnownTasks ==
    ASSUME BroadcastAssumption, TypeOK, Known,
           RefresherStep \/ AgentReports \/ Happens \/ LoopBuilds \/ Operate \/ SwitchEnds
           \/ Switches \/ Ensures
    PROVE  Known'
<1> USE DEF Known, BuildersInPlace, NoneFromTheFuture, SomebodyKnows
<1> USE DEF stopping, history, building
<1>1. /\ State(world) # None /\ State(world).shows = world /\ world \in Nat /\ newest \in Nat
      /\ State(world + 1) # None /\ State(world + 1).shows = world + 1
  <2>1. world \in Nat /\ world + 1 \in Nat /\ newest \in Nat
    BY DEF TypeOK
  <2>2. QED
    BY <2>1, StateIsState
<1>2. /\ \A t \in Tasks : built[t] # None => built[t].shows \in Nat
      /\ lastState # None => lastState.shows \in Nat
  BY SnapshotShows DEF TypeOK
<1>3. CASE RefresherStep
  <2>5. /\ UNCHANGED <<world, due, announced, newest>>
        /\ dropped' = dropped \/ dropped' = world
    BY <1>3 DEF RefresherStep, RefresherFails
  <2>1. CASE RefresherStops \/ RefresherReceives \/ RefresherDrains
    <3>1. UNCHANGED <<built, lastState, startup>> /\ refresher # "built" /\ refresher' # "built"
      BY <2>1 DEF RefresherStops, RefresherReceives, RefresherDrains
    <3>2. /\ requested => requested' \/ refresher' \in {"settling", "building"}
          /\ refresher \in {"settling", "building"} => refresher' \in {"settling", "building"}
      BY <2>1 DEF RefresherStops, RefresherReceives, RefresherDrains
    <3>3. QED
      BY <2>5, <3>1, <3>2 DEF State
  <2>4. CASE RefresherFails
    BY <2>4, <2>5 DEF RefresherFails, State
  <2>2. CASE RefresherBuilds
    <3>1. built'["refresher"] = State(world) /\ \A u \in Tasks \ {"refresher"} : built'[u] = built[u]
      BY <2>2 DEF RefresherBuilds, Builds, TypeOK, Tasks
    <3>2. QED
      BY <1>1, <2>2, <2>5, <3>1 DEF RefresherBuilds, Builds, State, Tasks
  <2>3. QED
    BY <1>3, <2>1, <2>2, <2>4 DEF RefresherStep
<1>4. CASE AgentReports
  BY <1>1, <1>2, <1>4 DEF AgentReports
<1>5. CASE Happens
  BY <1>1, <1>2, <1>5 DEF Happens
<1>6. CASE LoopBuilds
  <2>1. built'["loop"] = State(world) /\ \A u \in Tasks \ {"loop"} : built'[u] = built[u]
    BY <1>6 DEF LoopBuilds, Builds, TypeOK, Tasks
  <2>2. QED
    BY <1>1, <1>6, <2>1 DEF LoopBuilds, Builds, State, Tasks
<1>7. CASE Operate
  <2>1. built'["operation"] = State(world') /\ \A u \in Tasks \ {"operation"} : built'[u] = built[u]
    BY <1>7 DEF Operate, Builds, TypeOK, Tasks
  <2>2. SomebodyKnows'
    BY <2>1 DEF Tasks, State
  <2>3. QED
    BY <1>1, <1>2, <1>7, <2>1, <2>2 DEF Operate, Builds, Tasks
<1>8. CASE SwitchEnds
  BY <1>1, <1>2, <1>8 DEF SwitchEnds
<1>9. CASE Switches
  BY <1>9 DEF Switches, SendActivate, State
<1>11. CASE Ensures
  <2>1. UNCHANGED <<built, lastState, startup, refresher, requested, newest, announced, dropped>>
    BY <1>11 DEF Ensures, SendActivate
  <2>2. (world' = world /\ due' = due) \/ (world' = world + 1 /\ due')
    BY <1>11 DEF Ensures
  <2>3. QED
    BY <1>1, <1>2, <2>1, <2>2 DEF State
<1>10. QED
  BY <1>3, <1>4, <1>5, <1>6, <1>7, <1>8, <1>9, <1>11

LEMMA KnownNext ==
    ASSUME BroadcastAssumption, TypeOK, Known, [Next]_vars PROVE Known'
<1> USE DEF building
<1>1. CASE UNCHANGED vars
  BY <1>1, KnownElsewhere DEF vars, stopping, history
<1>2. CASE CacheStep
  BY <1>2, KnownElsewhere DEF CacheStep, stopping, history
<1>3. ASSUME NEW c \in Clients, Connects(c) \/ LoopsOnce(c) \/ Told(c) PROVE Known'
  BY <1>3, KnownElsewhere DEF Connects, Accept, TurnedAway, Upgrade, Subscribes, WriteFails,
     ReadsCache, LoopsOnce, Told, stopping, history
<1>4. CASE RequestShutdown \/ ListenerHears
  <2>1. Announce /\ UNCHANGED <<world, due, building>>
    BY <1>4 DEF RequestShutdown, ListenerHears
  <2>2. QED
    BY <2>1, AnnounceType, KnownElsewhere
<1>5. CASE Signal \/ DrainEnds
  BY <1>5, KnownElsewhere DEF Signal, DrainEnds, history
<1>6. QED
  BY <1>1, <1>2, <1>3, <1>4, <1>5, KnownPublish, KnownStartup, KnownTasks DEF Next

------------------------------------------------------------------------------
(* Who is connected: whom a shutdown reaches, and how many are passive.     *)

(* A client holds its permits from when it is admitted, and listens later.  *)
Admits(c) == stage' = [stage EXCEPT ![c] = "upgrading"] /\ MayAdmit(c) /\ stage[c] = "requesting"

(* What one step may do to who listens and who has a shutdown in its queue. *)
ListenersChange ==
    \/ stage' = stage /\ signalled' \cap Clients = signalled \cap Clients /\ warned' = warned
    \/ SendShutdown /\ stage' = stage
    \/ \E c \in Clients :
          /\ warned' = warned
          /\ \/ Admits(c) /\ signalled' = signalled
             \/ /\ stage[c] = "away" /\ signalled' = signalled
                /\ stage' = [stage EXCEPT ![c] = "requesting"]
             \/ /\ stage[c] \in {"requesting", "upgrading"} /\ signalled' = signalled
                /\ stage' = [stage EXCEPT ![c] = "ended"]
             \/ /\ stage[c] = "upgrading" /\ signalled' = signalled
                /\ stage' = [stage EXCEPT ![c] = "reading"]
             \/ /\ stage[c] = "requesting" /\ ~MayAdmit(c) /\ signalled' = signalled
                /\ stage' = [stage EXCEPT ![c] = "refused"]
             \/ /\ Listening(c) /\ signalled' = signalled
                /\ \E to \in {"waiting", "open"} : stage' = [stage EXCEPT ![c] = to]
             \/ /\ Listening(c) /\ signalled' \in {signalled, signalled \ {c}}
                /\ stage' = [stage EXCEPT ![c] = "ended"]

LEMMA NextListeners ==
    ASSUME BroadcastAssumption, TypeOK, [Next]_vars PROVE ListenersChange
<1> USE DEF stopping, history, clients
<1>1. CASE UNCHANGED vars
  BY <1>1 DEF vars, ListenersChange
<1>2. CASE CacheStep
  BY <1>2 DEF CacheStep, ListenersChange
<1>3. CASE StartupStep
  BY <1>3 DEF StartupStep, HooksInstalled, StartupBuilds, Builds, StartupFails, StartupStores,
     StartupSends, SendState, ListenersChange
<1>4. CASE RefresherStep
  BY <1>4 DEF RefresherStep, ListenersChange
<1>5. CASE AgentReports \/ Happens \/ LoopBuilds \/ Operate \/ Switches \/ SwitchEnds \/ Ensures
  BY <1>5 DEF AgentReports, Happens, LoopBuilds, Operate, Builds, Switches, SwitchEnds, Ensures,
     SendActivate, ListenersChange
<1>6. ASSUME NEW t \in Tasks, Publish(t) PROVE ListenersChange
  BY <1>6 DEF Publish, SendState, ListenersChange
<1>7. ASSUME NEW c \in Clients, Connects(c) PROVE ListenersChange
  <2>1. CASE Accept(c) \/ TurnedAway(c) \/ Subscribes(c) \/ WriteFails(c)
    BY <2>1 DEF Accept, TurnedAway, Subscribes, WriteFails, Moves, ListenersChange
  <2>2. CASE Upgrade(c)
    BY <2>2 DEF Upgrade, Moves, Admits, ListenersChange
  <2>3. CASE ReadsCache(c)
    BY <2>3 DEF ReadsCache, Moves, ListenersChange, Listening, Upgraded
  <2>4. QED
    BY <1>7, <2>1, <2>2, <2>3 DEF Connects
<1>8. ASSUME NEW c \in Clients, LoopsOnce(c) PROVE ListenersChange
  <2>1. UNCHANGED <<signalled, warned>>
    BY <1>8 DEF LoopsOnce
  <2>2. stage[c] \in {"waiting", "open"}
    BY <1>8 DEF LoopsOnce, ClientLags, HearsQuit, Forwards, BeginsWith, HoldsBack, Flushes,
       Leaves, Looping, InLoop
  <2>3. Listening(c)
    BY <2>2 DEF Listening, Upgraded
  <2>4. \/ stage' = stage \/ stage' = [stage EXCEPT ![c] = "open"]
        \/ stage' = [stage EXCEPT ![c] = "ended"]
    BY <1>8 DEF LoopsOnce, ClientLags, HearsQuit, Forwards, BeginsWith, HoldsBack, Flushes,
       Leaves, Ends, Moves
  <2>5. QED
    BY <2>1, <2>3, <2>4 DEF ListenersChange
<1>9. ASSUME NEW c \in Clients, Told(c) PROVE ListenersChange
  BY <1>9 DEF Told, HearsShutdown, Ends, InLoop, Listening, Upgraded, ListenersChange
<1>10. CASE RequestShutdown
  BY <1>10 DEF RequestShutdown, ListenersChange
<1>11. CASE Signal
  BY <1>11 DEF Signal, ListenersChange
<1>12. CASE ListenerHears
  <2>1. signalled' \cap Clients = signalled \cap Clients
    BY <1>12 DEF ListenerHears, BroadcastAssumption
  <2>2. stage' = stage /\ warned' = warned
    BY <1>12 DEF ListenerHears
  <2>3. QED
    BY <2>1, <2>2 DEF ListenersChange
<1>13. CASE DrainEnds
  BY <1>13 DEF DrainEnds, ListenersChange
<1>14. QED
  BY <1>1, <1>2, <1>3, <1>4, <1>5, <1>6, <1>7, <1>8, <1>9, <1>10, <1>11, <1>12, <1>13 DEF Next

LEMMA WarnedStep ==
    ASSUME TypeOK, WarnedWillHear, ListenersChange PROVE WarnedWillHear'
<1> USE DEF WarnedWillHear, Listening, Upgraded
<1>1. stage \in [Clients -> Stages] /\ warned \subseteq Clients
  BY DEF TypeOK
<1>2. CASE stage' = stage /\ signalled' \cap Clients = signalled \cap Clients /\ warned' = warned
  BY <1>1, <1>2
<1>3. CASE SendShutdown /\ stage' = stage
  BY <1>1, <1>3 DEF SendShutdown
<1>4. ASSUME NEW c \in Clients, warned' = warned,
             \/ /\ stage[c] \in {"away", "requesting", "upgrading"} /\ signalled' = signalled
                /\ \E to \in {"upgrading", "reading", "requesting", "refused", "ended"} : stage' = [stage EXCEPT ![c] = to]
             \/ /\ Listening(c) /\ signalled' = signalled
                /\ \E to \in {"waiting", "open"} : stage' = [stage EXCEPT ![c] = to]
             \/ /\ Listening(c) /\ signalled' \in {signalled, signalled \ {c}}
                /\ stage' = [stage EXCEPT ![c] = "ended"]
      PROVE  WarnedWillHear'
  BY <1>1, <1>4
<1>5. QED
  BY <1>2, <1>3, <1>4 DEF ListenersChange, Admits

LEMMA PassivesStep ==
    ASSUME BroadcastAssumption, TypeOK, PassivesBounded, ListenersChange PROVE PassivesBounded'
<1>1. stage \in [Clients -> Stages] /\ IsFiniteSet(Clients) /\ PassiveLimit \in Nat
  BY DEF TypeOK, BroadcastAssumption
<1>2. IsFiniteSet(Admitted \ Sidebars) /\ Cardinality(Admitted \ Sidebars) \in Nat
  BY <1>1, FS_Subset, FS_CardinalityType DEF Admitted
<1>3. CASE (Admitted \ Sidebars)' \subseteq Admitted \ Sidebars
  BY <1>1, <1>2, <1>3, FS_Subset, FS_CardinalityType DEF PassivesBounded
<1>4. ASSUME NEW c \in Clients, Admits(c) PROVE PassivesBounded'
  <2>1. Admitted' = Admitted \cup {c} /\ c \notin Admitted
    BY <1>1, <1>4 DEF Admits, Admitted, Listening, Upgraded
  <2>2. CASE c \in Sidebars
    BY <1>3, <2>1, <2>2
  <2>3. CASE c \notin Sidebars
    <3>1. (Admitted \ Sidebars)' = (Admitted \ Sidebars) \cup {c}
      BY <2>1, <2>3
    <3>2. Cardinality((Admitted \ Sidebars) \cup {c}) = Cardinality(Admitted \ Sidebars) + 1
      BY <1>2, <2>1, FS_AddElement
    <3>3. Cardinality(Admitted \ Sidebars) < PassiveLimit
      BY <1>4, <2>3 DEF Admits, MayAdmit
    <3>4. Cardinality((Admitted \ Sidebars)') <= PassiveLimit
      BY <1>1, <1>2, <3>1, <3>2, <3>3
    <3>5. QED
      BY <3>4 DEF PassivesBounded
  <2>4. QED
    BY <2>2, <2>3
<1>5. CASE stage' = stage
  BY <1>3, <1>5 DEF Admitted, Listening
<1>6. ASSUME NEW c \in Clients, NEW to \in {"requesting", "refused", "ended"},
             stage' = [stage EXCEPT ![c] = to]
      PROVE  PassivesBounded'
  BY <1>1, <1>3, <1>6 DEF Admitted, Listening, Upgraded
<1>7. ASSUME NEW c \in Clients, Listening(c) \/ stage[c] = "upgrading",
             NEW to \in {"reading", "waiting", "open"},
             stage' = [stage EXCEPT ![c] = to]
      PROVE  PassivesBounded'
  BY <1>1, <1>3, <1>7 DEF Admitted, Listening, Upgraded
<1>8. QED
  BY <1>4, <1>5, <1>6, <1>7 DEF ListenersChange

------------------------------------------------------------------------------
(* Catching up.  A queue that overflows loses its oldest messages, never the *)
(* newest; so a receiver has the last snapshot in its queue, with no more    *)
(* behind it than was sent since, or has read it and nothing newer.  Only as *)
(* many activate messages as the channel holds can push it out.              *)

HasState(q) == \E i \in DOMAIN q : q[i].type = "state"
EndsWith(q, s, n) ==
    \E i \in DOMAIN q : /\ q[i] = s /\ Len(q) - i <= n
                        /\ \A j \in DOMAIN q : j > i => q[j].type # "state"
Queued(q) == EndsWith(q, sent, after)
UpToDate(q, held) == Queued(q) \/ (~HasState(q) /\ held = sent)

NothingBeforeStartup ==
    startup \in {"hooks", "snapshot", "built", "stored"} =>
        /\ \A t \in Tasks \ {"startup"} : built[t] = None
        /\ announced \/ sent = None
OutsideIsEmpty ==
    \A c \in Clients : /\ ~Listening(c) => inbox[c] = <<>>
                       /\ stage[c] # "open" => pending[c] = None
WillAnnounce == "cache" \in signalled => announced \/ "listener" \in signalled
Held(c) == IF pending[c] # None THEN pending[c] ELSE shown[c]
Owes(c) ==
    /\ stage[c] = "reading" => Queued(inbox[c]) \/ ~HasState(inbox[c])
    /\ stage[c] = "waiting" => Queued(inbox[c])
    /\ stage[c] = "open" => UpToDate(inbox[c], Held(c))
OnItsWay ==
    ~announced /\ sent # None /\ after < Capacity =>
        /\ Caching => UpToDate(inbox["cache"], latest)
        /\ \A c \in Clients \ late : Owes(c)

CInv == NothingBeforeStartup /\ OutsideIsEmpty /\ WillAnnounce /\ OnItsWay

(* What a queue ends with survives its overflow, if there is room for it.   *)
LEMMA NewestKeeps ==
    ASSUME BroadcastAssumption, NEW w \in Seq(Messages), NEW s, NEW n \in Nat, n < Capacity
    PROVE  /\ EndsWith(w, s, n) => EndsWith(Newest(w), s, n)
           /\ ~HasState(w) => ~HasState(Newest(w))
<1>1. Capacity \in Nat /\ Capacity >= 1 /\ Len(w) \in Nat /\ DOMAIN w = 1..Len(w)
  BY DEF BroadcastAssumption
<1>2. CASE Len(w) <= Capacity
  BY <1>2 DEF Newest
<1>3. CASE ~(Len(w) <= Capacity)
  <2> DEFINE gone == Len(w) - Capacity
             v    == SubSeq(w, gone + 1, Len(w))
  <2>1. gone \in Nat /\ gone + 1 <= Len(w) /\ Len(w) = gone + Capacity
    BY <1>1, <1>3
  <2>2. \A i \in (gone + 1)..Len(w) : w[i] \in Messages
    BY <1>1, <2>1
  <2>3. /\ v \in Seq(Messages) /\ Len(v) = Len(w) - (gone + 1) + 1
        /\ \A i \in 1..Len(w) - (gone + 1) + 1 : v[i] = w[gone + 1 + i - 1]
    BY <1>1, <2>1, <2>2, SubSeqProperties
  <2>4. Newest(w) = v
    BY <1>1, <1>3 DEF Newest
  <2> HIDE DEF v, gone
  <2>5. Len(v) = Capacity /\ DOMAIN v = 1..Capacity
    BY <1>1, <2>1, <2>3
  <2>6. \A i \in 1..Capacity : v[i] = w[gone + i]
    BY <1>1, <2>1, <2>3
  <2>7. ASSUME EndsWith(w, s, n) PROVE EndsWith(v, s, n)
    <3>1. PICK i \in 1..Len(w) : /\ w[i] = s /\ Len(w) - i <= n
                                 /\ \A j \in 1..Len(w) : j > i => w[j].type # "state"
      BY <1>1, <2>7 DEF EndsWith
    <3>2. i - gone \in 1..Capacity /\ gone + (i - gone) = i /\ Capacity - (i - gone) <= n
      BY <1>1, <2>1, <3>1
    <3>3. v[i - gone] = s
      BY <2>6, <3>1, <3>2
    <3>4. ASSUME NEW k \in 1..Capacity, k > i - gone PROVE v[k].type # "state"
      <4>1. gone + k \in 1..Len(w) /\ gone + k > i
        BY <1>1, <2>1, <3>1, <3>4
      <4>2. QED
        BY <2>6, <3>1, <4>1
    <3>5. QED
      BY <2>5, <3>2, <3>3, <3>4 DEF EndsWith
  <2>8. ASSUME ~HasState(w) PROVE ~HasState(v)
    <3>1. ASSUME NEW k \in 1..Capacity PROVE v[k].type # "state"
      <4>1. gone + k \in 1..Len(w)
        BY <1>1, <2>1
      <4>2. QED
        BY <1>1, <2>6, <2>8, <4>1 DEF HasState
    <3>2. QED
      BY <2>5, <3>1 DEF HasState
  <2>9. QED
    BY <2>4, <2>7, <2>8
<1>4. QED
  BY <1>2, <1>3

(* The snapshot sent last is in the queue, whatever else it loses.          *)
LEMMA SentIsLast ==
    ASSUME BroadcastAssumption, NEW q \in Seq(Messages), NEW n \in Nat
    PROVE  EndsWith(Newest(q \o <<State(n)>>), State(n), 0)
<1> DEFINE w == q \o <<State(n)>>
<1>1. /\ 0 < Capacity /\ Len(q) \in Nat
      /\ State(n) \in Messages /\ <<State(n)>> \in Seq(Messages)
  BY StateIsState DEF BroadcastAssumption, Messages
<1>2. w \in Seq(Messages) /\ Len(w) = Len(q) + 1 /\ w[Len(w)] = State(n)
  BY <1>1, ConcatProperties
<1> HIDE DEF w
<1>3. Len(w) \in DOMAIN w /\ \A j \in DOMAIN w : ~(j > Len(w))
  BY <1>1, <1>2
<1>4. EndsWith(w, State(n), 0)
  BY <1>1, <1>2, <1>3 DEF EndsWith
<1>5. EndsWith(Newest(w), State(n), 0)
  BY <1>1, <1>2, <1>4, NewestKeeps
<1>6. QED
  BY <1>5 DEF w

(* An activate message takes one place behind it.                           *)
LEMMA ActivateKeeps ==
    ASSUME BroadcastAssumption, NEW q \in Seq(Messages), NEW s, NEW n \in Nat, n + 1 < Capacity
    PROVE  /\ EndsWith(q, s, n) => EndsWith(Newest(q \o <<Activate>>), s, n + 1)
           /\ ~HasState(q) => ~HasState(Newest(q \o <<Activate>>))
<1> DEFINE w == q \o <<Activate>>
<1>1. Len(q) \in Nat /\ <<Activate>> \in Seq(Messages) /\ DOMAIN q = 1..Len(q)
  BY DEF Messages
<1>2. /\ w \in Seq(Messages) /\ Len(w) = Len(q) + 1 /\ w[Len(q) + 1] = Activate
      /\ \A i \in 1..Len(q) : w[i] = q[i]
  BY <1>1, ConcatProperties
<1> HIDE DEF w
<1>3. DOMAIN w = 1..(Len(q) + 1) /\ w[Len(q) + 1].type # "state"
  BY <1>1, <1>2 DEF Activate
<1>4. ASSUME EndsWith(q, s, n) PROVE EndsWith(w, s, n + 1)
  <2>1. PICK i \in 1..Len(q) : /\ q[i] = s /\ Len(q) - i <= n
                               /\ \A j \in 1..Len(q) : j > i => q[j].type # "state"
    BY <1>1, <1>4 DEF EndsWith
  <2>2. i \in DOMAIN w /\ w[i] = s /\ Len(w) - i <= n + 1
    BY <1>1, <1>2, <1>3, <2>1
  <2>3. ASSUME NEW j \in DOMAIN w, j > i PROVE w[j].type # "state"
    BY <1>1, <1>2, <1>3, <2>1, <2>3
  <2>4. QED
    BY <2>2, <2>3 DEF EndsWith
<1>5. ASSUME ~HasState(q) PROVE ~HasState(w)
  BY <1>1, <1>2, <1>3, <1>5 DEF HasState
<1>6. /\ EndsWith(w, s, n + 1) => EndsWith(Newest(w), s, n + 1)
      /\ ~HasState(w) => ~HasState(Newest(w))
  BY <1>2, NewestKeeps
<1>7. QED
  BY <1>4, <1>5, <1>6 DEF w

(* Reading a queue leaves its newest snapshot in it, or was reading that.   *)
LEMMA ReadKeepsLast ==
    ASSUME NEW q \in Seq(Messages), q # <<>>, NEW s \in States, NEW n \in Nat
    PROVE  /\ EndsWith(q, s, n) => \/ EndsWith(Tail(q), s, n)
                                   \/ /\ Head(q) = s /\ Head(q).type = "state"
                                      /\ ~HasState(Tail(q))
           /\ ~HasState(q) => Head(q).type # "state" /\ ~HasState(Tail(q))
<1>1. /\ Len(q) \in Nat \ {0} /\ DOMAIN q = 1..Len(q) /\ Head(q) = q[1]
      /\ Tail(q) \in Seq(Messages) /\ Len(Tail(q)) = Len(q) - 1
      /\ \A i \in 1..Len(Tail(q)) : Tail(q)[i] = q[i + 1]
  BY HeadTailProperties
<1>2. DOMAIN Tail(q) = 1..(Len(q) - 1)
  BY <1>1
<1>3. ASSUME EndsWith(q, s, n)
      PROVE  \/ EndsWith(Tail(q), s, n)
             \/ Head(q) = s /\ Head(q).type = "state" /\ ~HasState(Tail(q))
  <2>1. PICK i \in DOMAIN q : /\ q[i] = s /\ Len(q) - i <= n
                              /\ \A j \in DOMAIN q : j > i => q[j].type # "state"
    BY <1>3 DEF EndsWith
  <2>2. CASE i = 1
    <3>1. Head(q) = s /\ s.type = "state"
      BY <1>1, <2>1, <2>2 DEF States
    <3>2. \A k \in DOMAIN Tail(q) : Tail(q)[k].type # "state"
      BY <1>1, <1>2, <2>1, <2>2
    <3>3. QED
      BY <3>1, <3>2 DEF HasState
  <2>3. CASE i # 1
    <3>1. /\ i - 1 \in DOMAIN Tail(q) /\ Tail(q)[i - 1] = s
          /\ Len(Tail(q)) - (i - 1) <= n
      BY <1>1, <1>2, <2>1, <2>3
    <3>2. \A k \in DOMAIN Tail(q) : k > i - 1 => Tail(q)[k].type # "state"
      BY <1>1, <1>2, <2>1, <2>3
    <3>3. QED
      BY <3>1, <3>2 DEF EndsWith
  <2>4. QED
    BY <2>2, <2>3
<1>4. ASSUME ~HasState(q) PROVE Head(q).type # "state" /\ ~HasState(Tail(q))
  BY <1>1, <1>2, <1>4 DEF HasState
<1>5. QED
  BY <1>3, <1>4

LEMMA ReadStep ==
    ASSUME TypeOK, NEW r \in Receivers, NEW type, Reads(r, type), sent # None
    PROVE  /\ \A o \in Receivers : o # r => inbox'[o] = inbox[o]
           /\ Head(inbox[r]).type = type
           /\ Queued(inbox[r]) => \/ Queued(inbox'[r])
                                  \/ /\ Head(inbox[r]) = sent /\ type = "state"
                                     /\ ~HasState(inbox'[r])
           /\ ~HasState(inbox[r]) => type # "state" /\ ~HasState(inbox'[r])
<1>1. inbox \in [Receivers -> Seq(Messages)] /\ sent \in States /\ after \in Nat
  BY SnapshotShows DEF TypeOK, Messages
<1>2. inbox[r] \in Seq(Messages) /\ inbox[r] # <<>> /\ Head(inbox[r]).type = type
  BY <1>1 DEF Reads
<1>3. inbox'[r] = Tail(inbox[r]) /\ \A o \in Receivers : o # r => inbox'[o] = inbox[o]
  BY <1>1 DEF Reads
<1>4. QED
  BY <1>1, <1>2, <1>3, ReadKeepsLast DEF Queued

(* Steps that touch neither a queue nor a client.                           *)
LEMMA OnItsWayElsewhere ==
    ASSUME OnItsWay, UNCHANGED <<inbox, latest, stage, pending, shown, sent, late, after>>,
           announced => announced', signalled \subseteq signalled'
    PROVE  OnItsWay'
BY DEF OnItsWay, Owes, UpToDate, Queued, Caching, Held

(* Sending a snapshot puts it into every queue that is read.                *)
LEMMA OnItsWaySent ==
    ASSUME BroadcastAssumption, TypeOK, NEW n \in Nat, SendState(n),
           UNCHANGED <<stage, signalled>>
    PROVE  OnItsWay'
<1>1. inbox \in [Receivers -> Seq(Messages)]
  BY DEF TypeOK, Messages
<1>2. ASSUME NEW r \in Receivers, Subscribed(r) PROVE EndsWith(inbox'[r], State(n), 0)
  <2>1. inbox'[r] = Newest(inbox[r] \o <<State(n)>>)
    BY <1>1, <1>2 DEF SendState, Send
  <2>2. QED
    BY <1>1, <2>1, SentIsLast
<1>3. sent' = State(n) /\ after' = 0
  BY DEF SendState
<1>4. Caching' => Queued(inbox["cache"])'
  <2>1. "cache" \in Receivers /\ (Caching' => Subscribed("cache"))
    BY DEF Receivers, Subscribed, Caching
  <2>2. QED
    BY <1>2, <1>3, <2>1 DEF Queued
<1>5. ASSUME NEW c \in Clients, stage'[c] \in Upgraded PROVE Queued(inbox[c])'
  <2>1. c \in Receivers /\ c # "cache" /\ Listening(c)
    BY <1>5 DEF Receivers, BroadcastAssumption, Listening
  <2>2. QED
    BY <1>2, <1>3, <2>1 DEF Subscribed, Queued
<1>6. QED
  BY <1>4, <1>5 DEF OnItsWay, Owes, UpToDate, Upgraded

(* An activate message leaves it there while there is room.                 *)
LEMMA OnItsWayActivates ==
    ASSUME BroadcastAssumption, TypeOK, OnItsWay, SendActivate,
           UNCHANGED <<stage, signalled, announced, pending, shown, latest>>
    PROVE  OnItsWay'
<1>1. /\ inbox \in [Receivers -> Seq(Messages)] /\ after \in Nat /\ Capacity \in Nat
      /\ "cache" \in Receivers /\ \A c \in Clients : c \in Receivers /\ c # "cache"
  BY DEF TypeOK, Messages, Receivers, BroadcastAssumption
<1>2. after' = after + 1 /\ sent' = sent /\ late' = late
  BY DEF SendActivate
<1>3. SUFFICES ASSUME ~announced, sent # None, after + 1 < Capacity
               PROVE  /\ Caching => UpToDate(inbox["cache"], latest)'
                      /\ \A c \in Clients \ late : Owes(c)'
  BY <1>2 DEF OnItsWay, Caching
<1>4. /\ Caching => UpToDate(inbox["cache"], latest)
      /\ \A c \in Clients \ late : Owes(c)
  BY <1>1, <1>3 DEF OnItsWay
<1>5. ASSUME NEW r \in Receivers, Subscribed(r)
      PROVE  /\ Queued(inbox[r]) => Queued(inbox[r])'
             /\ ~HasState(inbox[r]) => ~HasState(inbox'[r])
  <2>1. inbox'[r] = Newest(inbox[r] \o <<Activate>>) /\ inbox[r] \in Seq(Messages)
    BY <1>1, <1>5 DEF SendActivate, Send
  <2>2. /\ EndsWith(inbox[r], sent, after) => EndsWith(inbox'[r], sent, after + 1)
        /\ ~HasState(inbox[r]) => ~HasState(inbox'[r])
    BY <1>1, <1>3, <2>1, ActivateKeeps
  <2>3. QED
    BY <1>2, <2>2 DEF Queued
<1>6. Caching => UpToDate(inbox["cache"], latest)'
  BY <1>1, <1>2, <1>4, <1>5 DEF UpToDate, Subscribed
<1>7. ASSUME NEW c \in Clients \ late PROVE Owes(c)'
  <2>1. Owes(c) /\ c \in Receivers /\ (stage[c] \in Upgraded => Subscribed(c))
    BY <1>1, <1>4, <1>7 DEF Subscribed, Listening
  <2>2. stage' = stage /\ Held(c)' = Held(c)
    BY DEF Held
  <2>3. QED
    BY <1>2, <1>5, <2>1, <2>2 DEF Owes, UpToDate, Upgraded
<1>8. QED
  BY <1>6, <1>7

LEMMA OnItsWayCache ==
    ASSUME BroadcastAssumption, TypeOK, OnItsWay, CacheStep PROVE OnItsWay'
<1> USE DEF building, clients, stopping, history
<1>1. "cache" \in Receivers /\ \A c \in Clients : c \in Receivers /\ c # "cache"
  BY DEF Receivers, BroadcastAssumption
<1>2. SUFFICES ASSUME ~announced, sent # None, after < Capacity
               PROVE  /\ Caching => UpToDate(inbox["cache"], latest)'
                      /\ \A c \in Clients : inbox'[c] = inbox[c]
  <2>1. UNCHANGED <<announced, sent, after, late, stage, pending, shown, signalled>>
    BY DEF CacheStep
  <2>2. Caching' <=> Caching
    BY <2>1 DEF Caching
  <2>3. QED
    BY <1>2, <2>1, <2>2 DEF OnItsWay, Owes, UpToDate, Queued, Held
<1>3. sent' = sent /\ after' = after /\ (Caching => UpToDate(inbox["cache"], latest))
  BY <1>2 DEF OnItsWay, CacheStep
<1>4. CASE CacheLags
  BY <1>3, <1>4 DEF CacheLags, Hears, UpToDate, Queued
<1>5. CASE CacheStores
  BY <1>1, <1>2, <1>3, <1>5, ReadStep DEF CacheStores, UpToDate, Queued
<1>6. CASE CacheSkips
  <2>1. PICK type \in {"activate", "quit"} : Reads("cache", type)
    BY <1>6 DEF CacheSkips
  <2>2. latest' = latest
    BY <1>6 DEF CacheSkips
  <2>3. QED
    BY <1>1, <1>2, <1>3, <2>1, <2>2, ReadStep DEF UpToDate, Queued
<1>7. QED
  BY <1>4, <1>5, <1>6 DEF CacheStep

(* A step of one client.  What the others owe is kept as it was.            *)
LEMMA OnItsWayClient ==
    ASSUME BroadcastAssumption, TypeOK, OnItsWay, NEW c \in Clients,
           UNCHANGED <<latest, announced, sent, after>>,
           late \subseteq late', signalled' \cup {c} = signalled \cup {c},
           \A o \in Receivers : o # c => inbox'[o] = inbox[o],
           \A d \in Clients : d # c => /\ stage'[d] = stage[d] /\ pending'[d] = pending[d]
                                       /\ shown'[d] = shown[d],
           ~announced /\ sent # None /\ after < Capacity /\ c \notin late' => Owes(c)'
    PROVE  OnItsWay'
<1>1. "cache" \in Receivers /\ c # "cache" /\ \A d \in Clients : d \in Receivers
  BY DEF Receivers, BroadcastAssumption
<1>2. SUFFICES ASSUME ~announced, sent # None, after < Capacity
               PROVE  /\ Caching' => UpToDate(inbox["cache"], latest)'
                      /\ \A d \in Clients \ late' : Owes(d)'
  BY DEF OnItsWay
<1>3. Caching' => UpToDate(inbox["cache"], latest)'
  BY <1>1, <1>2 DEF OnItsWay, Caching, UpToDate, Queued
<1>4. ASSUME NEW d \in Clients \ late', d # c PROVE Owes(d)'
  <2>1. Owes(d)
    BY <1>2, <1>4 DEF OnItsWay
  <2>2. /\ inbox'[d] = inbox[d] /\ stage'[d] = stage[d] /\ pending'[d] = pending[d]
        /\ shown'[d] = shown[d] /\ sent' = sent /\ after' = after
    BY <1>1, <1>4
  <2>3. QED
    BY <2>1, <2>2 DEF Owes, UpToDate, Queued, Held
<1>5. QED
  BY <1>2, <1>3, <1>4

LEMMA OnItsWayConnects ==
    ASSUME BroadcastAssumption, TypeOK, CInv, NEW c \in Clients, Connects(c) PROVE OnItsWay'
<1> USE DEF building, channel, stopping, history
<1>1. /\ UNCHANGED <<latest, announced, sent, after, signalled, inbox, pending>>
      /\ late \subseteq late' /\ OnItsWay
  BY DEF Connects, Accept, TurnedAway, Upgrade, Subscribes, WriteFails, ReadsCache, CInv
<1>2. \A d \in Clients : d # c => stage'[d] = stage[d] /\ shown'[d] = shown[d]
  BY DEF Connects, Accept, TurnedAway, Upgrade, Subscribes, WriteFails, ReadsCache, Moves, TypeOK
<1>3. ASSUME ~announced, sent # None, after < Capacity, c \notin late' PROVE Owes(c)'
  <2>1. stage \in [Clients -> Stages] /\ shown \in [Clients -> Snapshots]
    BY DEF TypeOK
  <2>2. CASE Accept(c) \/ TurnedAway(c) \/ Upgrade(c) \/ WriteFails(c)
    BY <2>1, <2>2 DEF Accept, TurnedAway, Upgrade, WriteFails, Moves, Owes
  <2>3. CASE Subscribes(c)
    <3>1. inbox'[c] = <<>> /\ stage'[c] = "reading"
      BY <1>1, <2>1, <2>3 DEF Subscribes, Moves, CInv, OutsideIsEmpty, Listening, Upgraded
    <3>2. QED
      BY <3>1 DEF Owes, HasState
  <2>4. CASE ReadsCache(c)
    <3>1. /\ stage[c] = "reading" /\ shown'[c] = latest /\ pending'[c] = None
          /\ stage'[c] = IF latest = None THEN "waiting" ELSE "open"
          /\ inbox'[c] = inbox[c] /\ sent' = sent /\ after' = after
      BY <1>1, <2>1, <2>4 DEF ReadsCache, Moves, CInv, OutsideIsEmpty
    <3>2. Queued(inbox[c]) \/ ~HasState(inbox[c])
      BY <1>1, <1>3, <3>1 DEF OnItsWay, Owes
    <3>3. HasState(inbox[c]) \/ latest = sent
      BY <1>3, <2>4 DEF ReadsCache, HasState
    <3>4. QED
      BY <1>3, <3>1, <3>2, <3>3 DEF Owes, UpToDate, Queued, Held
  <2>5. QED
    BY <2>2, <2>3, <2>4 DEF Connects
<1>4. \A o \in Receivers : o # c => inbox'[o] = inbox[o]
  BY <1>1
<1>5. \A d \in Clients : d # c => /\ stage'[d] = stage[d] /\ pending'[d] = pending[d]
                                  /\ shown'[d] = shown[d]
  BY <1>1, <1>2
<1>6. QED
  BY <1>1, <1>3, <1>4, <1>5, OnItsWayClient

LEMMA OnItsWayLoops ==
    ASSUME BroadcastAssumption, TypeOK, CInv, NEW c \in Clients, LoopsOnce(c) \/ Told(c)
    PROVE  OnItsWay'
<1> USE DEF building, channel, stopping, history
<1>1. /\ UNCHANGED <<latest, announced, sent, after, late>>
      /\ OnItsWay /\ c \in Receivers
  BY DEF LoopsOnce, Told, CInv, Receivers
<1>2. signalled' \cup {c} = signalled \cup {c}
  BY DEF LoopsOnce, Told, HearsShutdown
<1>t. /\ stage \in [Clients -> Stages] /\ inbox \in [Receivers -> Seq(Messages)]
      /\ pending \in [Clients -> Snapshots] /\ shown \in [Clients -> Snapshots]
  BY DEF TypeOK, Messages
<1>3. ASSUME Ends(c) PROVE OnItsWay'
  <2>1. /\ \A o \in Receivers : o # c => inbox'[o] = inbox[o]
        /\ \A d \in Clients : d # c => /\ stage'[d] = stage[d] /\ pending'[d] = pending[d]
                                       /\ shown'[d] = shown[d]
        /\ stage'[c] = "ended"
    BY <1>t, <1>3 DEF Ends
  <2>2. Owes(c)'
    BY <2>1 DEF Owes
  <2>3. QED
    BY <1>1, <1>2, <2>1, <2>2, OnItsWayClient
<1>4. ASSUME ClientLags(c) PROVE OnItsWay'
  <2>1. UNCHANGED <<inbox, stage, pending, shown>>
    BY <1>4 DEF ClientLags, Hears
  <2>2. ASSUME ~announced, sent # None, after < Capacity, c \notin late' PROVE Owes(c)'
    BY <1>1, <2>1, <2>2 DEF OnItsWay, Owes, UpToDate, Queued, Held
  <2>3. QED
    BY <1>1, <1>2, <2>1, <2>2, OnItsWayClient
<1>5. ASSUME Forwards(c) PROVE OnItsWay'
  <2>1. Reads(c, "activate") /\ UNCHANGED <<stage, pending, shown>>
    BY <1>5 DEF Forwards
  <2>2. \A o \in Receivers : o # c => inbox'[o] = inbox[o]
    BY <1>t, <2>1 DEF Reads
  <2>3. ASSUME ~announced, sent # None, after < Capacity, c \notin late' PROVE Owes(c)'
    <3>1. Owes(c)
      BY <1>1, <2>3 DEF OnItsWay
    <3>2. /\ Queued(inbox[c]) => Queued(inbox'[c])
          /\ ~HasState(inbox[c]) => ~HasState(inbox'[c])
      BY <1>1, <2>1, <2>3, ReadStep
    <3>3. QED
      BY <1>1, <2>1, <3>1, <3>2 DEF Owes, UpToDate, Queued, Held
  <2>4. QED
    BY <1>1, <1>2, <2>1, <2>2, <2>3, OnItsWayClient
<1>6. ASSUME BeginsWith(c) \/ HoldsBack(c) PROVE OnItsWay'
  <2>1. Reads(c, "state") /\ Head(inbox[c]) \in Snapshots
    BY <1>1, <1>6, ReadState DEF BeginsWith, HoldsBack
  <2>2. \A o \in Receivers : o # c => inbox'[o] = inbox[o]
    BY <1>t, <2>1 DEF Reads
  <2>3. \A d \in Clients : d # c => /\ stage'[d] = stage[d] /\ pending'[d] = pending[d]
                                    /\ shown'[d] = shown[d]
    BY <1>t, <1>6 DEF BeginsWith, HoldsBack, Moves
  <2>4. stage'[c] = "open" /\ stage[c] \in {"waiting", "open"}
    BY <1>t, <1>6 DEF BeginsWith, HoldsBack, Moves
  <2>5. Held(c)' = Head(inbox[c]) \/ Head(inbox[c]) = None
    BY <1>t, <1>6 DEF BeginsWith, HoldsBack, Held, CInv, OutsideIsEmpty
  <2>6. ASSUME ~announced, sent # None, after < Capacity, c \notin late' PROVE Owes(c)'
    <3>1. UpToDate(inbox[c], Held(c)) \/ Queued(inbox[c])
      BY <1>1, <2>4, <2>6 DEF OnItsWay, Owes
    <3>2. Queued(inbox[c])
      BY <1>1, <2>1, <2>6, <3>1, ReadStep DEF UpToDate
    <3>3. Queued(inbox'[c]) \/ (Head(inbox[c]) = sent /\ ~HasState(inbox'[c]))
      BY <1>1, <2>1, <2>6, <3>2, ReadStep
    <3>4. QED
      BY <1>1, <2>4, <2>5, <2>6, <3>3 DEF Owes, UpToDate, Queued
  <2>7. QED
    BY <1>1, <1>2, <2>2, <2>3, <2>6, OnItsWayClient
<1>7. ASSUME Flushes(c) PROVE OnItsWay'
  <2>1. /\ UNCHANGED <<inbox, stage>> /\ pending[c] # None
        /\ shown'[c] = pending[c] /\ pending'[c] = None
        /\ \A d \in Clients : d # c => pending'[d] = pending[d] /\ shown'[d] = shown[d]
    BY <1>t, <1>7 DEF Flushes
  <2>2. Held(c)' = Held(c)
    BY <2>1 DEF Held
  <2>3. ASSUME ~announced, sent # None, after < Capacity, c \notin late' PROVE Owes(c)'
    BY <1>1, <2>1, <2>2, <2>3 DEF OnItsWay, Owes, UpToDate, Queued
  <2>4. QED
    BY <1>1, <1>2, <2>1, <2>3, OnItsWayClient
<1>8. QED
  BY <1>3, <1>4, <1>5, <1>6, <1>7 DEF LoopsOnce, Told, HearsShutdown, HearsQuit, Leaves

LEMMA OnItsWayNext ==
    ASSUME BroadcastAssumption, IInv, CInv, [Next]_vars PROVE OnItsWay'
<1> USE DEF building, channel, clients, stopping, history
<1>1. TypeOK /\ OnItsWay /\ BuildersInPlace /\ world \in Nat
  BY DEF IInv, CInv, TypeOK
<1>2. CASE UNCHANGED vars
  BY <1>1, <1>2, OnItsWayElsewhere DEF vars
<1>3. CASE StartupStep
  <2>1. CASE StartupSends
    <3>1. built["startup"].shows \in Nat
      BY <1>1, <2>1, SnapshotShows DEF StartupSends, BuildersInPlace, TypeOK, Tasks
    <3>2. QED
      BY <1>1, <2>1, <3>1, OnItsWaySent DEF StartupSends
  <2>2. CASE HooksInstalled \/ StartupBuilds \/ StartupFails
    <3>1. UNCHANGED <<inbox, latest, stage, pending, shown, sent, late, after, announced, signalled>>
      BY <2>2 DEF HooksInstalled, StartupBuilds, StartupFails
    <3>2. QED
      BY <1>1, <3>1, OnItsWayElsewhere
  <2>3. CASE StartupStores
    <3>1. announced' = announced /\ sent' = sent
      BY <2>3 DEF StartupStores
    <3>2. announced \/ sent = None
      BY <2>3 DEF StartupStores, CInv, NothingBeforeStartup
    <3>3. QED
      BY <3>1, <3>2 DEF OnItsWay
  <2>4. QED
    BY <1>3, <2>1, <2>2, <2>3 DEF StartupStep
<1>4. CASE RefresherStep
  <2>1. UNCHANGED <<inbox, latest, stage, pending, shown, sent, late, after, announced, signalled>>
    BY <1>4 DEF RefresherStep
  <2>2. QED
    BY <1>1, <2>1, OnItsWayElsewhere
<1>5. CASE AgentReports \/ Happens \/ LoopBuilds \/ Operate \/ SwitchEnds
  <2>1. UNCHANGED <<inbox, latest, stage, pending, shown, sent, late, after, announced, signalled>>
    BY <1>5 DEF AgentReports, Happens, LoopBuilds, Operate, SwitchEnds
  <2>2. QED
    BY <1>1, <2>1, OnItsWayElsewhere
<1>6. CASE Switches \/ Ensures
  BY <1>1, <1>6, OnItsWayActivates DEF Switches, Ensures
<1>7. ASSUME NEW t \in Tasks, Publish(t) PROVE OnItsWay'
  <2>1. built[t].shows \in Nat
    BY <1>1, <1>7, SnapshotShows DEF Publish, TypeOK
  <2>2. QED
    BY <1>1, <1>7, <2>1, OnItsWaySent DEF Publish
<1>8. CASE RequestShutdown \/ ListenerHears
  <2>1. announced'
    BY <1>1, <1>8, AnnounceType DEF RequestShutdown, ListenerHears
  <2>2. QED
    BY <2>1 DEF OnItsWay
<1>9. CASE Signal
  <2>1. /\ UNCHANGED <<inbox, latest, stage, pending, shown, sent, late, after, announced>>
        /\ signalled \subseteq signalled'
    BY <1>9 DEF Signal, SendShutdown
  <2>2. QED
    BY <1>1, <2>1, OnItsWayElsewhere
<1>10. CASE DrainEnds
  BY <1>1, <1>10, OnItsWayElsewhere DEF DrainEnds
<1>11. QED
  BY <1>1, <1>2, <1>3, <1>4, <1>5, <1>6, <1>7, <1>8, <1>9, <1>10, OnItsWayCache,
     OnItsWayConnects, OnItsWayLoops DEF Next

(* Until the startup task has published nobody else has a snapshot to send. *)
LEMMA NothingBeforeNext ==
    ASSUME BroadcastAssumption, TypeOK, NothingBeforeStartup, [Next]_vars
    PROVE  NothingBeforeStartup'
<1> USE DEF building, stopping, history, NothingBeforeStartup
<1>t. built \in [Tasks -> Snapshots]
  BY DEF TypeOK
<1>1. CASE UNCHANGED vars
  BY <1>1 DEF vars
<1>2. CASE StartupStep
  <2>1. CASE HooksInstalled \/ StartupFails
    BY <2>1 DEF HooksInstalled, StartupFails
  <2>2. CASE StartupBuilds
    BY <1>t, <2>2 DEF StartupBuilds, Builds, Tasks
  <2>3. CASE StartupStores
    BY <1>t, <2>3 DEF StartupStores, Tasks
  <2>4. CASE StartupSends
    BY <2>4 DEF StartupSends
  <2>5. QED
    BY <1>2, <2>1, <2>2, <2>3, <2>4 DEF StartupStep
<1>3. CASE RefresherStep
  <2>1. startup' = startup /\ announced' = announced /\ sent' = sent
    BY <1>3 DEF RefresherStep, RefresherStops, RefresherReceives, RefresherDrains,
       RefresherBuilds, RefresherFails
  <2>2. built' = built \/ LockFree
    BY <1>3 DEF RefresherStep, RefresherStops, RefresherReceives, RefresherDrains,
       RefresherBuilds, RefresherFails
  <2>3. QED
    BY <2>1, <2>2 DEF LockFree
<1>4. CASE AgentReports \/ Happens \/ SwitchEnds \/ Switches \/ Ensures
  BY <1>4 DEF AgentReports, Happens, SwitchEnds, Switches, Ensures, SendActivate
<1>5. CASE LoopBuilds \/ Operate
  BY <1>5 DEF LoopBuilds, Operate, LockFree
<1>6. ASSUME NEW t \in Tasks, Publish(t) PROVE NothingBeforeStartup'
  BY <1>t, <1>6 DEF Publish
<1>7. CASE RequestShutdown \/ ListenerHears
  <2>1. announced' /\ UNCHANGED <<built, startup>>
    BY <1>7, AnnounceType DEF RequestShutdown, ListenerHears
  <2>2. QED
    BY <2>1
<1>8. CASE Signal \/ DrainEnds \/ CacheStep
  BY <1>8 DEF Signal, DrainEnds, CacheStep
<1>9. ASSUME NEW c \in Clients, Connects(c) \/ LoopsOnce(c) \/ Told(c) PROVE NothingBeforeStartup'
  <2>1. UNCHANGED <<built, startup, announced, sent>>
    BY <1>9 DEF Connects, Accept, TurnedAway, Upgrade, Subscribes, WriteFails, ReadsCache,
       LoopsOnce, Told
  <2>2. QED
    BY <2>1
<1>10. QED
  BY <1>1, <1>2, <1>3, <1>4, <1>5, <1>6, <1>7, <1>8, <1>9 DEF Next

(* Who is not in its loop has nothing to read and nothing held back.        *)
LEMMA SendOutside ==
    ASSUME BroadcastAssumption, TypeOK, OutsideIsEmpty, NEW messages, Send(messages),
           UNCHANGED <<stage, pending>>
    PROVE  OutsideIsEmpty'
BY DEF TypeOK, OutsideIsEmpty, Send, Receivers, Subscribed, Listening, BroadcastAssumption

LEMMA OutsideIsEmptyNext ==
    ASSUME BroadcastAssumption, TypeOK, OutsideIsEmpty, [Next]_vars PROVE OutsideIsEmpty'
<1> USE DEF clients, channel
<1>t. /\ stage \in [Clients -> Stages] /\ inbox \in [Receivers -> Seq(Messages)]
      /\ pending \in [Clients -> Snapshots] /\ \A c \in Clients : c \in Receivers /\ c # "cache"
  BY DEF TypeOK, Messages, Receivers, BroadcastAssumption
<1>0. ASSUME UNCHANGED <<stage, pending, inbox>> PROVE OutsideIsEmpty'
  BY <1>0 DEF OutsideIsEmpty, Listening
<1>1. CASE UNCHANGED vars
  BY <1>0, <1>1 DEF vars
<1>2. CASE CacheStep
  <2>1. UNCHANGED <<stage, pending>> /\ \A c \in Clients : inbox'[c] = inbox[c]
    BY <1>t, <1>2 DEF CacheStep, CacheLags, CacheStores, CacheSkips, Hears, Reads
  <2>2. QED
    BY <2>1 DEF OutsideIsEmpty, Listening
<1>3. CASE StartupStep
  <2>1. CASE StartupSends
    BY <2>1, SendOutside DEF StartupSends, SendState
  <2>2. CASE HooksInstalled \/ StartupBuilds \/ StartupFails \/ StartupStores
    BY <1>0, <2>2 DEF HooksInstalled, StartupBuilds, StartupFails, StartupStores
  <2>3. QED
    BY <1>3, <2>1, <2>2 DEF StartupStep
<1>4. CASE RefresherStep \/ AgentReports \/ Happens \/ LoopBuilds \/ Operate \/ SwitchEnds
  BY <1>0, <1>4 DEF RefresherStep, AgentReports, Happens, LoopBuilds, Operate, SwitchEnds
<1>5. CASE Switches \/ Ensures
  BY <1>5, SendOutside DEF Switches, Ensures, SendActivate
<1>6. ASSUME NEW t \in Tasks, Publish(t) PROVE OutsideIsEmpty'
  BY <1>6, SendOutside DEF Publish, SendState
<1>7. ASSUME NEW c \in Clients, Connects(c) PROVE OutsideIsEmpty'
  <2>1. CASE Accept(c) \/ TurnedAway(c) \/ Upgrade(c) \/ Subscribes(c) \/ WriteFails(c)
    BY <1>t, <1>7, <2>1 DEF Connects, Accept, TurnedAway, Upgrade, Subscribes, WriteFails, Moves,
       OutsideIsEmpty, Listening, Upgraded
  <2>2. CASE ReadsCache(c)
    BY <1>t, <1>7, <2>2 DEF Connects, ReadsCache, Moves, OutsideIsEmpty, Listening, Upgraded
  <2>3. QED
    BY <1>7, <2>1, <2>2 DEF Connects
<1>8. ASSUME NEW c \in Clients, LoopsOnce(c) \/ Told(c) PROVE OutsideIsEmpty'
  <2>1. CASE Ends(c)
    BY <1>t, <2>1 DEF Ends, OutsideIsEmpty, Listening
  <2>2. CASE ClientLags(c) \/ Forwards(c) \/ BeginsWith(c) \/ HoldsBack(c) \/ Flushes(c)
    <3>1. Listening(c) /\ Listening(c)' /\ \A d \in Clients : d # c => stage'[d] = stage[d]
      BY <1>t, <2>2 DEF ClientLags, Forwards, BeginsWith, HoldsBack, Flushes, Looping, InLoop,
         Listening, Upgraded, Moves
    <3>2. \A d \in Clients : d # c => inbox'[d] = inbox[d] /\ pending'[d] = pending[d]
      BY <1>t, <2>2 DEF ClientLags, Forwards, BeginsWith, HoldsBack, Flushes, Hears, Reads
    <3>3. stage'[c] # "open" => pending'[c] = None
      BY <1>t, <2>2 DEF ClientLags, Forwards, BeginsWith, HoldsBack, Flushes, Moves, OutsideIsEmpty
    <3>4. QED
      BY <3>1, <3>2, <3>3 DEF OutsideIsEmpty, Listening
  <2>3. QED
    BY <1>8, <2>1, <2>2 DEF LoopsOnce, Told, HearsShutdown, HearsQuit, Leaves
<1>9. CASE RequestShutdown \/ ListenerHears
  <2>1. Announce /\ UNCHANGED <<stage, pending>>
    BY <1>9 DEF RequestShutdown, ListenerHears
  <2>2. QED
    BY <1>0, <2>1, SendOutside DEF Announce
<1>10. CASE Signal \/ DrainEnds
  BY <1>0, <1>10 DEF Signal, DrainEnds
<1>11. QED
  BY <1>1, <1>2, <1>3, <1>4, <1>5, <1>6, <1>7, <1>8, <1>9, <1>10 DEF Next

(* Once the cache has been told to stop, the announcement is on its way.    *)
LEMMA WillAnnounceNext ==
    ASSUME BroadcastAssumption, TypeOK, WillAnnounce, [Next]_vars PROVE WillAnnounce'
<1> USE DEF WillAnnounce, stopping, history
<1>0. ASSUME UNCHANGED <<announced, signalled>> PROVE WillAnnounce'
  BY <1>0
<1>1. CASE RequestShutdown \/ ListenerHears
  <2>1. announced'
    BY <1>1, AnnounceType DEF RequestShutdown, ListenerHears
  <2>2. QED
    BY <2>1
<1>2. CASE Signal
  BY <1>2 DEF Signal, SendShutdown
<1>3. ASSUME NEW c \in Clients, Told(c) PROVE WillAnnounce'
  BY <1>3 DEF Told, HearsShutdown, BroadcastAssumption
<1>4. ASSUME NEW c \in Clients, Connects(c) \/ LoopsOnce(c) PROVE WillAnnounce'
  BY <1>0, <1>4 DEF Connects, Accept, TurnedAway, Upgrade, Subscribes, WriteFails, ReadsCache,
     LoopsOnce
<1>5. CASE StartupStep
  BY <1>0, <1>5 DEF StartupStep, HooksInstalled, StartupBuilds, StartupFails, StartupStores, StartupSends
<1>6. ASSUME NEW t \in Tasks, Publish(t) PROVE WillAnnounce'
  BY <1>0, <1>6 DEF Publish
<1>7. CASE CacheStep \/ RefresherStep \/ DrainEnds \/ UNCHANGED vars
  BY <1>0, <1>7 DEF CacheStep, RefresherStep, DrainEnds, vars
<1>8. CASE AgentReports \/ Happens \/ LoopBuilds \/ Operate \/ Switches \/ SwitchEnds \/ Ensures
  BY <1>0, <1>8 DEF AgentReports, Happens, LoopBuilds, Operate, Switches, SwitchEnds, Ensures
<1>9. QED
  BY <1>1, <1>2, <1>3, <1>4, <1>5, <1>6, <1>7, <1>8 DEF Next

------------------------------------------------------------------------------
(* The theorems.                                                            *)

LEMMA IInvInit == ASSUME BroadcastAssumption, Init PROVE IInv
<1>1. TypeOK /\ Known
  BY TypeOKInit, KnownInit
<1>2. WarnedWillHear
  BY DEF Init, WarnedWillHear
<1>3. Admitted = {}
  BY DEF Init, Admitted, Listening, Upgraded
<1>4. PassivesBounded
  BY <1>3, FS_EmptySet DEF PassivesBounded, BroadcastAssumption
<1>5. QED
  BY <1>1, <1>2, <1>4 DEF IInv, Known

LEMMA IInvNext == ASSUME BroadcastAssumption, IInv, [Next]_vars PROVE IInv'
<1>1. TypeOK /\ Known
  BY DEF IInv, Known
<1>2. TypeOK' /\ Known'
  BY <1>1, TypeOKNext, KnownNext DEF Known
<1>3. ListenersChange
  BY <1>1, NextListeners
<1>4. WarnedWillHear' /\ PassivesBounded'
  BY <1>3, WarnedStep, PassivesStep DEF IInv
<1>5. QED
  BY <1>2, <1>4 DEF IInv, Known

THEOREM Invariance == Spec => []IInv
<1>1. Init => IInv
  BY BroadcastAssumption, IInvInit
<1>2. IInv /\ [Next]_vars => IInv'
  BY BroadcastAssumption, IInvNext
<1>3. QED
  BY <1>1, <1>2, PTL DEF Spec

(* The values the variables take: what is cached, held back or shown is     *)
(* always a snapshot.                                                       *)
THEOREM TypeCorrect == Spec => []TypeOK
<1>1. IInv => TypeOK
  BY DEF IInv
<1>2. QED
  BY <1>1, Invariance, PTL

(* Requests coalesce in a channel of one and snapshots are built and sent   *)
(* by four tasks in any order, yet once nothing is under way the newest     *)
(* snapshot sent shows everything that changed, unless the refresher's      *)
(* snapshot of it failed.                                                   *)
THEOREM NoChangeIsLost == Spec => []RefreshIsNotLost
<1>1. IInv => RefreshIsNotLost
  <2>1. SUFFICES ASSUME IInv, Quiet, ~announced PROVE newest = world \/ dropped = world
    BY DEF RefreshIsNotLost
  <2>2. /\ ~due /\ ~requested /\ refresher \notin {"settling", "building"}
        /\ \A t \in Tasks : built[t] = None
    BY <2>1 DEF Quiet
  <2>3. State(world) # None
    BY <2>1, BroadcastAssumption, StateIsState DEF IInv, TypeOK
  <2>4. QED
    BY <2>1, <2>2, <2>3 DEF IInv, SomebodyKnows
<1>2. QED
  BY <1>1, Invariance, PTL

(* Slow as the cache or a client may be and whatever their queues lost, once*)
(* nothing is on its way both have the snapshot sent last, if fewer         *)
(* activations followed it than the channel holds.                          *)
THEOREM LatestReachesEveryone == Spec => []EveryoneCatchesUp
<1>1. Init => CInv
  <2>1. SUFFICES ASSUME Init PROVE CInv
    OBVIOUS
  <2>2. \A c \in Clients : inbox[c] = <<>> /\ pending[c] = None
    BY <2>1 DEF Init, Receivers
  <2>3. QED
    BY <2>1, <2>2 DEF Init, CInv, NothingBeforeStartup, OutsideIsEmpty, WillAnnounce, OnItsWay
<1>2. IInv /\ CInv /\ [Next]_vars => CInv'
  BY BroadcastAssumption, OnItsWayNext, NothingBeforeNext, OutsideIsEmptyNext, WillAnnounceNext
     DEF IInv, CInv
<1>3. IInv /\ CInv => EveryoneCatchesUp
  <2>1. SUFFICES ASSUME IInv, CInv, Quiet, ~announced, sent # None, after < Capacity PROVE
           /\ latest = sent
           /\ \A c \in Clients \ late : /\ stage[c] # "waiting"
                                        /\ stage[c] = "open" => shown[c] = sent
    BY DEF EveryoneCatchesUp
  <2>2. OnItsWay
    BY <2>1 DEF CInv
  <2>3. ~Queued(<<>>)
    BY DEF EndsWith, Queued
  <2>4. Caching /\ inbox["cache"] = <<>>
    BY <2>1 DEF Quiet, CInv, WillAnnounce, Caching, Subscribed, Receivers
  <2>5. latest = sent
    BY <2>1, <2>2, <2>3, <2>4 DEF OnItsWay, UpToDate
  <2>6. ASSUME NEW c \in Clients \ late, Listening(c) PROVE inbox[c] = <<>> /\ pending[c] = None
    BY <2>1, <2>6, BroadcastAssumption DEF Quiet, Subscribed, Receivers, BroadcastAssumption
  <2>7. ASSUME NEW c \in Clients \ late
        PROVE  stage[c] # "waiting" /\ (stage[c] = "open" => shown[c] = sent)
    BY <2>1, <2>2, <2>3, <2>6, <2>7 DEF OnItsWay, Owes, UpToDate, Held, Listening, Upgraded
  <2>8. QED
    BY <2>5, <2>7
<1>4. QED
  BY <1>1, <1>2, <1>3, Invariance, PTL DEF Spec

(* Whoever was connected when a shutdown was asked for hears of it, however *)
(* many messages its queue lost.                                            *)
THEOREM ShutdownIsHeard == Spec => []QuitReachesEveryone
<1>1. IInv => QuitReachesEveryone
  BY DEF IInv, WarnedWillHear, QuitReachesEveryone, Quiet, Listening, Upgraded, TypeOK
<1>2. QED
  BY <1>1, Invariance, PTL

(* Passive clients never hold more than their share, so a sidebar is        *)
(* refused only once sidebars hold all the rest.                            *)
THEOREM SidebarsComeFirst == Spec => SidebarsAreAdmitted
<1>1. ASSUME IInv, [Next]_vars, NEW c \in Sidebars, stage[c] = "requesting", stage'[c] = "refused"
      PROVE  Cardinality(Admitted \cap Sidebars) >= WebsocketLimit - PassiveLimit
  <2>1. /\ c \in Clients /\ IsFiniteSet(Clients) /\ Sidebars \subseteq Clients
        /\ WebsocketLimit \in Nat /\ PassiveLimit \in Nat
    BY <1>1, BroadcastAssumption DEF BroadcastAssumption
  <2>2. ListenersChange /\ stage \in [Clients -> Stages]
    BY <1>1, BroadcastAssumption, NextListeners DEF IInv, TypeOK
  <2>3. ~MayAdmit(c)
    BY <1>1, <2>1, <2>2 DEF ListenersChange, Admits, Listening, Upgraded
  <2>4. IsFiniteSet(Admitted) /\ Cardinality(Admitted) \in Nat
    BY <2>1, FS_Subset, FS_CardinalityType DEF Admitted
  <2>5. Cardinality(Admitted) >= WebsocketLimit
    BY <1>1, <2>1, <2>3, <2>4 DEF MayAdmit
  <2>6. /\ Cardinality(Admitted \cap Sidebars) + Cardinality(Admitted \ Sidebars) = Cardinality(Admitted)
        /\ Cardinality(Admitted \cap Sidebars) \in Nat /\ Cardinality(Admitted \ Sidebars) \in Nat
    <3>1. IsFiniteSet(Admitted \cap Sidebars) /\ IsFiniteSet(Admitted \ Sidebars)
      BY <2>4, FS_Subset
    <3>2. Cardinality(Admitted \cap Sidebars) \in Nat /\ Cardinality(Admitted \ Sidebars) \in Nat
      BY <3>1, FS_CardinalityType
    <3>3. Cardinality(Admitted \ Sidebars) = Cardinality(Admitted) - Cardinality(Admitted \cap Sidebars)
      BY <2>4, FS_Difference
    <3>4. QED
      BY <2>4, <3>2, <3>3
  <2>7. Cardinality(Admitted \ Sidebars) <= PassiveLimit
    BY <1>1 DEF IInv, PassivesBounded
  <2>8. QED
    BY <2>1, <2>4, <2>5, <2>6, <2>7
<1>2. IInv /\ [Next]_vars =>
        [\A c \in Sidebars : stage[c] = "requesting" /\ stage'[c] = "refused" =>
            Cardinality(Admitted \cap Sidebars) >= WebsocketLimit - PassiveLimit]_vars
  BY <1>1
<1>3. QED
  BY <1>2, Invariance, PTL DEF SidebarsAreAdmitted, Spec

------------------------------------------------------------------------------
(* The limits.                                                              *)

(* What every limit is: HTTP keeps connections that no websocket takes, so  *)
(* hooks and probes get through, and sidebars keep at least half of the     *)
(* websockets, however many other clients connect.                          *)
WithinBounds(limits) ==
    /\ limits.total \in MinConcurrent..MaxConcurrent
    /\ limits.websockets + MinReserved <= limits.total
    /\ 1 <= limits.passive
    /\ 2 * limits.passive <= limits.websockets

LEMMA ClampBounds ==
    ASSUME NEW n \in Int, NEW low \in Int, NEW high \in Int, low <= high
    PROVE  /\ Clamp(n, low, high) \in low..high
           /\ low <= n => Clamp(n, low, high) <= n
BY DEF Clamp, AtLeast, AtMost

LEMMA HardCapBounds ==
    ASSUME NEW softLimit \in Nat
    PROVE  HardCap(softLimit) \in MinConcurrent..MaxConcurrent
<1>1. FdBudget(softLimit) \in Int
  BY DEF FdBudget, FdHeadroom
<1>2. MinConcurrent \in Int /\ MaxConcurrent \in Int /\ MinConcurrent <= MaxConcurrent
  BY DEF MinConcurrent, MaxConcurrent
<1>3. QED
  BY <1>1, <1>2, ClampBounds DEF HardCap

LEMMA LimitsBounds ==
    ASSUME NEW total \in MinConcurrent..MaxConcurrent
    PROVE  WithinBounds(LimitsOf(total)) /\ LimitsOf(total).total = total
<1> DEFINE reserved   == AtLeast(total \div 16, MinReserved)
           websockets == total - reserved
           passive    == AtMost(AtLeast(websockets \div 8, MinPassive), websockets \div 2)
<1>1. total \in Int /\ 16 <= total /\ total <= 2048
  BY DEF MinConcurrent, MaxConcurrent
<1>2. total \div 16 \in Int /\ 16 * (total \div 16) <= total
  BY <1>1, SMT
<1>3. reserved \in Int /\ 8 <= reserved /\ 2 * reserved <= total
  BY <1>1, <1>2 DEF AtLeast, MinReserved
<1>4. websockets \in Int /\ 8 <= websockets /\ websockets + 8 <= total
  BY <1>1, <1>3
<1> HIDE DEF websockets
<1>5. /\ websockets \div 8 \in Int
      /\ websockets \div 2 \in Int /\ 4 <= websockets \div 2
      /\ 2 * (websockets \div 2) <= websockets
  BY <1>4, SMT
<1>6. passive \in Int /\ 1 <= passive /\ passive <= websockets \div 2
  BY <1>5 DEF AtMost, AtLeast, MinPassive
<1>7. 2 * passive <= websockets
  BY <1>4, <1>5, <1>6
<1>8. LimitsOf(total) = [total |-> total, websockets |-> websockets, passive |-> passive]
  BY DEF LimitsOf, websockets
<1>9. QED
  BY <1>1, <1>4, <1>6, <1>7, <1>8 DEF WithinBounds, MinConcurrent, MaxConcurrent, MinReserved

(* Every soft limit of descriptors leaves limits within bounds, also one    *)
(* below the headroom, where the subtraction saturates.                     *)
THEOREM FdLimitIsBounded ==
    ASSUME NEW softLimit \in Nat
    PROVE  WithinBounds(FromFdLimit(softLimit))
BY HardCapBounds, LimitsBounds DEF FromFdLimit

(* So does every setting of OPENSESSIONS_MAX_CONNECTIONS, and none raises   *)
(* the bound that the descriptors set.                                      *)
THEOREM ConfiguredIsBounded ==
    ASSUME NEW softLimit \in Nat, NEW configured \in Nat
    PROVE  /\ WithinBounds(FromConfigured(softLimit, configured))
           /\ FromConfigured(softLimit, configured).total <= FromFdLimit(softLimit).total
<1> DEFINE total == Clamp(configured, MinConcurrent, HardCap(softLimit))
<1>1. HardCap(softLimit) \in MinConcurrent..MaxConcurrent
  BY HardCapBounds
<1>2. MinConcurrent \in Int /\ MaxConcurrent \in Int
  BY DEF MinConcurrent, MaxConcurrent
<1>3. HardCap(softLimit) \in Int /\ MinConcurrent <= HardCap(softLimit)
  BY <1>1, <1>2
<1>4. total \in MinConcurrent..HardCap(softLimit)
  BY <1>2, <1>3 DEF Clamp, AtLeast, AtMost
<1>5. total \in MinConcurrent..MaxConcurrent /\ total <= HardCap(softLimit)
  BY <1>1, <1>2, <1>4
<1> HIDE DEF total
<1>6. WithinBounds(LimitsOf(total)) /\ LimitsOf(total).total = total
  BY <1>5, LimitsBounds
<1>7. LimitsOf(HardCap(softLimit)).total = HardCap(softLimit)
  BY <1>1, LimitsBounds
<1>8. QED
  BY <1>5, <1>6, <1>7 DEF FromConfigured, FromFdLimit, total
=============================================================================
