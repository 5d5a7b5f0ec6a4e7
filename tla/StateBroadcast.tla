--------------------------- MODULE StateBroadcast ---------------------------
(***************************************************************************)
(* How what the server knows reaches its websockets: the startup snapshot, *)
(* the broadcast channel and its cache, coalesced refreshes, the loop of a *)
(* connection, the admission of websockets, and the shutdown announcement; *)
(* apps/server-rs/src/lib.rs.                                              *)
(*                                                                         *)
(* A snapshot is the number of changes it shows.  Every receiver of the    *)
(* channel keeps the newest Capacity messages it has not read; older ones  *)
(* are lost and reported to it as a lag.  Tasks interleave wherever they   *)
(* await.  Which command changes what is in SidebarClients.                *)
(***************************************************************************)
EXTENDS Naturals, Sequences, FiniteSets

CONSTANTS Clients,         \* websockets
          Sidebars,        \* those that connect as sidebars
          None,            \* no message
          Capacity,        \* of the broadcast channel: 16
          WebsocketLimit,  \* ConnectionLimits.websockets
          PassiveLimit,    \* ConnectionLimits.passive_websockets
          MaxEvents,       \* bound: changes and requests to shut down
          MaxFailures      \* bound: snapshots that fail

ASSUME BroadcastAssumption ==
    /\ Sidebars \subseteq Clients /\ IsFiniteSet(Clients)
    /\ {"cache", "refresher", "listener"} \cap Clients = {}
    /\ None \notin [type : {"state"}, shows : Nat]
    /\ Capacity \in Nat \ {0, 1}
    /\ {WebsocketLimit, PassiveLimit} \subseteq Nat /\ PassiveLimit < WebsocketLimit
    /\ {MaxEvents, MaxFailures} \subseteq Nat

VARIABLES
    world,      \* how many changes a snapshot built now would show
    due,        \* a background loop has noticed a change
    built,      \* snapshots built and not sent, per task that builds them
    lastState,  \* the snapshot built last
    startup,    \* the startup task, which holds the state-operation lock
    refresher,  \* the coalescing refresh task
    requested,  \* a refresh request waits in its channel of one
    switching,  \* a switch was announced, tmux has not switched yet
    inbox,      \* what each receiver of the channel has not read
    lagged,     \* receivers that lost messages since they last read
    latest,     \* the cached state new connections begin with
    stage,      \* where each connection is in its handler
    pending,    \* the snapshot a connection holds back until the next frame
    shown,      \* the snapshot a client shows
    signalled,  \* receivers of the shutdown channel that have not read it
    announced,  \* the shutdown was announced
    listener,   \* the accept loop
    sent, newest, late, warned, after, dropped,  \* history, see the properties
    budget

building  == <<built, lastState, startup, refresher, requested, switching>>
channel   == <<inbox, lagged>>
clients   == <<stage, pending, shown>>
stopping  == <<signalled, announced, listener>>
history   == <<sent, newest, late, warned, after, dropped>>
vars == <<world, due, building, channel, latest, clients, stopping, history, budget>>

State(n) == [type |-> "state", shows |-> n]
Activate == [type |-> "activate"]
Quit     == [type |-> "quit"]

Tasks     == {"operation", "loop", "refresher", "startup"}
Receivers == Clients \cup {"cache"}

(* Where the handler of a websocket may be; the others are outside it.      *)
Upgraded == {"reading", "waiting", "open"}
Stages   == Upgraded \cup {"away", "requesting", "upgrading", "refused", "ended"}

Listening(c)  == stage[c] \in Upgraded
Caching       == "cache" \notin signalled
Subscribed(r) == IF r = "cache" THEN Caching ELSE Listening(r)
Admitted      == {c \in Clients : stage[c] \in Upgraded \cup {"upgrading"}}

Spend(kind) == budget[kind] > 0 /\ budget' = [budget EXCEPT ![kind] = @ - 1]

Init ==
    /\ world = 0 /\ due = FALSE
    /\ built = [t \in Tasks |-> None]
    /\ lastState = None
    /\ startup = "hooks" /\ refresher = "waiting" /\ requested = FALSE
    /\ switching = FALSE
    /\ inbox = [r \in Receivers |-> <<>>] /\ lagged = {}
    /\ latest = None
    /\ stage = [c \in Clients |-> "away"]
    /\ pending = [c \in Clients |-> None] /\ shown = [c \in Clients |-> None]
    /\ signalled = {} /\ announced = FALSE /\ listener = "accepting"
    /\ sent = None /\ newest = 0 /\ late = {} /\ warned = {}
    /\ after = 0 /\ dropped = 0
    /\ budget = [event |-> MaxEvents, failure |-> MaxFailures]

------------------------------------------------------------------------------
(* The channel.                                                              *)

Builds(t, n) == built' = [built EXCEPT ![t] = State(n)] /\ lastState' = State(n)

Newest(messages) ==
    IF Len(messages) <= Capacity THEN messages
    ELSE SubSeq(messages, Len(messages) - Capacity + 1, Len(messages))

Send(messages) ==
    /\ inbox' = [r \in Receivers |->
                    IF Subscribed(r) THEN Newest(inbox[r] \o messages) ELSE inbox[r]]
    /\ lagged' = lagged \cup
           {r \in Receivers : Subscribed(r) /\ Len(inbox[r] \o messages) > Capacity}

SendState(n) ==
    /\ Send(<<State(n)>>)
    /\ sent' = State(n)
    /\ newest' = IF n > newest THEN n ELSE newest
    /\ late' = {} /\ after' = 0
    /\ UNCHANGED <<warned, dropped>>

(* A message that every connection forwards at once, and no snapshot.       *)
SendActivate ==
    /\ Send(<<Activate>>)
    /\ after' = after + 1
    /\ UNCHANGED <<sent, newest, late, warned, dropped>>

(* recv: a receiver that lagged hears of that first, and reads on.          *)
Hears(r)       == r \in lagged /\ lagged' = lagged \ {r} /\ UNCHANGED inbox
Reads(r, type) ==
    /\ r \notin lagged /\ inbox[r] # <<>> /\ Head(inbox[r]).type = type
    /\ inbox' = [inbox EXCEPT ![r] = Tail(@)]
    /\ UNCHANGED lagged

------------------------------------------------------------------------------
(* cache_latest_state.  Once the shutdown is in its queue it may return, and *)
(* stores no more here: new connections are refused before anyone could tell.*)

CacheLags == Caching /\ Hears("cache") /\ UNCHANGED latest

CacheStores == Caching /\ Reads("cache", "state") /\ latest' = Head(inbox["cache"])
CacheSkips  == /\ Caching
               /\ Reads("cache", "activate") \/ Reads("cache", "quit")
               /\ UNCHANGED latest

CacheStep ==
    /\ CacheLags \/ CacheStores \/ CacheSkips
    /\ UNCHANGED <<world, due, building, clients, stopping, history, budget>>

------------------------------------------------------------------------------
(* initialize_state_source: the task has the state-operation lock from      *)
(* before the first connection until the first snapshot is published.       *)

LockFree == startup \in {"running", "over"}

HooksInstalled ==
    /\ startup = "hooks"
    /\ startup' = IF announced THEN "over" ELSE "snapshot"
    /\ UNCHANGED <<world, due, built, lastState, refresher, requested, switching, channel, latest,
                   clients, stopping, history, budget>>

StartupBuilds ==
    /\ startup = "snapshot"
    /\ Builds("startup", world)
    /\ startup' = "built"
    /\ UNCHANGED <<world, due, refresher, requested, switching, channel, latest, clients,
                   stopping, history, budget>>

StartupFails ==
    /\ startup = "snapshot"
    /\ Spend("failure")
    /\ startup' = "running"
    /\ UNCHANGED <<world, due, built, lastState, refresher, requested, switching, channel, latest,
                   clients, stopping, history>>

StartupStores ==
    /\ startup = "built"
    /\ IF announced
       THEN /\ startup' = "over" /\ UNCHANGED latest
            /\ built' = [built EXCEPT !["startup"] = None]
       ELSE startup' = "stored" /\ latest' = built["startup"] /\ UNCHANGED built
    /\ UNCHANGED <<world, due, lastState, refresher, requested, switching, channel, clients, stopping,
                   history, budget>>

StartupSends ==
    /\ startup = "stored"
    /\ SendState(built["startup"].shows)
    /\ built' = [built EXCEPT !["startup"] = None]
    /\ startup' = "running"
    /\ UNCHANGED <<world, due, lastState, refresher, requested, switching, latest, clients, stopping, budget>>

StartupStep ==
    HooksInstalled \/ StartupBuilds \/ StartupFails \/ StartupStores \/ StartupSends

------------------------------------------------------------------------------
(* Changes of what a snapshot shows, and the tasks that publish them.       *)

(* An agent's report goes in without the state-operation lock and asks for  *)
(* a refresh; the channel of one refuses a second request.                  *)
AgentReports ==
    /\ listener # "over"
    /\ Spend("event")
    /\ world' = world + 1
    /\ requested' = TRUE
    /\ UNCHANGED <<due, built, lastState, startup, refresher, switching, channel, latest, clients,
                   stopping, history>>

(* An operation under the lock, of a client's command or a hook: it may     *)
(* change something, and its snapshot is published after the lock is free.  *)
Operate ==
    /\ listener # "over"
    /\ LockFree /\ built["operation"] = None
    /\ Spend("event")
    /\ world' = world + 1
    /\ Builds("operation", world + 1)
    /\ UNCHANGED <<due, startup, refresher, requested, switching, channel, latest,
                   clients, stopping, history>>

(* switch-session: everyone hears of it, then tmux switches, then a refresh.*)
Switches ==
    /\ listener # "over" /\ ~switching
    /\ Spend("event")
    /\ switching' = TRUE
    /\ SendActivate
    /\ UNCHANGED <<world, due, built, lastState, startup, refresher, requested, latest, clients,
                   stopping>>

SwitchEnds ==
    /\ switching /\ switching' = FALSE
    /\ world' = world + 1
    /\ requested' = TRUE
    /\ UNCHANGED <<due, built, lastState, startup, refresher, channel, latest, clients, stopping,
                   history, budget>>

(* /ensure-sidebar names a session: everyone hears that it is active, and   *)
(* no snapshot follows.  A sidebar that was spawned warms up, and when that *)
(* is over the lifecycle loop sees it.                                      *)
Ensures ==
    /\ listener # "over" /\ LockFree
    /\ Spend("event")
    /\ SendActivate
    /\ \/ UNCHANGED <<world, due>>
       \/ world' = world + 1 /\ due' = TRUE
    /\ UNCHANGED <<building, latest, clients, stopping>>

(* tmux or time changes something, and one of the background loops, which   *)
(* start after the first snapshot and need no lock, sees it.                *)
Happens ==
    /\ listener # "over"
    /\ Spend("event")
    /\ world' = world + 1
    /\ due' = TRUE
    /\ UNCHANGED <<building, channel, latest, clients, stopping, history>>

LoopBuilds ==
    /\ due /\ startup = "running" /\ built["loop"] = None
    /\ due' = FALSE
    /\ Builds("loop", world)
    /\ UNCHANGED <<world, startup, refresher, requested, switching, channel, latest, clients,
                   stopping, history, budget>>

(* run_coalesced_state_refreshes: wait a frame, drop the requests that came *)
(* in meanwhile, then build.                                                *)
RefresherStops ==
    /\ refresher = "waiting" /\ "refresher" \in signalled
    /\ refresher' = "stopped"
    /\ UNCHANGED <<built, lastState, startup, requested, switching>>

RefresherReceives ==
    /\ refresher = "waiting" /\ requested
    /\ refresher' = "settling" /\ requested' = FALSE
    /\ UNCHANGED <<built, lastState, startup, switching>>

RefresherDrains ==
    /\ refresher = "settling"
    /\ refresher' = "building" /\ requested' = FALSE
    /\ UNCHANGED <<built, lastState, startup, switching>>

RefresherBuilds ==
    /\ refresher = "building" /\ LockFree
    /\ refresher' = "built"
    /\ Builds("refresher", world)
    /\ UNCHANGED <<startup, requested, switching>>

RefresherFails ==
    /\ refresher = "building" /\ LockFree
    /\ Spend("failure")
    /\ refresher' = "waiting"
    /\ dropped' = world
    /\ UNCHANGED <<built, lastState, startup, requested, switching>>

RefresherStep ==
    /\ \/ /\ RefresherStops \/ RefresherReceives \/ RefresherDrains \/ RefresherBuilds
          /\ UNCHANGED <<dropped, budget>>
       \/ RefresherFails
    /\ UNCHANGED <<world, due, channel, latest, clients, stopping, sent, newest, late, warned,
                   after>>

Requests_DrainedLate(t) == requested /\ t # "refresher"
Requests(t) == requested

(* Whoever built a snapshot sends it.                                       *)
Publish(t) ==
    /\ t # "startup" /\ built[t] # None
    /\ SendState(built[t].shows)
    /\ built' = [built EXCEPT ![t] = None]
    /\ refresher' = IF t = "refresher" THEN "waiting" ELSE refresher
    /\ requested' = Requests(t)
    /\ UNCHANGED <<world, due, lastState, startup, switching, latest, clients, stopping, budget>>

------------------------------------------------------------------------------
(* handle_connection, for a websocket.                                       *)

Moves(c, from, to) == stage[c] = from /\ stage' = [stage EXCEPT ![c] = to]

Accept(c) ==
    /\ listener = "accepting"
    /\ Moves(c, "away", "requesting")
    /\ UNCHANGED <<channel, pending, shown, stopping, history>>

(* try_admit: whoever is no sidebar needs a passive slot as well.           *)
MayAdmit_EveryonePassive(c) ==
    /\ Cardinality(Admitted) < WebsocketLimit
    /\ Cardinality(Admitted \ Sidebars) < PassiveLimit

MayAdmit(c) ==
    /\ Cardinality(Admitted) < WebsocketLimit
    /\ c \notin Sidebars => Cardinality(Admitted \ Sidebars) < PassiveLimit

(* A server that is closing answers 503.                                     *)
TurnedAway(c) ==
    /\ announced
    /\ Moves(c, "requesting", "ended")
    /\ UNCHANGED <<channel, pending, shown, stopping, history>>

(* Nothing is awaited between the check for a shutdown and the permits.     *)
Upgrade(c) ==
    /\ ~announced
    /\ Moves(c, "requesting", IF MayAdmit(c) THEN "upgrading" ELSE "refused")
    /\ UNCHANGED <<channel, pending, shown, stopping, history>>

(* The response and the hello are written while the permits are held.  The  *)
(* client then subscribes to both channels before it reads the cache, so    *)
(* that startup, which stores before it sends, cannot slip in.              *)
Subscribes(c) ==
    /\ Moves(c, "upgrading", "reading")
    /\ UNCHANGED <<channel, pending, shown, stopping, history>>

WriteFails(c) ==
    /\ Moves(c, "upgrading", "ended")
    /\ UNCHANGED <<channel, pending, shown, stopping, history>>

ReadsCache(c) ==
    /\ Moves(c, "reading", IF latest = None THEN "waiting" ELSE "open")
    /\ shown' = [shown EXCEPT ![c] = latest]
    /\ late' = IF latest # sent /\ ~\E i \in DOMAIN inbox[c] : inbox[c][i].type = "state"
               THEN late \cup {c} ELSE late
    /\ UNCHANGED <<channel, pending, stopping, sent, newest, warned, after, dropped>>

(* The handler returns: its websocket and its receivers are dropped.        *)
Ends(c) ==
    /\ stage' = [stage EXCEPT ![c] = "ended"]
    /\ inbox' = [inbox EXCEPT ![c] = <<>>]
    /\ lagged' = lagged \ {c}
    /\ pending' = [pending EXCEPT ![c] = None]
    /\ shown' = [shown EXCEPT ![c] = None]

(* The loop while it waits for its first state, and afterwards; either way  *)
(* the shutdown comes before anything else.                                 *)
InLoop(c) == stage[c] \in {"waiting", "open"}
Looping(c) == InLoop(c) /\ c \notin signalled

HearsShutdown_LastOfAll(c) ==
    /\ InLoop(c) /\ c \in signalled /\ inbox[c] # <<>>
    /\ signalled' = signalled \ {c}
    /\ UNCHANGED <<stage, inbox, lagged, pending, shown>>

HearsShutdown(c) ==
    /\ InLoop(c) /\ c \in signalled
    /\ signalled' = signalled \ {c}
    /\ Ends(c)

ClientLags(c) ==
    /\ Looping(c) /\ Hears(c)
    /\ UNCHANGED <<stage, pending, shown>>

HearsQuit(c) ==
    /\ Looping(c) /\ c \notin lagged
    /\ inbox[c] # <<>> /\ Head(inbox[c]) = Quit
    /\ Ends(c)

Forwards(c) ==
    /\ Looping(c) /\ Reads(c, "activate")
    /\ UNCHANGED <<stage, pending, shown>>

BeginsWith(c) ==
    /\ Looping(c) /\ stage[c] = "waiting" /\ Reads(c, "state")
    /\ Moves(c, "waiting", "open")
    /\ shown' = [shown EXCEPT ![c] = Head(inbox[c])]
    /\ UNCHANGED pending

HoldsBack_FirstOnly(c) ==
    /\ Looping(c) /\ stage[c] = "open" /\ Reads(c, "state")
    /\ pending' = [pending EXCEPT ![c] = IF @ = None THEN Head(inbox[c]) ELSE @]
    /\ UNCHANGED <<stage, shown>>

HoldsBack(c) ==
    /\ Looping(c) /\ stage[c] = "open" /\ Reads(c, "state")
    /\ pending' = [pending EXCEPT ![c] = Head(inbox[c])]
    /\ UNCHANGED <<stage, shown>>

Flushes(c) ==
    /\ Looping(c) /\ pending[c] # None
    /\ shown' = [shown EXCEPT ![c] = pending[c]]
    /\ pending' = [pending EXCEPT ![c] = None]
    /\ UNCHANGED <<stage, channel>>

Leaves(c) ==
    /\ stage[c] = "open" /\ Looping(c)
    /\ Ends(c)

Connects(c) ==
    /\ Accept(c) \/ TurnedAway(c) \/ Upgrade(c) \/ Subscribes(c) \/ WriteFails(c) \/ ReadsCache(c)
    /\ UNCHANGED <<world, due, building, latest, budget>>

LoopsOnce(c) ==
    /\ \/ ClientLags(c) \/ HearsQuit(c) \/ Forwards(c) \/ BeginsWith(c)
       \/ HoldsBack(c) \/ Flushes(c) \/ Leaves(c)
    /\ UNCHANGED <<world, due, building, latest, stopping, history, budget>>

Told(c) ==
    /\ HearsShutdown(c)
    /\ UNCHANGED <<world, due, building, latest, announced, listener, history, budget>>

------------------------------------------------------------------------------
(* Shutting down.                                                            *)

SendShutdown ==
    LET connected == {c \in Clients : Listening(c)}
    IN  /\ signalled' = signalled \cup connected \cup {"cache", "refresher", "listener"}
        /\ warned' = warned \cup connected

(* announce_once: the last snapshot, which now says that the server closes, *)
(* and quit.                                                                 *)
Announce ==
    IF announced THEN UNCHANGED <<announced, channel, sent, newest, late>>
    ELSE /\ announced' = TRUE
         /\ IF lastState = None
            THEN Send(<<Quit>>) /\ UNCHANGED <<sent, newest>>
            ELSE /\ Send(<<lastState, Quit>>)
                 /\ sent' = lastState
                 /\ newest' = IF lastState.shows > newest THEN lastState.shows ELSE newest
         /\ late' = {}

(* request_shutdown: POST /quit, the command of a client, or an accept that *)
(* fails for good.                                                           *)
RequestShutdown ==
    /\ listener # "over"
    /\ Spend("event")
    /\ Announce
    /\ SendShutdown
    /\ UNCHANGED <<world, due, building, latest, clients, listener, after, dropped>>

(* A signal, the end of tmux: the accept loop hears it first.               *)
Signal ==
    /\ listener = "accepting"
    /\ Spend("event")
    /\ SendShutdown
    /\ UNCHANGED <<world, due, building, channel, latest, clients, announced,
                   listener, sent, newest, late, after, dropped>>

ListenerHears ==
    /\ listener = "accepting" /\ "listener" \in signalled
    /\ Announce
    /\ signalled' = signalled \ {"listener"}
    /\ listener' = "draining"
    /\ UNCHANGED <<world, due, building, latest, clients, warned, after, dropped, budget>>

DrainEnds ==
    /\ listener = "draining"
    /\ listener' = "over"
    /\ UNCHANGED <<world, due, building, channel, latest, clients, signalled,
                   announced, history, budget>>

------------------------------------------------------------------------------

Next ==
    \/ CacheStep \/ StartupStep \/ RefresherStep
    \/ AgentReports \/ Happens \/ LoopBuilds
    \/ Operate \/ Ensures \/ Switches \/ SwitchEnds
    \/ \E t \in Tasks : Publish(t)
    \/ \E c \in Clients : Connects(c) \/ LoopsOnce(c) \/ Told(c)
    \/ RequestShutdown \/ Signal \/ ListenerHears \/ DrainEnds

Spec == Init /\ [][Next]_vars

------------------------------------------------------------------------------
(* Properties.                                                               *)

States    == [type : {"state"}, shows : Nat]
Snapshots == States \cup {None}

(* The values the variables take: what is cached, held back or shown is     *)
(* always a snapshot, never a message of another kind.                      *)
TypeOK ==
    /\ world \in Nat /\ due \in BOOLEAN
    /\ built \in [Tasks -> Snapshots]
    /\ startup \in {"hooks", "snapshot", "built", "stored", "running", "over"}
    /\ refresher \in {"waiting", "settling", "building", "built", "stopped"}
    /\ requested \in BOOLEAN /\ switching \in BOOLEAN
    /\ inbox \in [Receivers -> Seq(States \cup {Activate, Quit})]
    /\ lagged \subseteq Receivers
    /\ {latest, sent, lastState} \subseteq Snapshots /\ newest \in Nat
    /\ stage \in [Clients -> Stages]
    /\ pending \in [Clients -> Snapshots] /\ shown \in [Clients -> Snapshots]
    /\ signalled \subseteq Receivers \cup {"refresher", "listener"}
    /\ announced \in BOOLEAN
    /\ listener \in {"accepting", "draining", "over"}
    /\ late \subseteq Clients /\ warned \subseteq Clients
    /\ after \in Nat /\ dropped \in Nat

(* Nothing is on its way: every message is read, every snapshot sent.       *)
Quiet ==
    /\ startup \in {"running", "over"} /\ ~due /\ ~requested /\ ~switching
    /\ \A t \in Tasks : built[t] = None
    /\ refresher \in {"waiting", "stopped"}
    /\ \A r \in Receivers : Subscribed(r) => r \notin lagged /\ inbox[r] = <<>>
    /\ \A c \in Clients :
           pending[c] = None /\ c \notin signalled /\ stage[c] \notin {"upgrading", "reading"}
    /\ "listener" \notin signalled

(* Slow as a client or the cache may be, and however many messages either   *)
(* lost, in the end both have the snapshot sent last, and nobody who came   *)
(* during startup still waits for one: a queue that overflows loses its     *)
(* oldest messages.  Only a channel full of activations that no snapshot    *)
(* follows (Ensures) can push the last one out, and nothing repeats it.     *)
(* (late: who subscribed after that snapshot was sent and read the cache    *)
(* before it was stored.)                                                   *)
EveryoneCatchesUp ==
    Quiet /\ ~announced /\ sent # None /\ after < Capacity =>
        /\ latest = sent
        /\ \A c \in Clients \ late :
              /\ stage[c] # "waiting"
              /\ stage[c] = "open" => shown[c] = sent

(* Requests coalesce, but whatever changed, some snapshot sent shows it,    *)
(* unless the one snapshot that was to show it failed (dropped).            *)
RefreshIsNotLost == Quiet /\ ~announced => newest = world \/ dropped = world

(* Whoever was connected when a shutdown was asked for is told, also when   *)
(* the announcement was pushed out of its queue.  (docs/explanation/        *)
(* sidebar-behavior.md: clients receive the quit frame.)                    *)
QuitReachesEveryone ==
    Quiet /\ announced => \A c \in warned : stage[c] \notin {"waiting", "open"}

(* Passive clients never crowd out sidebars (WebsocketCapacity): a sidebar  *)
(* is refused only once sidebars hold all but the passive share.            *)
SidebarsAreAdmitted ==
    [][\A c \in Sidebars : stage[c] = "requesting" /\ stage'[c] = "refused" =>
          Cardinality(Admitted \cap Sidebars) >= WebsocketLimit - PassiveLimit]_vars
=============================================================================
