------------------------ MODULE SidebarClientsProofs ------------------------
(***************************************************************************)
(* What holds of every number of sidebars, sessions and keys: once nothing *)
(* is on its way, every focus is displayed, every switch is settled and    *)
(* every setting is agreed on.                                             *)
(*                                                                         *)
(* The argument follows each promise along its way.  A focus that is not   *)
(* good has a command or a snapshot coming that puts it right; a pending   *)
(* switch is asked for, announced, made or about to be shown; a request    *)
(* whose intent is open is held back, sent or acknowledged, and an         *)
(* acknowledgement arrives before every snapshot of its revision.          *)
(* Each of them holds of one sidebar and its connection, so most steps are *)
(* shown to leave it alone (Aside, Bystander) or to move it along (Moved). *)
(***************************************************************************)
EXTENDS SidebarClients, SequenceTheorems, TLAPS

(* A sequence, whatever it holds, and what it holds.                        *)
IsSeq(s) == s \in Seq(ToSet(s))
Has(s, types) == \E m \in ToSet(s) : m.type \in types

(* The fields of an app that the argument reads, and a rename dialog whose  *)
(* draft has changed holds what was typed.                                  *)
AppFields == {"sessions", "filter", "collapsed", "focus", "surrogate", "local", "identity",
              "pending", "modal", "panel", "agentIdx", "lastActivated", "settings",
              "intents", "revision", "nextRequest", "commands", "quitting", "pane"}

Dialogs == {"rename", "theme", "width", "kill", "quit", "windows"}

SoundModal(m) ==
    /\ "kind" \in DOMAIN m /\ (m = NoModal \/ m.kind \in Dialogs)
    /\ m.kind = "rename" => /\ {"name", "draft"} \subseteq DOMAIN m
                            /\ m.draft # m.name => m.draft # None

Sound(a) ==
    /\ AppFields \subseteq DOMAIN a
    /\ SettingTypes = DOMAIN a.settings /\ SettingTypes = DOMAIN a.intents
    /\ a.local # None /\ a.revision \in Nat
    /\ SoundModal(a.modal)

(* A focus that is displayed, or on the sidebar's own session where that is *)
(* not displayed.                                                           *)
GoodFocus(a) ==
    \/ FocusExists(a, a.focus)
    \/ a.focus = SessionFocus(a.local) /\ VisibleFocus(a, a.local) = NoFocus

(* What a message promises: names that sidebars are identified by exist,    *)
(* revisions are of the past, and the last one has one value of settings.   *)
Revised == {"state", "applied"}

Honest(m, s) ==
    /\ m.type = "rename" => m.value # None
    /\ m.type \in {"identify-pane", "your-session"} => m.name # None
    /\ m.type = "re-identify" => m.new # None
    /\ m.type \in Revised => m.revision \in Nat /\ m.revision <= s.revision
    /\ m.type = "state" /\ m.revision = s.revision => m.settings = s.settings

AllHonest(q, s) == IsSeq(q) /\ \A m \in ToSet(q) : Honest(m, s)

ServerMessages == {"state", "your-session", "activate", "applied", "windows", "re-identify"}

(* A connection q with the width command h its sidebar holds back.          *)
ConnFields == {"up", "queue", "pending", "down", "out", "switching", "again", "renaming"}

Connected(q, h, s) ==
    /\ ConnFields \subseteq DOMAIN q
    /\ AllHonest(q.up, s) /\ AllHonest(q.queue, s) /\ AllHonest(q.pending, s)
    /\ AllHonest(q.down, s) /\ AllHonest(q.out, s)
    /\ \A m \in ToSet(q.queue) : m.type \in ServerMessages \ {"applied"}
    /\ \A m \in ToSet(q.pending) : m.type = "state"
    /\ \A m \in ToSet(q.down) : m.type \in ServerMessages
    /\ \A m \in ToSet(q.out) : m.type \in ServerMessages
    /\ q.renaming # <<>> => q.renaming[2] # None /\ q.out = <<>> /\ ~q.again
    /\ h = NoCommand \/ h.type = "width"

ServerFields == {"list", "collapsed", "filter", "settings", "revision"}

SoundServer(s) ==
    /\ ServerFields \subseteq DOMAIN s /\ s.revision \in Nat
    /\ SettingTypes = DOMAIN s.settings

SoundSidebar(c) ==
    /\ Sound(app[c]) /\ app[c].commands = <<>>
    /\ {"current", "revision"} \subseteq DOMAIN seen[c]
    /\ Connected(conn[c], held[c], server)

SoundTask(t) ==
    /\ AllHonest(built[t], server)
    /\ \A m \in ToSet(built[t]) : m.type = "state"

Functions ==
    /\ app = [c \in Sidebars |-> app[c]] /\ conn = [c \in Sidebars |-> conn[c]]
    /\ home = [c \in Sidebars |-> home[c]] /\ held = [c \in Sidebars |-> held[c]]
    /\ seen = [c \in Sidebars |-> seen[c]] /\ built = [t \in Tasks |-> built[t]]

Typed ==
    /\ Functions /\ SoundServer(server) /\ due \subseteq Tasks
    /\ \A c \in Sidebars : SoundSidebar(c)
    /\ \A t \in Tasks : SoundTask(t)

(* A snapshot on its way to a sidebar.                                      *)
Coming(q) == Has(q.queue, {"state"}) \/ q.pending # <<>> \/ Has(q.down, {"state"})

(* Until the focus is good again a snapshot comes, or a command it answers. *)
FocusFollows(a, q) ==
    \/ GoodFocus(a)
    \/ Coming(q) \/ Has(q.out, {"state"})
    \/ Has(q.up, {"set-filter", "toggle-group"})

(* Until a pending switch is settled it is announced, made and shown.       *)
Settled(a, sn) ==
    a.pending # None =>
        /\ Known(a, a.pending)
        /\ sn.current = a.pending => a.pending = a.local

Asks(up) == \E m \in ToSet(up) : m.type = "switch-session" /\ m.name # None

SwitchFollows(a, q, sn) ==
    Settled(a, sn) \/ Asks(q.up) \/ q.switching # None \/ Coming(q)

Refreshing == "refresher" \in due \/ built["refresher"] # <<>>

(* A request whose intent is open is still on its way, or acknowledged.     *)
Asked(q, h, t, id) ==
    \/ h.type = t /\ h.id = id
    \/ \E m \in ToSet(q.up) : m.type = t /\ m.id = id

Acks(s) == {m \in ToSet(s) : m.type = "applied"}
Answered(q, id) == \E m \in Acks(q.out) \cup Acks(q.down) : m.id = id

Waits(a, t) == a.intents[t] # <<>>

IntentsFollow(a, q, h) ==
    \A t \in SettingTypes : Waits(a, t) =>
        Asked(q, h, t, a.intents[t][1]) \/ Answered(q, a.intents[t][1])

(* An acknowledgement arrives before every snapshot of its revision.        *)
Ordered(s) ==
    \A i, j \in 1 .. Len(s) :
        i < j /\ s[i].type = "state" /\ s[j].type = "applied" => s[i].revision < s[j].revision

AcksLead(a, q, sn, s) ==
    /\ sn.revision \in Nat /\ sn.revision <= a.revision /\ a.revision <= s.revision
    /\ \A m \in Acks(q.out) \cup Acks(q.down) : sn.revision < m.revision
    /\ \A m \in Acks(q.out), n \in ToSet(q.down) :
           n.type = "state" => n.revision < m.revision
    /\ Ordered(q.down)

(* Who has read the last revision shows its settings or has asked anew.     *)
Current(a, q, h, sn, s) ==
    sn.revision = s.revision =>
        \A t \in SettingTypes :
            IF Waits(a, t) THEN Asked(q, h, t, a.intents[t][1])
            ELSE t # "theme" => a.settings[t] = s.settings[t]

Agrees(a, q, h, sn, s) ==
    IntentsFollow(a, q, h) /\ AcksLead(a, q, sn, s) /\ Current(a, q, h, sn, s)

Follows(c) ==
    /\ FocusFollows(app[c], conn[c])
    /\ SwitchFollows(app[c], conn[c], seen[c]) \/ Refreshing
    /\ Agrees(app[c], conn[c], held[c], seen[c], server)

IInv == Typed /\ \A c \in Alive : Follows(c)

------------------------------------------------------------------------------
(* Sequences.                                                                *)

LEMMA SeqIsSeq ==
    ASSUME NEW S, NEW s \in Seq(S)
    PROVE  IsSeq(s)
<1>1. Len(s) \in Nat /\ s \in [1 .. Len(s) -> S] /\ DOMAIN s = 1 .. Len(s)
  BY LenProperties
<1>2. s \in [1 .. Len(s) -> ToSet(s)]
  BY <1>1 DEF ToSet
<1>3. QED
  BY <1>1, <1>2 DEF IsSeq

LEMMA SeqFacts ==
    ASSUME NEW s, IsSeq(s)
    PROVE  /\ Len(s) \in Nat /\ DOMAIN s = 1 .. Len(s)
           /\ ToSet(s) = {s[i] : i \in 1 .. Len(s)}
           /\ s # <<>> => Len(s) > 0 /\ Head(s) \in ToSet(s)
BY LenProperties, EmptySeq, HeadTailProperties DEF IsSeq, ToSet

LEMMA SeqSets ==
    ASSUME NEW s, IsSeq(s), NEW t, IsSeq(t)
    PROVE  s \in Seq(ToSet(s) \cup ToSet(t)) /\ t \in Seq(ToSet(s) \cup ToSet(t))
<1>1. s \in Seq(ToSet(s)) /\ t \in Seq(ToSet(t))
  BY DEF IsSeq
<1>2. ToSet(s) \subseteq ToSet(s) \cup ToSet(t) /\ ToSet(t) \subseteq ToSet(s) \cup ToSet(t)
  OBVIOUS
<1>3. QED
  BY <1>1, <1>2, SeqMonotonic

LEMMA SeqNone == IsSeq(<<>>) /\ ToSet(<<>>) = {}
<1>1. <<>> \in Seq({}) /\ Len(<<>>) = 0
  BY EmptySeq
<1>2. IsSeq(<<>>)
  BY <1>1, SeqIsSeq
<1>3. ToSet(<<>>) = {<<>>[i] : i \in 1 .. Len(<<>>)}
  BY <1>2, SeqFacts
<1>4. QED
  BY <1>1, <1>2, <1>3

LEMMA SeqOne == \A x : IsSeq(<<x>>) /\ ToSet(<<x>>) = {x} /\ Len(<<x>>) = 1
                       /\ <<x>> # <<>> /\ Head(<<x>>) = x
<1> SUFFICES ASSUME NEW x PROVE IsSeq(<<x>>) /\ ToSet(<<x>>) = {x} /\ Len(<<x>>) = 1
                       /\ <<x>> # <<>> /\ Head(<<x>>) = x
  OBVIOUS
<1>1. <<x>> \in Seq({x}) /\ Len(<<x>>) = 1 /\ DOMAIN <<x>> = 1 .. 1 /\ <<x>>[1] = x
  OBVIOUS
<1>2. ToSet(<<x>>) = {x}
  BY <1>1 DEF ToSet
<1>3. IsSeq(<<x>>)
  BY <1>1, SeqIsSeq
<1>4. <<x>> # <<>>
  BY <1>1, EmptySeq
<1>5. Head(<<x>>) = x
  OBVIOUS
<1>6. QED
  BY <1>1, <1>2, <1>3, <1>4, <1>5

LEMMA SeqAppend ==
    ASSUME NEW s, IsSeq(s), NEW x
    PROVE  /\ IsSeq(Append(s, x)) /\ ToSet(Append(s, x)) = ToSet(s) \cup {x}
           /\ Append(s, x) # <<>> /\ Len(Append(s, x)) = Len(s) + 1
           /\ \A i \in 1 .. Len(s) : Append(s, x)[i] = s[i]
           /\ Append(s, x)[Len(s) + 1] = x
<1> DEFINE S == ToSet(s) \cup {x}
           a == Append(s, x)
<1>1. s \in Seq(S)
  <2>1. s \in Seq(ToSet(s)) /\ ToSet(s) \subseteq S
    BY DEF IsSeq
  <2>2. QED
    BY <2>1, SeqMonotonic
<1>2. /\ a \in Seq(S) /\ a # <<>> /\ Len(a) = Len(s) + 1
      /\ \A i \in 1 .. Len(s) : a[i] = s[i]
      /\ a[Len(s) + 1] = x
  BY <1>1, AppendProperties
<1>3. IsSeq(a)
  BY <1>2, SeqIsSeq
<1>4. Len(s) \in Nat /\ ToSet(s) = {s[i] : i \in 1 .. Len(s)} /\ ToSet(a) = {a[i] : i \in 1 .. Len(a)}
  BY <1>3, SeqFacts
<1>5. ToSet(a) = ToSet(s) \cup {x}
  <2> HIDE DEF a
  <2>1. \A i \in 1 .. Len(a) : i \in 1 .. Len(s) \/ i = Len(s) + 1
    BY <1>2, <1>4
  <2>2. \A i \in 1 .. Len(s) : i \in 1 .. Len(a)
    BY <1>2, <1>4
  <2>3. Len(s) + 1 \in 1 .. Len(a)
    BY <1>2, <1>4
  <2>4. QED
    BY <1>2, <1>4, <2>1, <2>2, <2>3
<1>6. QED
  BY <1>2, <1>3, <1>5

LEMMA SeqConcat ==
    ASSUME NEW s, IsSeq(s), NEW t, IsSeq(t)
    PROVE  /\ IsSeq(s \o t) /\ ToSet(s \o t) = ToSet(s) \cup ToSet(t)
           /\ Len(s \o t) = Len(s) + Len(t)
           /\ \A i \in 1 .. Len(s) + Len(t) :
                 (s \o t)[i] = IF i <= Len(s) THEN s[i] ELSE t[i - Len(s)]
<1> DEFINE S == ToSet(s) \cup ToSet(t)
           a == s \o t
<1>1. s \in Seq(S) /\ t \in Seq(S)
  BY SeqSets
<1>2. /\ a \in Seq(S) /\ Len(a) = Len(s) + Len(t)
      /\ \A i \in 1 .. Len(s) + Len(t) : a[i] = IF i <= Len(s) THEN s[i] ELSE t[i - Len(s)]
  BY <1>1, ConcatProperties
<1>3. IsSeq(a)
  BY <1>2, SeqIsSeq
<1>4. /\ Len(s) \in Nat /\ Len(t) \in Nat
      /\ ToSet(s) = {s[i] : i \in 1 .. Len(s)} /\ ToSet(t) = {t[i] : i \in 1 .. Len(t)}
      /\ ToSet(a) = {a[i] : i \in 1 .. Len(a)}
  BY <1>3, SeqFacts
<1>5. ToSet(a) = ToSet(s) \cup ToSet(t)
  <2> HIDE DEF a
  <2>1. ASSUME NEW i \in 1 .. Len(a) PROVE a[i] \in ToSet(s) \cup ToSet(t)
    <3>1. CASE i <= Len(s)
      BY <1>2, <1>4, <3>1
    <3>2. CASE i > Len(s)
      <4>1. i - Len(s) \in 1 .. Len(t)
        BY <1>2, <1>4, <3>2
      <4>2. QED
        BY <1>2, <1>4, <3>2, <4>1
    <3>3. QED
      BY <3>1, <3>2, <1>2, <1>4
  <2>2. ASSUME NEW i \in 1 .. Len(s) PROVE s[i] \in ToSet(a)
    BY <1>2, <1>4
  <2>3. ASSUME NEW i \in 1 .. Len(t) PROVE t[i] \in ToSet(a)
    <3>1. i + Len(s) \in 1 .. Len(a) /\ ~(i + Len(s) <= Len(s)) /\ (i + Len(s)) - Len(s) = i
      BY <1>2, <1>4
    <3>2. a[i + Len(s)] = t[i]
      BY <1>2, <3>1
    <3>3. QED
      BY <1>4, <3>1, <3>2
  <2>4. QED
    BY <1>4, <2>1, <2>2, <2>3
<1>6. QED
  BY <1>2, <1>3, <1>5

LEMMA SeqTail ==
    ASSUME NEW s, IsSeq(s), s # <<>>
    PROVE  /\ IsSeq(Tail(s)) /\ ToSet(s) = {Head(s)} \cup ToSet(Tail(s))
           /\ Len(Tail(s)) = Len(s) - 1 /\ s[1] = Head(s)
           /\ \A i \in 1 .. Len(Tail(s)) : Tail(s)[i] = s[i + 1]
<1> DEFINE S == ToSet(s)
           a == Tail(s)
<1>1. s \in Seq(S)
  BY DEF IsSeq
<1>2. /\ a \in Seq(S) /\ Len(a) = Len(s) - 1
      /\ \A i \in 1 .. Len(a) : a[i] = s[i + 1]
  BY <1>1, HeadTailProperties
<1>3. IsSeq(a)
  BY <1>2, SeqIsSeq
<1>4. /\ Len(s) \in Nat /\ Len(s) > 0 /\ Len(a) \in Nat
      /\ ToSet(s) = {s[i] : i \in 1 .. Len(s)} /\ ToSet(a) = {a[i] : i \in 1 .. Len(a)}
  BY <1>3, SeqFacts
<1>5. Head(s) = s[1]
  BY <1>1
<1>6. ToSet(s) = {Head(s)} \cup ToSet(a)
  <2> HIDE DEF a
  <2>1. ASSUME NEW i \in 1 .. Len(s), i # 1 PROVE s[i] \in ToSet(a)
    <3>1. i - 1 \in 1 .. Len(a) /\ (i - 1) + 1 = i
      BY <1>2, <1>4, <2>1
    <3>2. a[i - 1] = s[i]
      BY <1>2, <3>1
    <3>3. QED
      BY <1>4, <3>1, <3>2
  <2>2. ASSUME NEW i \in 1 .. Len(a) PROVE a[i] \in ToSet(s)
    <3>1. i + 1 \in 1 .. Len(s)
      BY <1>2, <1>4
    <3>2. QED
      BY <1>2, <1>4, <3>1
  <2>3. s[1] \in ToSet(s)
    BY <1>4
  <2>4. QED
    BY <1>4, <1>5, <2>1, <2>2, <2>3
<1>7. QED
  BY <1>2, <1>3, <1>5, <1>6

LEMMA SeqHead ==
    ASSUME NEW s, IsSeq(s), s # <<>>, NEW x
    PROVE  /\ IsSeq([s EXCEPT ![1] = x])
           /\ ToSet([s EXCEPT ![1] = x]) = {x} \cup ToSet(Tail(s))
<1> DEFINE S == ToSet(s) \cup {x}
           a == [s EXCEPT ![1] = x]
<1>1. s \in Seq(S)
  <2>1. s \in Seq(ToSet(s)) /\ ToSet(s) \subseteq S
    BY DEF IsSeq
  <2>2. QED
    BY <2>1, SeqMonotonic
<1>2. Len(s) \in Nat /\ Len(s) > 0 /\ 1 \in 1 .. Len(s)
  BY SeqFacts
<1>3. /\ a \in Seq(S) /\ Len(a) = Len(s)
      /\ \A j \in 1 .. Len(s) : a[j] = IF j = 1 THEN x ELSE s[j]
  BY <1>1, <1>2, ExceptSeq
<1>4. IsSeq(a)
  BY <1>3, SeqIsSeq
<1>5. /\ IsSeq(Tail(s)) /\ Len(Tail(s)) = Len(s) - 1
      /\ \A i \in 1 .. Len(Tail(s)) : Tail(s)[i] = s[i + 1]
  BY SeqTail
<1>6. ToSet(a) = {a[i] : i \in 1 .. Len(s)} /\ ToSet(Tail(s)) = {Tail(s)[i] : i \in 1 .. Len(Tail(s))}
  BY <1>3, <1>4, <1>5, SeqFacts
<1>7. ToSet(a) = {x} \cup ToSet(Tail(s))
  <2> HIDE DEF a
  <2>1. ASSUME NEW i \in 1 .. Len(s), i # 1 PROVE a[i] \in ToSet(Tail(s))
    <3>1. i - 1 \in 1 .. Len(Tail(s)) /\ (i - 1) + 1 = i
      BY <1>2, <1>5, <2>1
    <3>2. Tail(s)[i - 1] = s[i] /\ a[i] = s[i]
      BY <1>3, <1>5, <2>1, <3>1
    <3>3. QED
      BY <1>6, <3>1, <3>2
  <2>2. ASSUME NEW i \in 1 .. Len(Tail(s)) PROVE Tail(s)[i] \in ToSet(a)
    <3>1. i + 1 \in 1 .. Len(s) /\ i + 1 # 1
      BY <1>2, <1>5
    <3>2. Tail(s)[i] = a[i + 1]
      BY <1>3, <1>5, <3>1
    <3>3. QED
      BY <1>6, <3>1, <3>2
  <2>3. a[1] = x /\ a[1] \in ToSet(a)
    BY <1>2, <1>3, <1>6
  <2>4. QED
    BY <1>6, <2>1, <2>2, <2>3
<1>8. QED
  BY <1>4, <1>7

(* The order of snapshots and acknowledgements in a sequence.               *)
LEMMA OrderedTail ==
    ASSUME NEW s, IsSeq(s), s # <<>>, Ordered(s)
    PROVE  /\ Ordered(Tail(s))
           /\ Head(s).type = "state" =>
                \A m \in Acks(Tail(s)) : Head(s).revision < m.revision
<1>1. /\ IsSeq(Tail(s)) /\ Len(Tail(s)) = Len(s) - 1 /\ s[1] = Head(s)
      /\ \A i \in 1 .. Len(Tail(s)) : Tail(s)[i] = s[i + 1]
  BY SeqTail
<1>2. Len(s) \in Nat /\ Len(Tail(s)) \in Nat /\ ToSet(Tail(s)) = {Tail(s)[i] : i \in 1 .. Len(Tail(s))}
  BY <1>1, SeqFacts
<1>3. \A i \in 1 .. Len(Tail(s)) : i + 1 \in 1 .. Len(s) /\ 1 < i + 1 /\ 1 \in 1 .. Len(s)
  BY <1>1, <1>2
<1>4. Ordered(Tail(s))
  <2> SUFFICES ASSUME NEW i \in 1 .. Len(Tail(s)), NEW j \in 1 .. Len(Tail(s)), i < j,
                      Tail(s)[i].type = "state", Tail(s)[j].type = "applied"
               PROVE  Tail(s)[i].revision < Tail(s)[j].revision
    BY DEF Ordered
  <2>1. i + 1 < j + 1
    OBVIOUS
  <2>2. QED
    BY <1>1, <1>3, <2>1 DEF Ordered
<1>5. ASSUME Head(s).type = "state", NEW m \in Acks(Tail(s))
      PROVE  Head(s).revision < m.revision
  <2>1. PICK i \in 1 .. Len(Tail(s)) : m = Tail(s)[i]
    BY <1>2, <1>5 DEF Acks
  <2>2. m = s[i + 1] /\ m.type = "applied"
    BY <1>1, <1>5, <2>1 DEF Acks
  <2>3. QED
    BY <1>1, <1>3, <1>5, <2>2 DEF Ordered
<1>6. QED
  BY <1>4, <1>5

LEMMA OrderedAppend ==
    ASSUME NEW s, IsSeq(s), Ordered(s), NEW x,
           x.type = "applied" => \A m \in ToSet(s) : m.type = "state" => m.revision < x.revision
    PROVE  Ordered(Append(s, x))
<1>1. /\ Len(Append(s, x)) = Len(s) + 1
      /\ \A i \in 1 .. Len(s) : Append(s, x)[i] = s[i]
      /\ Append(s, x)[Len(s) + 1] = x
  BY SeqAppend
<1>2. Len(s) \in Nat /\ ToSet(s) = {s[i] : i \in 1 .. Len(s)}
  BY SeqFacts
<1> SUFFICES ASSUME NEW i \in 1 .. Len(s) + 1, NEW j \in 1 .. Len(s) + 1, i < j,
                    Append(s, x)[i].type = "state", Append(s, x)[j].type = "applied"
             PROVE  Append(s, x)[i].revision < Append(s, x)[j].revision
  BY <1>1 DEF Ordered
<1>3. i \in 1 .. Len(s)
  BY <1>2
<1>4. CASE j \in 1 .. Len(s)
  BY <1>1, <1>3, <1>4 DEF Ordered
<1>5. CASE j = Len(s) + 1
  BY <1>1, <1>2, <1>3, <1>5
<1>6. QED
  BY <1>2, <1>4, <1>5

LEMMA OrderedConcat ==
    ASSUME NEW s, IsSeq(s), Ordered(s), NEW t, IsSeq(t), \A m \in ToSet(t) : m.type # "applied"
    PROVE  Ordered(s \o t)
<1>1. /\ Len(s \o t) = Len(s) + Len(t)
      /\ \A i \in 1 .. Len(s) + Len(t) :
                 (s \o t)[i] = IF i <= Len(s) THEN s[i] ELSE t[i - Len(s)]
  BY SeqConcat
<1>2. Len(s) \in Nat /\ Len(t) \in Nat /\ ToSet(t) = {t[i] : i \in 1 .. Len(t)}
  BY SeqFacts
<1> SUFFICES ASSUME NEW i \in 1 .. Len(s) + Len(t), NEW j \in 1 .. Len(s) + Len(t), i < j,
                    (s \o t)[i].type = "state", (s \o t)[j].type = "applied"
             PROVE  (s \o t)[i].revision < (s \o t)[j].revision
  BY <1>1 DEF Ordered
<1>3. CASE j <= Len(s)
  <2>1. i \in 1 .. Len(s) /\ j \in 1 .. Len(s) /\ i <= Len(s)
    BY <1>2, <1>3
  <2>2. QED
    BY <1>1, <1>3, <2>1 DEF Ordered
<1>4. CASE j > Len(s)
  <2>1. j - Len(s) \in 1 .. Len(t) /\ ~(j <= Len(s))
    BY <1>2, <1>4
  <2>2. t[j - Len(s)].type # "applied"
    BY <1>2, <2>1
  <2>3. QED
    BY <1>1, <2>1, <2>2
<1>5. QED
  BY <1>2, <1>3, <1>4

------------------------------------------------------------------------------
(* What the operations of an app leave alone.                                *)

Alike(a, b, fields) == DOMAIN b = DOMAIN a /\ \A x \in AppFields \ fields : b[x] = a[x]
Dressing == {"focus", "surrogate", "panel", "agentIdx"}

(* The list, and where the focus is on it, depend on few fields.            *)
LEMMA ListFacts ==
    ASSUME NEW a, NEW b, b.sessions = a.sessions, b.filter = a.filter, b.collapsed = a.collapsed
    PROVE  /\ \A f : FocusExists(b, f) <=> FocusExists(a, f)
           /\ \A n : VisibleFocus(b, n) = VisibleFocus(a, n) /\ FocusFor(b, n) = FocusFor(a, n)
           /\ \A n : Known(b, n) <=> Known(a, n)
           /\ b.focus = a.focus /\ b.local = a.local => (GoodFocus(b) <=> GoodFocus(a))
<1>1. \A f : FocusExists(b, f) <=> FocusExists(a, f)
  BY DEF FocusExists, Entries
<1>2. \A n : Known(b, n) <=> Known(a, n)
  BY DEF Known
<1>3. \A n : VisibleFocus(b, n) = VisibleFocus(a, n)
  BY <1>1, <1>2 DEF VisibleFocus, DataOf
<1>4. QED
  BY <1>1, <1>2, <1>3 DEF FocusFor, GoodFocus

LEMMA VisibleExists ==
    ASSUME NEW a, NEW n, VisibleFocus(a, n) # NoFocus
    PROVE  FocusExists(a, VisibleFocus(a, n))
BY DEF VisibleFocus

LEMMA SetFocusFacts ==
    ASSUME NEW a, AppFields \subseteq DOMAIN a, NEW n, NEW f
    PROVE  Alike(a, SetFocusIfChanged(a, n, f), Dressing) /\ SetFocusIfChanged(a, n, f).focus = f
BY DEF SetFocusIfChanged, SetFocusForSession, SetFocus, AppFields, Alike, Dressing

(* Put on a row that is displayed, or on its own session, a focus is good.  *)
LEMMA HomeFocus ==
    ASSUME NEW a, AppFields \subseteq DOMAIN a
    PROVE  GoodFocus(SetFocusIfChanged(a, a.local, FocusFor(a, a.local)))
<1> DEFINE f == FocusFor(a, a.local)
           b == SetFocusIfChanged(a, a.local, f)
<1>1. Alike(a, b, Dressing) /\ b.focus = f
  BY SetFocusFacts
<1>2. /\ b.sessions = a.sessions /\ b.filter = a.filter /\ b.collapsed = a.collapsed
      /\ b.local = a.local
  BY <1>1 DEF Alike, AppFields, Dressing
<1> HIDE DEF b
<1>3. /\ \A g : FocusExists(b, g) <=> FocusExists(a, g)
      /\ \A n : VisibleFocus(b, n) = VisibleFocus(a, n)
  BY <1>2, ListFacts
<1>4. VisibleFocus(a, a.local) # NoFocus => FocusExists(a, VisibleFocus(a, a.local))
  BY VisibleExists
<1>5. GoodFocus(b)
  BY <1>1, <1>2, <1>3, <1>4 DEF FocusFor, GoodFocus
<1>6. QED
  BY <1>5 DEF b

LEMMA RowFocus ==
    ASSUME NEW a, AppFields \subseteq DOMAIN a, NEW n, NEW f, FocusExists(a, f)
    PROVE  GoodFocus(SetFocusIfChanged(a, n, f))
<1> DEFINE b == SetFocusIfChanged(a, n, f)
<1>1. Alike(a, b, Dressing) /\ b.focus = f
  BY SetFocusFacts
<1>2. b.sessions = a.sessions /\ b.filter = a.filter /\ b.collapsed = a.collapsed
  BY <1>1 DEF Alike, AppFields, Dressing
<1> HIDE DEF b
<1>3. FocusExists(b, f)
  BY <1>2, ListFacts
<1>4. GoodFocus(b)
  BY <1>1, <1>3 DEF GoodFocus
<1>5. QED
  BY <1>4 DEF b

LEMMA RehomeFacts ==
    ASSUME NEW a, AppFields \subseteq DOMAIN a, a.local # None
    PROVE  Alike(a, RehomeToLocal(a), Dressing) /\ GoodFocus(RehomeToLocal(a))
<1>1. RehomeToLocal(a) = SetFocusIfChanged(a, a.local, FocusFor(a, a.local))
  BY DEF RehomeToLocal
<1>2. QED
  BY <1>1, SetFocusFacts, HomeFocus

LEMMA ConfirmFacts ==
    ASSUME NEW a, AppFields \subseteq DOMAIN a, NEW n
    PROVE  LET b == ConfirmLocalSession(a, n) IN
           /\ Alike(a, b, Dressing \cup {"local", "lastActivated", "pending"})
           /\ b.local = n /\ b.pending = IF a.pending = n THEN None ELSE a.pending
           /\ GoodFocus(b)
<1> DEFINE known == [a EXCEPT !.local = n,
                             !.lastActivated = IF @ = None THEN n ELSE @,
                             !.pending = IF @ = n THEN None ELSE @]
           b == ConfirmLocalSession(a, n)
<1>1. b = SetFocusIfChanged(known, n, FocusFor(known, n))
  BY DEF ConfirmLocalSession
<1>2. /\ Alike(a, known, {"local", "lastActivated", "pending"}) /\ known.local = n
      /\ known.pending = IF a.pending = n THEN None ELSE a.pending
  BY DEF Alike, AppFields
<1>3. AppFields \subseteq DOMAIN known
  BY <1>2 DEF Alike
<1> HIDE DEF known
<1>4. Alike(known, b, Dressing)
  BY <1>1, <1>3, SetFocusFacts
<1>5. GoodFocus(b)
  BY <1>1, <1>2, <1>3, HomeFocus
<1>6. b.local = known.local /\ b.pending = known.pending
  BY <1>4 DEF Alike, AppFields, Dressing
<1> HIDE DEF b
<1>7. Alike(a, b, Dressing \cup {"local", "lastActivated", "pending"})
  BY <1>2, <1>4 DEF Alike
<1>8. QED
  BY <1>2, <1>5, <1>6, <1>7 DEF b

LEMMA SendFacts ==
    ASSUME NEW a, AppFields \subseteq DOMAIN a, NEW m
    PROVE  /\ Alike(a, Send(a, m), {"commands"}) /\ Send(a, m).commands = Append(a.commands, m)
           /\ a.commands = <<>> => Send(a, m).commands = <<m>>
<1>1. Alike(a, Send(a, m), {"commands"}) /\ Send(a, m).commands = Append(a.commands, m)
  BY DEF Send, Alike, AppFields
<1>2. Append(<<>>, m) = <<m>>
  OBVIOUS
<1>3. QED
  BY <1>1, <1>2

LEMMA SwitchFacts ==
    ASSUME NEW a, Sound(a), NEW n, NEW preserve
    PROVE  LET b == RequestSwitch(a, n, preserve) IN
           /\ Alike(a, b, Dressing \cup {"pending", "commands"})
           /\ b.pending = n
           /\ a.commands = <<>> => b.commands = <<[type |-> "switch-session", name |-> n]>>
           /\ GoodFocus(a) => GoodFocus(b)
<1> DEFINE asked == [a EXCEPT !.pending = n]
           homed == IF VisibleFocus(asked, n) # NoFocus
                    THEN SetFocusIfChanged(asked, n, VisibleFocus(asked, n))
                    ELSE IF preserve THEN asked ELSE RehomeToLocal(asked)
           m     == [type |-> "switch-session", name |-> n]
           b     == RequestSwitch(a, n, preserve)
<1>1. b = Send(homed, m)
  BY DEF RequestSwitch
<1>2. AppFields \subseteq DOMAIN a /\ a.local # None
  BY DEF Sound
<1>3. Alike(a, asked, {"pending"}) /\ asked.pending = n
  BY <1>2 DEF Alike, AppFields
<1>4. /\ AppFields \subseteq DOMAIN asked /\ asked.local = a.local
      /\ asked.sessions = a.sessions /\ asked.filter = a.filter
      /\ asked.collapsed = a.collapsed /\ asked.focus = a.focus
  BY <1>2, <1>3 DEF Alike, AppFields
<1> HIDE DEF asked
<1>5. Alike(asked, homed, Dressing) /\ (GoodFocus(a) => GoodFocus(homed))
  <2>1. CASE VisibleFocus(asked, n) # NoFocus
    BY <2>1, <1>4, SetFocusFacts, RowFocus, VisibleExists
  <2>2. CASE VisibleFocus(asked, n) = NoFocus
    <3>1. Alike(asked, RehomeToLocal(asked), Dressing) /\ GoodFocus(RehomeToLocal(asked))
      BY <1>2, <1>4, RehomeFacts
    <3>2. Alike(asked, asked, Dressing) /\ (GoodFocus(a) => GoodFocus(asked))
      BY <1>4, ListFacts DEF Alike
    <3>3. QED
      BY <2>2, <3>1, <3>2
  <2>3. QED
    BY <2>1, <2>2
<1> HIDE DEF homed
<1>6. /\ AppFields \subseteq DOMAIN homed /\ homed.local = a.local /\ homed.pending = n
      /\ homed.sessions = a.sessions /\ homed.filter = a.filter
      /\ homed.collapsed = a.collapsed /\ homed.commands = a.commands
  BY <1>3, <1>4, <1>5 DEF Alike, AppFields, Dressing
<1>7. Alike(homed, b, {"commands"}) /\ (a.commands = <<>> => b.commands = <<m>>)
  BY <1>1, <1>6, SendFacts
<1> HIDE DEF b
<1>8. Alike(a, b, Dressing \cup {"pending", "commands"})
  BY <1>3, <1>5, <1>7 DEF Alike
<1>9. /\ b.pending = n /\ b.focus = homed.focus /\ b.local = homed.local
      /\ b.sessions = homed.sessions /\ b.filter = homed.filter
      /\ b.collapsed = homed.collapsed
  BY <1>6, <1>7 DEF Alike, AppFields
<1>10. GoodFocus(a) => GoodFocus(b)
  BY <1>5, <1>9, ListFacts
<1>11. QED
  BY <1>7, <1>8, <1>9, <1>10 DEF b

------------------------------------------------------------------------------
(* What a key does to an app, as far as the argument is concerned.           *)

Told == {"identify-pane", "your-session", "re-identify"} \cup Revised
Offered(m) == m.type \notin Told /\ (m.type = "rename" => m.value # None)

Offers(q) ==
    /\ IsSeq(q) /\ \A m \in ToSet(q) : Offered(m)
    /\ IsWidth(q) => q = <<Head(q)>>

KeptOrAsked(a, b, t) ==
    \/ b.intents[t] = a.intents[t] /\ (t # "theme" => b.settings[t] = a.settings[t])
    \/ \E m \in ToSet(b.commands) :
           m.type = t /\ b.intents[t] # <<>> /\ b.intents[t][1] = m.id

KeyResult(a, b) ==
    /\ Sound(b)
    /\ b.sessions = a.sessions /\ b.local = a.local /\ b.revision = a.revision
    /\ Offers(b.commands)
    /\ GoodFocus(a) => GoodFocus(b) \/ Has(b.commands, {"set-filter", "toggle-group"})
    /\ b.pending \in {a.pending, None} \/ Asks(b.commands)
    /\ \A t \in SettingTypes : KeptOrAsked(a, b, t)
    /\ IsWidth(b.commands) =>
         b.intents["width"] # <<>> /\ b.intents["width"][1] = Head(b.commands).id

(* A sidebar before a key: nothing is left to send.                         *)
Ready(a) == Sound(a) /\ a.commands = <<>>

LEMMA OfferNone == Offers(<<>>) /\ ~IsWidth(<<>>)
BY SeqNone DEF Offers, IsWidth

LEMMA OfferOne ==
    ASSUME NEW m, Offered(m)
    PROVE  /\ Offers(<<m>>) /\ ToSet(<<m>>) = {m}
           /\ IsWidth(<<m>>) <=> m.type = "width"
<1>1. IsSeq(<<m>>) /\ ToSet(<<m>>) = {m} /\ <<m>> # <<>> /\ Head(<<m>>) = m
  BY SeqOne
<1>2. QED
  BY <1>1 DEF Offers, IsWidth

(* Most keys only dress, open or close something, or send a command.        *)
Handy == {"surrogate", "panel", "agentIdx", "modal", "lastActivated", "quitting", "commands"}

LEMMA Plainly ==
    ASSUME NEW a, Ready(a), NEW b, Alike(a, b, Handy), SoundModal(b.modal),
           Offers(b.commands), ~IsWidth(b.commands)
    PROVE  KeyResult(a, b)
<1>1. AppFields \subseteq DOMAIN b
  BY DEF Ready, Sound, Alike
<1>2. /\ b.sessions = a.sessions /\ b.filter = a.filter /\ b.collapsed = a.collapsed
      /\ b.focus = a.focus /\ b.local = a.local /\ b.pending = a.pending
      /\ b.settings = a.settings /\ b.intents = a.intents /\ b.revision = a.revision
  BY DEF Alike, AppFields, Handy
<1>3. Sound(b)
  BY <1>1, <1>2 DEF Ready, Sound
<1>4. GoodFocus(a) => GoodFocus(b)
  BY <1>2, ListFacts
<1>5. QED
  BY <1>2, <1>3, <1>4 DEF KeyResult, KeptOrAsked

LEMMA Unchanged == ASSUME NEW a, Ready(a) PROVE KeyResult(a, a)
<1>1. Alike(a, a, Handy) /\ SoundModal(a.modal) /\ a.commands = <<>>
  BY DEF Ready, Sound, Alike
<1>2. QED
  BY <1>1, OfferNone, Plainly

LEMMA Dressed ==
    ASSUME NEW a, Ready(a), NEW b, Alike(a, b, {"surrogate", "panel", "agentIdx", "lastActivated"})
    PROVE  KeyResult(a, b)
<1>1. Alike(a, b, Handy)
  BY DEF Alike, Handy
<1>2. b.modal = a.modal /\ b.commands = a.commands
  BY DEF Alike, AppFields
<1>3. SoundModal(b.modal) /\ b.commands = <<>>
  BY <1>2 DEF Ready, Sound
<1>4. QED
  BY <1>1, <1>3, OfferNone, Plainly

LEMMA Dialog ==
    ASSUME NEW a, Ready(a), NEW m, SoundModal(m)
    PROVE  KeyResult(a, [a EXCEPT !.modal = m])
<1> DEFINE b == [a EXCEPT !.modal = m]
<1>1. Alike(a, b, Handy) /\ b.modal = m /\ b.commands = <<>>
  BY DEF Alike, Handy, AppFields, Ready, Sound
<1> HIDE DEF b
<1>2. KeyResult(a, b)
  BY <1>1, OfferNone, Plainly
<1>3. QED
  BY <1>2 DEF b

LEMMA Sending ==
    ASSUME NEW a, Ready(a), NEW m, Offered(m), m.type # "width",
           NEW x, Alike(a, x, Handy), SoundModal(x.modal), x.commands = <<>>
    PROVE  KeyResult(a, Send(x, m))
<1> DEFINE b == Send(x, m)
<1>1. AppFields \subseteq DOMAIN x
  BY DEF Ready, Sound, Alike
<1>2. Alike(x, b, {"commands"}) /\ b.commands = <<m>>
  BY <1>1, SendFacts
<1> HIDE DEF b
<1>3. Alike(a, b, Handy) /\ b.modal = x.modal
  BY <1>2 DEF Alike, Handy, AppFields
<1>4. KeyResult(a, b)
  BY <1>2, <1>3, OfferOne, Plainly
<1>5. QED
  BY <1>4 DEF b

LEMMA SendingPlain ==
    ASSUME NEW a, Ready(a), NEW m, Offered(m), m.type # "width"
    PROVE  KeyResult(a, Send(a, m))
<1>1. Alike(a, a, Handy) /\ SoundModal(a.modal) /\ a.commands = <<>>
  BY DEF Alike, Ready, Sound
<1>2. QED
  BY <1>1, Sending

Single(q, m) == q = <<m>>
Asking == Handy \cup {"settings", "intents", "nextRequest"}

(* A request for a setting.                                                 *)
LEMMA RequestFacts ==
    ASSUME NEW a, Sound(a), NEW t \in SettingTypes, NEW v
    PROVE  LET b == Request(a, t, v) IN
           /\ Alike(a, b, {"intents", "nextRequest", "commands"})
           /\ b.intents = [a.intents EXCEPT ![t] = <<a.nextRequest, v>>]
           /\ a.commands = <<>> =>
                \E m : b.commands = <<m>> /\ m.type = t /\ m.id = a.nextRequest
<1> DEFINE x == [a EXCEPT !.intents[t] = <<a.nextRequest, v>>, !.nextRequest = @ + 1]
           m == SettingCommand(t, a, v)
           b == Request(a, t, v)
<1>1. /\ Alike(a, x, {"intents", "nextRequest"}) /\ AppFields \subseteq DOMAIN x
      /\ x.intents = [a.intents EXCEPT ![t] = <<a.nextRequest, v>>]
  BY DEF Sound, Alike, AppFields
<1>2. b = Send(x, m)
  BY DEF Request
<1> HIDE DEF x
<1>3. m.type = t /\ m.id = a.nextRequest
  BY DEF SettingCommand
<1> HIDE DEF m
<1>4. Alike(x, b, {"commands"}) /\ (x.commands = <<>> => b.commands = <<m>>)
  BY <1>1, <1>2, SendFacts
<1> HIDE DEF b
<1>5. x.commands = a.commands /\ b.intents = x.intents
  BY <1>1, <1>4 DEF Alike, AppFields
<1>6. Alike(a, b, {"intents", "nextRequest", "commands"})
  BY <1>1, <1>4 DEF Alike
<1>7. QED
  BY <1>1, <1>3, <1>4, <1>5, <1>6 DEF b

Requested(a, b, t, m) ==
    /\ Alike(a, b, Asking) /\ SoundModal(b.modal)
    /\ DOMAIN b.settings = DOMAIN a.settings /\ DOMAIN b.intents = DOMAIN a.intents
    /\ \A u \in SettingTypes : u # t => b.intents[u] = a.intents[u]
    /\ \A u \in SettingTypes : u # t /\ u # "theme" => b.settings[u] = a.settings[u]
    /\ b.intents[t] # <<>> /\ m.id = b.intents[t][1]
    /\ Single(b.commands, m) /\ m.type = t

LEMMA Requesting ==
    ASSUME NEW a, Ready(a), NEW t \in SettingTypes, NEW b, NEW m, Requested(a, b, t, m)
    PROVE  KeyResult(a, b)
<1> USE DEF Requested
<1>1. AppFields \subseteq DOMAIN b
  BY DEF Ready, Sound, Alike
<1>2. /\ b.sessions = a.sessions /\ b.filter = a.filter /\ b.collapsed = a.collapsed
      /\ b.focus = a.focus /\ b.local = a.local /\ b.pending = a.pending
      /\ b.revision = a.revision
  BY DEF Alike, AppFields, Handy, Asking
<1>3. SettingTypes = DOMAIN a.intents /\ SettingTypes = DOMAIN a.settings
  BY DEF Ready, Sound
<1>4. Sound(b)
  BY <1>1, <1>2, <1>3 DEF Ready, Sound
<1>5. GoodFocus(a) => GoodFocus(b)
  BY <1>2, ListFacts
<1>6. Offered(m)
  BY DEF Offered, Told, Revised, SettingTypes
<1>7. Offers(b.commands) /\ ToSet(b.commands) = {m} /\ (IsWidth(b.commands) <=> m.type = "width")
  BY <1>6, OfferOne DEF Single
<1>8. \A u \in SettingTypes : u # t => b.intents[u] = a.intents[u]
  OBVIOUS
<1>9. ASSUME NEW u \in SettingTypes PROVE KeptOrAsked(a, b, u)
  <2>1. CASE u = t
    BY <1>7, <1>8, <2>1 DEF KeptOrAsked
  <2>2. CASE u # t
    BY <1>8, <2>2 DEF KeptOrAsked
  <2>3. QED
    BY <2>1, <2>2
<1>10. IsWidth(b.commands) => b.intents["width"] # <<>> /\ b.intents["width"][1] = Head(b.commands).id
  <2>1. Head(b.commands) = m
    BY SeqOne DEF Single
  <2>2. QED
    BY <1>7, <1>8, <2>1
<1>11. QED
  BY <1>2, <1>4, <1>5, <1>7, <1>9, <1>10 DEF KeyResult

(* A setting changed and requested; what changes in the app besides.        *)
LEMMA RequestResult ==
    ASSUME NEW a, Ready(a), NEW t \in SettingTypes, NEW v,
           NEW x, Alike(a, x, Handy \cup {"settings"}), SoundModal(x.modal), x.commands = <<>>,
           DOMAIN x.settings = DOMAIN a.settings,
           \A u \in SettingTypes : u # t /\ u # "theme" => x.settings[u] = a.settings[u],
           NEW b, Alike(Request(x, t, v), b, {"surrogate", "panel", "agentIdx", "modal"}),
           SoundModal(b.modal)
    PROVE  KeyResult(a, b)
<1> DEFINE y == Request(x, t, v)
           w == <<x.nextRequest, v>>
<1>1. x.revision = a.revision /\ x.local = a.local /\ x.intents = a.intents
  BY DEF Alike, AppFields, Handy
<1>2. Sound(x)
  BY <1>1 DEF Ready, Sound, Alike
<1>3. /\ Alike(x, y, {"intents", "nextRequest", "commands"})
      /\ y.intents = [x.intents EXCEPT ![t] = <<x.nextRequest, v>>]
      /\ \E m : y.commands = <<m>> /\ m.type = t /\ m.id = x.nextRequest
  BY <1>2, RequestFacts
<1>4. Alike(y, b, {"surrogate", "panel", "agentIdx", "modal"})
  OBVIOUS
<1> HIDE DEF y
<1>5. PICK m : y.commands = <<m>> /\ m.type = t /\ m.id = x.nextRequest
  BY <1>3
<1>6. /\ b.intents = y.intents /\ b.commands = y.commands /\ b.settings = y.settings
      /\ y.settings = x.settings
  BY <1>3, <1>4 DEF Alike, AppFields
<1>7. Alike(a, b, Asking)
  BY <1>3, <1>4 DEF Alike, Handy, Asking
<1>8. w # <<>> /\ w[1] = x.nextRequest /\ y.intents = [x.intents EXCEPT ![t] = w]
  BY <1>3
<1> HIDE DEF w
<1>9. /\ b.intents = [a.intents EXCEPT ![t] = w]
      /\ Single(b.commands, m) /\ m.type = t
      /\ DOMAIN b.settings = DOMAIN a.settings
      /\ \A u \in SettingTypes : u # t /\ u # "theme" => b.settings[u] = a.settings[u]
  BY <1>1, <1>3, <1>5, <1>6, <1>8 DEF Single
<1>10. /\ DOMAIN b.intents = DOMAIN a.intents /\ b.intents[t] = w
       /\ \A u \in SettingTypes \ {t} : b.intents[u] = a.intents[u]
  BY <1>9 DEF Ready, Sound
<1>11. /\ b.intents[t] # <<>> /\ m.id = b.intents[t][1]
       /\ Single(b.commands, m) /\ m.type = t
       /\ \A u \in SettingTypes : u # t => b.intents[u] = a.intents[u]
       /\ \A u \in SettingTypes : u # t /\ u # "theme" => b.settings[u] = a.settings[u]
  BY <1>5, <1>8, <1>9, <1>10
<1>12. Requested(a, b, t, m)
  BY <1>7, <1>9, <1>10, <1>11 DEF Requested
<1>13. QED
  BY <1>12, Requesting

(* The panel's bookkeeping.                                                 *)
LEMMA ClampFacts ==
    ASSUME NEW a, AppFields \subseteq DOMAIN a
    PROVE  Alike(a, ClampAgent(a), {"panel", "agentIdx"})
BY DEF ClampAgent, Alike, AppFields

------------------------------------------------------------------------------
(* Each key.                                                                 *)

LEMMA SwitchKey ==
    ASSUME NEW a, Ready(a), NEW n, NEW preserve
    PROVE  KeyResult(a, RequestSwitch(a, n, preserve))
<1> DEFINE b == RequestSwitch(a, n, preserve)
           m == [type |-> "switch-session", name |-> n]
<1>1. /\ Alike(a, b, Dressing \cup {"pending", "commands"})
      /\ b.pending = n /\ b.commands = <<m>> /\ (GoodFocus(a) => GoodFocus(b))
  BY SwitchFacts DEF Ready
<1> HIDE DEF b
<1>2. Offered(m) /\ m.type # "width" /\ m.type = "switch-session" /\ m.name = n
  BY DEF Offered, Told, Revised
<1> HIDE DEF m
<1>3. Offers(b.commands) /\ ToSet(b.commands) = {m} /\ ~IsWidth(b.commands)
  BY <1>1, <1>2, OfferOne
<1>4. /\ b.sessions = a.sessions /\ b.local = a.local /\ b.revision = a.revision
      /\ b.settings = a.settings /\ b.intents = a.intents /\ b.modal = a.modal
      /\ AppFields \subseteq DOMAIN b
  BY <1>1 DEF Alike, AppFields, Dressing, Ready, Sound
<1>5. Sound(b)
  BY <1>4 DEF Ready, Sound
<1>6. b.pending = None \/ Asks(b.commands)
  BY <1>1, <1>2, <1>3 DEF Asks
<1>7. KeyResult(a, b)
  BY <1>1, <1>3, <1>4, <1>5, <1>6 DEF KeyResult, KeptOrAsked
<1>8. QED
  BY <1>7 DEF b

LEMMA DigitResult == ASSUME NEW a, Ready(a), NEW i PROVE KeyResult(a, DigitKey(a, i))
BY SwitchKey, Unchanged DEF DigitKey

LEMMA TabResult == ASSUME NEW a, Ready(a), NEW delta PROVE KeyResult(a, SwitchToRelative(a, delta))
<1>1. KeyResult(a, RehomeToLocal(a))
  <2> DEFINE b == RehomeToLocal(a)
  <2>1. Alike(a, b, Dressing) /\ GoodFocus(b)
    BY RehomeFacts DEF Ready, Sound
  <2> HIDE DEF b
  <2>2. /\ b.sessions = a.sessions /\ b.local = a.local /\ b.revision = a.revision
        /\ b.settings = a.settings /\ b.intents = a.intents /\ b.modal = a.modal
        /\ b.pending = a.pending /\ b.commands = <<>> /\ AppFields \subseteq DOMAIN b
    BY <2>1 DEF Alike, AppFields, Dressing, Ready, Sound
  <2>3. Sound(b)
    BY <2>2 DEF Ready, Sound
  <2>4. KeyResult(a, b)
    BY <2>1, <2>2, <2>3, OfferNone DEF KeyResult, KeptOrAsked
  <2>5. QED
    BY <2>4 DEF b
<1>2. \A n : KeyResult(a, RequestSwitch(a, n, FALSE))
  BY SwitchKey
<1>3. QED
  BY <1>1, <1>2, Unchanged DEF SwitchToRelative

LEMMA MoveResult == ASSUME NEW a, Ready(a), NEW delta PROVE KeyResult(a, MoveFocus(a, delta))
<1>1. ASSUME NEW f, FocusExists(a, f) PROVE KeyResult(a, SetFocus(a, f))
  <2> DEFINE b == SetFocus(a, f)
  <2>1. Alike(a, b, Dressing) /\ b.focus = f
    BY DEF SetFocus, Alike, Dressing, AppFields, Ready, Sound
  <2> HIDE DEF b
  <2>2. /\ b.sessions = a.sessions /\ b.local = a.local /\ b.revision = a.revision
        /\ b.settings = a.settings /\ b.intents = a.intents /\ b.modal = a.modal
        /\ b.pending = a.pending /\ b.commands = <<>> /\ AppFields \subseteq DOMAIN b
        /\ b.filter = a.filter /\ b.collapsed = a.collapsed
    BY <2>1 DEF Alike, AppFields, Dressing, Ready, Sound
  <2>3. Sound(b)
    BY <2>2 DEF Ready, Sound
  <2>4. GoodFocus(b)
    BY <1>1, <2>1, <2>2, ListFacts DEF GoodFocus
  <2>5. KeyResult(a, b)
    BY <2>2, <2>3, <2>4, OfferNone DEF KeyResult, KeptOrAsked
  <2>6. QED
    BY <2>5 DEF b
<1>2. \A i \in 1 .. Len(Entries(a)) : FocusExists(a, Entries(a)[i])
  BY DEF FocusExists, Contains
<1>3. QED
  BY <1>1, <1>2, Unchanged DEF MoveFocus

LEMMA MoveAgentResult ==
    ASSUME NEW a, Ready(a), NEW delta PROVE KeyResult(a, MoveAgentFocus(a, delta))
<1> DEFINE d == {"surrogate", "panel", "agentIdx", "lastActivated"}
<1>1. AppFields \subseteq DOMAIN a
  BY DEF Ready, Sound
<1>2. \A i : Alike(a, [a EXCEPT !.agentIdx = i], d)
  BY <1>1 DEF Alike, AppFields
<1>3. \A i : KeyResult(a, [a EXCEPT !.agentIdx = i])
  BY <1>2, Dressed
<1>4. ASSUME NEW i PROVE KeyResult(a, ClampAgent([a EXCEPT !.agentIdx = i]))
  <2> DEFINE x == [a EXCEPT !.agentIdx = i]
             b == ClampAgent(x)
  <2>1. Alike(a, x, {"agentIdx"}) /\ AppFields \subseteq DOMAIN x
    BY <1>1 DEF Alike, AppFields
  <2> HIDE DEF x
  <2>2. Alike(x, b, {"panel", "agentIdx"})
    BY <2>1, ClampFacts
  <2> HIDE DEF b
  <2>3. Alike(a, b, d)
    BY <2>1, <2>2 DEF Alike
  <2>4. KeyResult(a, b)
    BY <2>3, Dressed
  <2>5. QED
    BY <2>4 DEF b, x
<1>5. QED
  BY <1>3, <1>4, Unchanged DEF MoveAgentFocus

LEMMA PanelResult ==
    ASSUME NEW a, Ready(a)
    PROVE  /\ KeyResult(a, FocusAgentsPanel(a))
           /\ \A p : KeyResult(a, [a EXCEPT !.panel = p])
<1> DEFINE d == {"surrogate", "panel", "agentIdx", "lastActivated"}
<1>1. AppFields \subseteq DOMAIN a
  BY DEF Ready, Sound
<1>2. \A p : Alike(a, [a EXCEPT !.panel = p], d)
  BY <1>1 DEF Alike, AppFields
<1>3. \A p : KeyResult(a, [a EXCEPT !.panel = p])
  BY <1>2, Dressed
<1>4. KeyResult(a, [ClampAgent(a) EXCEPT !.panel = "agents"])
  <2> DEFINE x == ClampAgent(a)
             b == [x EXCEPT !.panel = "agents"]
  <2>1. Alike(a, x, {"panel", "agentIdx"})
    BY <1>1, ClampFacts
  <2> HIDE DEF x
  <2>2. Alike(a, b, d)
    BY <1>1, <2>1 DEF Alike, AppFields
  <2> HIDE DEF b
  <2>3. KeyResult(a, b)
    BY <2>2, Dressed
  <2>4. QED
    BY <2>3 DEF b, x
<1>5. QED
  BY <1>3, <1>4, Unchanged DEF FocusAgentsPanel

LEMMA AgentResult ==
    ASSUME NEW a, Ready(a), NEW x, Alike(a, x, {"panel", "agentIdx"})
    PROVE  KeyResult(a, ActivateFocusedAgent(x))
<1>1. /\ Alike(a, x, {"surrogate", "panel", "agentIdx", "lastActivated"})
      /\ x.commands = <<>> /\ x.modal = a.modal /\ AppFields \subseteq DOMAIN x
  BY DEF Alike, AppFields, Ready, Sound
<1>2. KeyResult(a, x)
  BY <1>1, Dressed
<1>3. ASSUME NEW s, NEW agent PROVE KeyResult(a, FocusAgentPane(x, s, agent))
  <2> DEFINE m1 == [type |-> "switch-session", name |-> s]
             m2 == [type |-> "focus-agent-pane", name |-> s, agent |-> agent.id]
             y  == Send(x, m1)
             b  == Send(y, m2)
  <2>1. /\ Offered(m1) /\ m1.type = "switch-session"
        /\ Offered(m2) /\ m2.type = "focus-agent-pane"
    BY DEF Offered, Told, Revised
  <2> HIDE DEF m1, m2
  <2>2. Alike(x, y, {"commands"}) /\ y.commands = <<m1>>
    BY <1>1, SendFacts
  <2>3. AppFields \subseteq DOMAIN y
    BY <1>1, <2>2 DEF Alike
  <2> HIDE DEF y
  <2>4. Alike(y, b, {"commands"}) /\ b.commands = Append(<<m1>>, m2)
    BY <2>2, <2>3, SendFacts
  <2> HIDE DEF b
  <2>5. /\ IsSeq(b.commands) /\ ToSet(b.commands) = {m1, m2} /\ b.commands # <<>>
        /\ Head(b.commands) = m1
    <3>1. IsSeq(<<m1>>) /\ ToSet(<<m1>>) = {m1} /\ Len(<<m1>>) = 1 /\ <<m1>>[1] = m1
      BY SeqOne
    <3>2. /\ IsSeq(b.commands) /\ ToSet(b.commands) = {m1, m2} /\ b.commands # <<>>
          /\ b.commands[1] = m1
      BY <2>4, <3>1, SeqAppend
    <3>3. QED
      BY <3>2, SeqTail
  <2>6. Offers(b.commands) /\ ~IsWidth(b.commands)
    BY <2>1, <2>5 DEF Offers, IsWidth
  <2>7. Alike(a, b, Handy) /\ b.modal = a.modal
    BY <1>1, <2>2, <2>4 DEF Alike, Handy, AppFields
  <2>8. KeyResult(a, b)
    BY <2>6, <2>7, Plainly DEF Ready, Sound
  <2>9. QED
    BY <2>8 DEF b, y, m1, m2, FocusAgentPane
<1>4. QED
  BY <1>2, <1>3 DEF ActivateFocusedAgent

LEMMA GroupResult == ASSUME NEW a, Ready(a), NEW g PROVE KeyResult(a, ClickGroup(a, g))
<1> DEFINE x == SetFocus(a, GroupFocus(g))
           m == [type |-> "toggle-group", name |-> g]
           b == ClickGroup(a, g)
<1>1. Alike(a, x, Dressing) /\ x.commands = <<>> /\ AppFields \subseteq DOMAIN x
  BY DEF SetFocus, Alike, Dressing, AppFields, Ready, Sound
<1>2. b = Send(x, m)
  BY DEF ClickGroup
<1> HIDE DEF x
<1>3. Offered(m) /\ m.type = "toggle-group"
  BY DEF Offered, Told, Revised
<1> HIDE DEF m
<1>4. Alike(x, b, {"commands"}) /\ b.commands = <<m>>
  BY <1>1, <1>2, SendFacts
<1> HIDE DEF b
<1>5. /\ b.sessions = a.sessions /\ b.local = a.local /\ b.revision = a.revision
      /\ b.settings = a.settings /\ b.intents = a.intents /\ b.modal = a.modal
      /\ b.pending = a.pending /\ AppFields \subseteq DOMAIN b
  BY <1>1, <1>4 DEF Alike, AppFields, Dressing
<1>6. Sound(b)
  BY <1>5 DEF Ready, Sound
<1>7. Offers(b.commands) /\ ToSet(b.commands) = {m} /\ ~IsWidth(b.commands)
  BY <1>3, <1>4, OfferOne
<1>8. KeyResult(a, b)
  BY <1>3, <1>5, <1>6, <1>7 DEF KeyResult, KeptOrAsked, Has
<1>9. QED
  BY <1>8 DEF b

LEMMA FilterResult == ASSUME NEW a, Ready(a) PROVE KeyResult(a, CycleFilter(a))
<1> DEFINE next == CASE a.filter = "all" -> "active" [] a.filter = "active" -> "running"
                  [] a.filter = "running" -> "all"
           b == CycleFilter(a)
<1>1. b = Send([a EXCEPT !.filter = next], [type |-> "set-filter", value |-> next])
  BY DEF CycleFilter
<1> HIDE DEF next
<1> DEFINE x == [a EXCEPT !.filter = next]
           m == [type |-> "set-filter", value |-> next]
<1>2. Alike(a, x, {"filter"}) /\ x.commands = <<>> /\ AppFields \subseteq DOMAIN x
  BY DEF Alike, AppFields, Ready, Sound
<1> HIDE DEF x
<1>3. Offered(m) /\ m.type = "set-filter"
  BY DEF Offered, Told, Revised
<1> HIDE DEF m
<1>4. Alike(x, b, {"commands"}) /\ b.commands = <<m>>
  <2>1. b = Send(x, m)
    BY <1>1 DEF x, m
  <2>2. QED
    BY <1>2, <2>1, SendFacts
<1> HIDE DEF b
<1>5. /\ b.sessions = a.sessions /\ b.local = a.local /\ b.revision = a.revision
      /\ b.settings = a.settings /\ b.intents = a.intents /\ b.modal = a.modal
      /\ b.pending = a.pending /\ AppFields \subseteq DOMAIN b
  BY <1>2, <1>4 DEF Alike, AppFields
<1>6. Sound(b)
  BY <1>5 DEF Ready, Sound
<1>7. Offers(b.commands) /\ ToSet(b.commands) = {m} /\ ~IsWidth(b.commands)
  BY <1>3, <1>4, OfferOne
<1>8. KeyResult(a, b)
  BY <1>3, <1>5, <1>6, <1>7 DEF KeyResult, KeptOrAsked, Has
<1>9. QED
  BY <1>8 DEF b

LEMMA ScopeResult == ASSUME NEW a, Ready(a) PROVE KeyResult(a, ToggleScope(a))
<1> DEFINE scope == IF a.settings["scope"] = "all" THEN "current" ELSE "all"
           x == [a EXCEPT !.settings["scope"] = scope]
           y == Request(x, "scope", scope)
           b == ToggleScope(a)
<1>1. b = ClampAgent(y)
  BY DEF ToggleScope
<1> HIDE DEF scope
<1>2. /\ Alike(a, x, Handy \cup {"settings"}) /\ x.modal = a.modal /\ x.commands = <<>>
      /\ x.settings = [a.settings EXCEPT !["scope"] = scope]
      /\ x.local = a.local /\ x.revision = a.revision /\ x.intents = a.intents
  BY DEF Alike, AppFields, Handy, Ready, Sound
<1> HIDE DEF x
<1>3. /\ DOMAIN x.settings = DOMAIN a.settings
      /\ \A u \in SettingTypes : u # "scope" /\ u # "theme" => x.settings[u] = a.settings[u]
      /\ "scope" \in SettingTypes
  BY <1>2 DEF Ready, Sound, SettingTypes
<1>4. Sound(x)
  BY <1>2, <1>3 DEF Ready, Sound, Alike
<1>5. Alike(x, y, {"intents", "nextRequest", "commands"})
  BY <1>3, <1>4, RequestFacts
<1>6. AppFields \subseteq DOMAIN y /\ y.modal = a.modal
  BY <1>2, <1>4, <1>5 DEF Alike, AppFields, Sound
<1> HIDE DEF y
<1>7. Alike(y, b, {"panel", "agentIdx"})
  BY <1>1, <1>6, ClampFacts
<1> HIDE DEF b
<1>8. Alike(y, b, {"surrogate", "panel", "agentIdx", "modal"}) /\ b.modal = a.modal
  BY <1>6, <1>7 DEF Alike, AppFields
<1>9. SoundModal(a.modal)
  BY DEF Ready, Sound
<1>10. KeyResult(a, b)
  BY <1>2, <1>3, <1>8, <1>9, RequestResult DEF y
<1>11. QED
  BY <1>10 DEF b

LEMMA HeightResult == ASSUME NEW a, Ready(a), NEW h PROVE KeyResult(a, SetDetailHeight(a, h))
<1> DEFINE height == IF h < 1 THEN 1 ELSE IF h > MaxHeight THEN MaxHeight ELSE h
           x == [a EXCEPT !.settings["height"] = height]
           y == Request(x, "height", height)
           b == SetDetailHeight(a, h)
<1>1. b = IF height = a.settings["height"] THEN a ELSE y
  BY DEF SetDetailHeight
<1> HIDE DEF height
<1>2. /\ Alike(a, x, Handy \cup {"settings"}) /\ x.modal = a.modal /\ x.commands = <<>>
      /\ x.settings = [a.settings EXCEPT !["height"] = height]
      /\ x.local = a.local /\ x.revision = a.revision /\ x.intents = a.intents
  BY DEF Alike, AppFields, Handy, Ready, Sound
<1> HIDE DEF x
<1>3. /\ DOMAIN x.settings = DOMAIN a.settings
      /\ \A u \in SettingTypes : u # "height" /\ u # "theme" => x.settings[u] = a.settings[u]
      /\ "height" \in SettingTypes
  BY <1>2 DEF Ready, Sound, SettingTypes
<1>4. Sound(x)
  BY <1>2, <1>3 DEF Ready, Sound, Alike
<1>5. Alike(x, y, {"intents", "nextRequest", "commands"})
  BY <1>3, <1>4, RequestFacts
<1>6. y.modal = a.modal /\ Alike(y, y, {"surrogate", "panel", "agentIdx", "modal"})
  BY <1>2, <1>5 DEF Alike, AppFields
<1>7. SoundModal(a.modal)
  BY DEF Ready, Sound
<1> HIDE DEF y
<1>8. KeyResult(a, y)
  BY <1>2, <1>3, <1>6, <1>7, RequestResult DEF y
<1>9. QED
  BY <1>1, <1>8, Unchanged

LEMMA DismissResult == ASSUME NEW a, Ready(a) PROVE KeyResult(a, DismissFocusedAgent(a))
<1> DEFINE m == [type |-> "dismiss-agent", name |-> AgentAtFocus(a)[1],
                 agent |-> AgentAtFocus(a)[2].id]
           n == Len(PanelAgents(a))
           x == Send(a, m)
           b == DismissFocusedAgent(a)
<1>1. Offered(m) /\ m.type # "width"
  BY DEF Offered, Told, Revised
<1>2. b = IF ~FocusedAgent(a) THEN a
          ELSE [x EXCEPT !.agentIdx = IF n > 1 /\ x.agentIdx >= n - 1 THEN n - 2 ELSE x.agentIdx,
                         !.panel    = IF n <= 1 THEN "sessions" ELSE x.panel]
  BY DEF DismissFocusedAgent
<1> HIDE DEF m, n
<1>3. CASE ~FocusedAgent(a)
  BY <1>2, <1>3, Unchanged
<1>4. CASE FocusedAgent(a)
  <2>1. AppFields \subseteq DOMAIN a /\ a.commands = <<>> /\ SoundModal(a.modal)
    BY DEF Ready, Sound
  <2>2. Alike(a, x, {"commands"}) /\ x.commands = <<m>>
    BY <2>1, SendFacts
  <2> HIDE DEF x
  <2>3. Alike(x, b, {"agentIdx", "panel"})
    BY <1>2, <1>4, <2>1, <2>2 DEF Alike, AppFields
  <2> HIDE DEF b
  <2>4. Alike(a, b, Handy) /\ b.modal = a.modal /\ b.commands = <<m>>
    BY <2>1, <2>2, <2>3 DEF Alike, Handy, AppFields
  <2>5. KeyResult(a, b)
    BY <1>1, <2>1, <2>4, OfferOne, Plainly
  <2>6. QED
    BY <2>5 DEF b
<1>5. QED
  BY <1>3, <1>4

LEMMA KillResult == ASSUME NEW a, Ready(a) PROVE KeyResult(a, KillKey(a))
<1> DEFINE m == [type |-> "kill-agent-pane", name |-> AgentAtFocus(a)[1],
                 agent |-> AgentAtFocus(a)[2].id]
           d == [kind |-> "kill", target |-> a.focus]
<1>1. Offered(m) /\ m.type # "width" /\ SoundModal(d)
  BY DEF Offered, Told, Revised, SoundModal, Dialogs
<1>2. KillKey(a) \in {Send(a, m), a, [a EXCEPT !.modal = d]}
  BY DEF KillKey, OpenKillConfirm
<1> HIDE DEF m, d
<1>3. KeyResult(a, Send(a, m)) /\ KeyResult(a, a) /\ KeyResult(a, [a EXCEPT !.modal = d])
  BY <1>1, SendingPlain, Unchanged, Dialog
<1>4. QED
  BY <1>2, <1>3

LEMMA ReorderResult == ASSUME NEW a, Ready(a), NEW delta PROVE KeyResult(a, Reorder(a, delta))
<1> DEFINE m1 == [type |-> "reorder", name |-> a.focus.name, delta |-> delta]
           m2 == [type |-> "reorder-group", name |-> a.focus.name, delta |-> delta]
<1>1. Offered(m1) /\ m1.type # "width" /\ Offered(m2) /\ m2.type # "width"
  BY DEF Offered, Told, Revised
<1>2. Reorder(a, delta) \in {Send(a, m1), Send(a, m2), a}
  BY DEF Reorder
<1> HIDE DEF m1, m2
<1>3. KeyResult(a, Send(a, m1)) /\ KeyResult(a, Send(a, m2)) /\ KeyResult(a, a)
  BY <1>1, SendingPlain, Unchanged
<1>4. QED
  BY <1>2, <1>3

LEMMA ArrowResult ==
    ASSUME NEW a, Ready(a)
    PROVE  KeyResult(a, LeftKey(a)) /\ KeyResult(a, RightKey(a))
<1>1. /\ KeyResult(a, a) /\ KeyResult(a, FocusAgentsPanel(a))
      /\ \A h : KeyResult(a, SetDetailHeight(a, h))
      /\ \A p : KeyResult(a, [a EXCEPT !.panel = p])
  BY Unchanged, PanelResult, HeightResult
<1>2. KeyResult(a, LeftKey(a))
  BY <1>1 DEF LeftKey
<1>3. KeyResult(a, RightKey(a))
  BY <1>1 DEF RightKey
<1>4. QED
  BY <1>2, <1>3

LEMMA HideResult == ASSUME NEW a, Ready(a) PROVE KeyResult(a, HideKey(a))
<1> DEFINE m == [type |-> "hide", name |-> a.focus.name]
<1>1. Offered(m) /\ m.type # "width"
  BY DEF Offered, Told, Revised
<1>2. HideKey(a) \in {DismissFocusedAgent(a), Send(a, m), a}
  BY DEF HideKey
<1> HIDE DEF m
<1>3. KeyResult(a, DismissFocusedAgent(a)) /\ KeyResult(a, Send(a, m)) /\ KeyResult(a, a)
  BY <1>1, SendingPlain, Unchanged, DismissResult
<1>4. QED
  BY <1>2, <1>3

LEMMA OpenResult ==
    ASSUME NEW a, Ready(a)
    PROVE  /\ KeyResult(a, OpenWindowManager(a))
           /\ KeyResult(a, FocusedSessionModal(a,
                  [kind |-> "rename", name |-> a.focus.name, draft |-> a.focus.name]))
<1>1. KeyResult(a, OpenWindowManager(a))
  <2> DEFINE d == [kind |-> "windows", session |-> a.focus.name, windows |-> <<>>,
                   selected |-> 1, marked |-> {}, confirming |-> FALSE]
             m == [type |-> "request-windows", name |-> a.focus.name]
             x == [a EXCEPT !.modal = d]
  <2>1. Offered(m) /\ m.type # "width" /\ SoundModal(d)
    BY DEF Offered, Told, Revised, SoundModal, Dialogs
  <2>2. OpenWindowManager(a) \in {a, Send(x, m)}
    BY DEF OpenWindowManager
  <2> HIDE DEF m, d
  <2>3. Alike(a, x, Handy) /\ x.modal = d /\ x.commands = <<>>
    BY DEF Alike, Handy, AppFields, Ready, Sound
  <2> HIDE DEF x
  <2>4. KeyResult(a, a) /\ KeyResult(a, Send(x, m))
    BY <2>1, <2>3, Unchanged, Sending
  <2>5. QED
    BY <2>2, <2>4
<1>2. KeyResult(a, FocusedSessionModal(a,
                  [kind |-> "rename", name |-> a.focus.name, draft |-> a.focus.name]))
  <2> DEFINE d == [kind |-> "rename", name |-> a.focus.name, draft |-> a.focus.name]
  <2>1. SoundModal(d)
    BY DEF SoundModal, Dialogs
  <2> HIDE DEF d
  <2>2. FocusedSessionModal(a, d) \in {a, [a EXCEPT !.modal = d]}
    BY DEF FocusedSessionModal
  <2>3. KeyResult(a, FocusedSessionModal(a, d))
    BY <2>1, <2>2, Unchanged, Dialog
  <2>4. QED
    BY <2>3 DEF d
<1>3. QED
  BY <1>1, <1>2

LEMMA PlainResult == ASSUME NEW a, Ready(a), NEW k PROVE KeyResult(a, PlainKey(a, k))
<1> DEFINE refresh == [type |-> "refresh"]
           show    == [type |-> "show-all"]
           quit    == [kind |-> "quit"]
           theme   == [kind |-> "theme", original |-> a.settings["theme"]]
           width   == [kind |-> "width", draft |-> a.settings["width"]]
           rename  == [kind |-> "rename", name |-> a.focus.name, draft |-> a.focus.name]
           b       == PlainKey(a, k)
<1>1. Offered(refresh) /\ refresh.type # "width" /\ Offered(show) /\ show.type # "width"
  BY DEF Offered, Told, Revised
<1>2. SoundModal(quit) /\ SoundModal(theme) /\ SoundModal(width)
  BY DEF SoundModal, Dialogs
<1>3. /\ KeyResult(a, Send(a, refresh)) /\ KeyResult(a, Send(a, show))
      /\ KeyResult(a, [a EXCEPT !.modal = quit]) /\ KeyResult(a, [a EXCEPT !.modal = theme])
      /\ KeyResult(a, [a EXCEPT !.modal = width]) /\ KeyResult(a, a)
  <2> HIDE DEF refresh, show, quit, theme, width
  <2>1. QED
    BY <1>1, <1>2, SendingPlain, Dialog, Unchanged
<1>4. \A i : KeyResult(a, ActivateFocusedAgent([a EXCEPT !.panel = "agents", !.agentIdx = i]))
  <2> SUFFICES ASSUME NEW i
               PROVE  KeyResult(a, ActivateFocusedAgent([a EXCEPT !.panel = "agents", !.agentIdx = i]))
    OBVIOUS
  <2> DEFINE x == [a EXCEPT !.panel = "agents", !.agentIdx = i]
  <2>1. Alike(a, x, {"panel", "agentIdx"})
    BY DEF Alike, AppFields, Ready, Sound
  <2> HIDE DEF x
  <2>2. KeyResult(a, ActivateFocusedAgent(x))
    BY <2>1, AgentResult
  <2>3. QED
    BY <2>2 DEF x
<1>5. KeyResult(a, ActivateFocusedItem(a))
  <2>1. Alike(a, a, {"panel", "agentIdx"})
    BY DEF Alike
  <2>2. KeyResult(a, ActivateFocusedAgent(a))
    BY <2>1, AgentResult
  <2>3. QED
    BY <2>2, SwitchKey, GroupResult, Unchanged DEF ActivateFocusedItem
<1>6. KeyResult(a, FocusedSessionModal(a, rename))
  BY OpenResult
<1>7. CASE k.key = "digit"
  <2>1. b = DigitKey(a, k.arg)
    BY <1>7 DEF PlainKey
  <2>2. QED
    BY <2>1, DigitResult
<1>8. CASE k.key = "click"
  <2>1. b = RequestSwitch(a, k.arg.name, FALSE) \/ b = ClickGroup(a, k.arg.name)
    BY <1>8 DEF PlainKey
  <2>2. QED
    BY <2>1, SwitchKey, GroupResult
<1>9. CASE k.key = "click-agent"
  <2>1. b = a \/ b = ActivateFocusedAgent([a EXCEPT !.panel = "agents", !.agentIdx = k.arg])
    BY <1>9 DEF PlainKey
  <2>2. QED
    BY <2>1, <1>3, <1>4
<1>10. CASE k.key = "drag"
  <2>1. b = SetDetailHeight(a, k.arg)
    BY <1>10 DEF PlainKey
  <2>2. QED
    BY <2>1, HeightResult
<1>11. CASE k.key = "tab"
  <2>1. b = SwitchToRelative(a, k.arg)
    BY <1>11 DEF PlainKey
  <2>2. QED
    BY <2>1, TabResult
<1>12. CASE k.key = "enter"
  <2>1. b = ActivateFocusedItem(a)
    BY <1>12 DEF PlainKey
  <2>2. QED
    BY <2>1, <1>5
<1>13. CASE k.key = "move"
  <2>1. b = MoveAgentFocus(a, k.arg) \/ b = MoveFocus(a, k.arg)
    BY <1>13 DEF PlainKey
  <2>2. QED
    BY <2>1, MoveResult, MoveAgentResult
<1>14. CASE k.key = "alt"
  <2>1. b = Reorder(a, k.arg)
    BY <1>14 DEF PlainKey
  <2>2. QED
    BY <2>1, ReorderResult
<1>15. CASE k.key \in {"left", "right"}
  <2>1. b = LeftKey(a) \/ b = RightKey(a)
    BY <1>15 DEF PlainKey
  <2>2. QED
    BY <2>1, ArrowResult
<1>16. CASE k.key \in {"ctrl-j", "ctrl-k", "esc"}
  <2>1. b = FocusAgentsPanel(a) \/ b = [a EXCEPT !.panel = "sessions"]
    BY <1>16 DEF PlainKey
  <2>2. KeyResult(a, FocusAgentsPanel(a)) /\ KeyResult(a, [a EXCEPT !.panel = "sessions"])
    BY PanelResult
  <2>3. QED
    BY <2>1, <2>2
<1>17. CASE k.key \in {"q", "t", "w"}
  <2>1. b \in {[a EXCEPT !.modal = quit], [a EXCEPT !.modal = theme], [a EXCEPT !.modal = width]}
    BY <1>17 DEF PlainKey
  <2>2. QED
    BY <2>1, <1>3
<1>18. CASE k.key \in {"R", "u"}
  <2>1. b = Send(a, refresh) \/ b = Send(a, show)
    BY <1>18 DEF PlainKey
  <2>2. QED
    BY <2>1, <1>3
<1>19. CASE k.key = "r"
  <2>1. b = FocusedSessionModal(a, rename)
    BY <1>19 DEF PlainKey
  <2>2. QED
    BY <2>1, <1>6
<1>20. CASE k.key \in {"d", "x", "W"}
  <2>1. b \in {HideKey(a), KillKey(a), OpenWindowManager(a)}
    BY <1>20 DEF PlainKey
  <2>2. QED
    BY <2>1, HideResult, KillResult, OpenResult
<1>21. CASE k.key \in {"f", "a"}
  <2>1. b = CycleFilter(a) \/ b = ToggleScope(a)
    BY <1>21 DEF PlainKey
  <2>2. QED
    BY <2>1, FilterResult, ScopeResult
<1>22. CASE k.key \notin {"digit", "click", "click-agent", "drag", "tab", "enter", "move", "alt",
                          "left", "right", "ctrl-j", "ctrl-k", "esc", "q", "t", "w", "R", "u",
                          "r", "d", "x", "W", "f", "a"}
  <2>1. b = a
    BY <1>22 DEF PlainKey
  <2>2. QED
    BY <2>1, <1>3
<1>23. QED
  BY <1>7, <1>8, <1>9, <1>10, <1>11, <1>12, <1>13, <1>14, <1>15, <1>16, <1>17, <1>18, <1>19,
     <1>20, <1>21, <1>22

(* Keys in a dialog.                                                        *)
LEMMA CloseResult == ASSUME NEW a, Ready(a) PROVE KeyResult(a, Close(a))
<1>1. SoundModal(NoModal)
  BY DEF SoundModal, NoModal, Dialogs
<1>2. QED
  BY <1>1, Dialog DEF Close

LEMMA CloseFacts ==
    ASSUME NEW a, Ready(a)
    PROVE  /\ Alike(a, Close(a), {"modal"}) /\ SoundModal(Close(a).modal) /\ Close(a).commands = <<>>
           /\ Alike(a, Close(a), Handy)
BY DEF Close, Alike, AppFields, Handy, SoundModal, NoModal, Ready, Sound

LEMMA ClosingSend ==
    ASSUME NEW a, Ready(a), NEW m, Offered(m), m.type # "width"
    PROVE  KeyResult(a, Send(Close(a), m)) /\ KeyResult(a, Close(Send(a, m)))
<1>1. Alike(a, Close(a), Handy) /\ SoundModal(Close(a).modal) /\ Close(a).commands = <<>>
  BY CloseFacts
<1>2. KeyResult(a, Send(Close(a), m))
  BY <1>1, Sending
<1>3. KeyResult(a, Close(Send(a, m)))
  <2> DEFINE x == Send(a, m)
             b == Close(x)
  <2>1. Alike(a, x, {"commands"}) /\ x.commands = <<m>>
    BY SendFacts DEF Ready, Sound
  <2> HIDE DEF x
  <2>2. Alike(a, b, Handy) /\ b.modal = NoModal /\ b.commands = <<m>>
    BY <2>1 DEF Close, Alike, Handy, AppFields, Ready, Sound
  <2> HIDE DEF b
  <2>3. SoundModal(b.modal)
    BY <2>2 DEF SoundModal, NoModal, Dialogs
  <2>4. Offers(b.commands) /\ ~IsWidth(b.commands)
    BY <2>2, OfferOne
  <2>5. KeyResult(a, b)
    BY <2>2, <2>3, <2>4, Plainly
  <2>6. QED
    BY <2>5 DEF b, x
<1>4. QED
  BY <1>2, <1>3

(* A value requested by closing its dialog.                                 *)
LEMMA ClosingRequest ==
    ASSUME NEW a, Ready(a), NEW t \in SettingTypes, NEW v
    PROVE  KeyResult(a, Close(Request(a, t, v)))
<1> DEFINE y == Request(a, t, v)
           b == Close(y)
<1>1. /\ Alike(a, a, Handy \cup {"settings"}) /\ SoundModal(a.modal) /\ a.commands = <<>>
      /\ DOMAIN a.settings = DOMAIN a.settings
  BY DEF Alike, Ready, Sound
<1>2. Alike(a, y, {"intents", "nextRequest", "commands"})
  BY RequestFacts DEF Ready
<1>3. AppFields \subseteq DOMAIN y
  BY <1>2 DEF Alike, Ready, Sound
<1> HIDE DEF y
<1>4. Alike(y, b, {"surrogate", "panel", "agentIdx", "modal"}) /\ b.modal = NoModal
  BY <1>3 DEF Close, Alike, AppFields
<1>5. SoundModal(NoModal)
  BY DEF SoundModal, NoModal, Dialogs
<1> HIDE DEF b
<1>6. KeyResult(a, b)
  BY <1>1, <1>4, <1>5, RequestResult DEF y
<1>7. QED
  BY <1>6 DEF b, y

LEMMA RenameResult ==
    ASSUME NEW a, Ready(a), a.modal.kind = "rename", NEW k \in Keys
    PROVE  KeyResult(a, RenameKey(a, k))
<1> DEFINE d == [a.modal EXCEPT !.draft = k.arg]
           m == [type |-> "rename", name |-> a.modal.name, value |-> a.modal.draft]
<1>1. /\ {"kind", "name", "draft"} \subseteq DOMAIN a.modal
      /\ a.modal.draft # a.modal.name => a.modal.draft # None
  BY DEF Ready, Sound, SoundModal, Dialogs
<1>2. CASE k.key = "type"
  <2>1. k.arg # None
    BY <1>2, SidebarsAssumption, ValuesAssumption DEF SidebarsAssumption, ValuesAssumption
  <2>2. SoundModal(d)
    BY <1>1, <2>1 DEF SoundModal, Dialogs
  <2>3. RenameKey(a, k) = [a EXCEPT !.modal = d]
    BY <1>2 DEF RenameKey
  <2> HIDE DEF d
  <2>4. QED
    BY <2>2, <2>3, Dialog
<1>3. CASE k.key = "enter" /\ a.modal.draft # a.modal.name
  <2>1. Offered(m) /\ m.type # "width"
    BY <1>1, <1>3 DEF Offered, Told, Revised
  <2>2. RenameKey(a, k) = Send(Close(a), m)
    BY <1>3 DEF RenameKey
  <2> HIDE DEF m
  <2>3. QED
    BY <2>1, <2>2, ClosingSend
<1>4. CASE k.key # "type" /\ ~(k.key = "enter" /\ a.modal.draft # a.modal.name)
  <2>1. RenameKey(a, k) \in {Close(a), a}
    BY <1>4 DEF RenameKey
  <2>2. QED
    BY <2>1, CloseResult, Unchanged
<1>5. QED
  BY <1>2, <1>3, <1>4

LEMMA ThemeResult ==
    ASSUME NEW a, Ready(a), a.modal.kind = "theme", NEW k
    PROVE  KeyResult(a, ThemeKey(a, k))
<1>1. ASSUME NEW v, NEW b, Alike(a, b, {"settings", "modal"}), SoundModal(b.modal),
             b.settings = [a.settings EXCEPT !["theme"] = v]
      PROVE  KeyResult(a, b)
  <2>1. /\ b.sessions = a.sessions /\ b.filter = a.filter /\ b.collapsed = a.collapsed
        /\ b.focus = a.focus /\ b.local = a.local /\ b.pending = a.pending
        /\ b.intents = a.intents /\ b.revision = a.revision /\ b.commands = <<>>
        /\ AppFields \subseteq DOMAIN b
    BY <1>1 DEF Alike, AppFields, Ready, Sound
  <2>2. /\ DOMAIN b.settings = SettingTypes
        /\ \A t \in SettingTypes : t # "theme" => b.settings[t] = a.settings[t]
    BY <1>1 DEF Ready, Sound
  <2>3. Sound(b)
    BY <1>1, <2>1, <2>2 DEF Ready, Sound
  <2>4. GoodFocus(a) => GoodFocus(b)
    BY <2>1, ListFacts
  <2>5. QED
    BY <2>1, <2>2, <2>3, <2>4, OfferNone DEF KeyResult, KeptOrAsked
<1>2. AppFields \subseteq DOMAIN a /\ SoundModal(a.modal) /\ SoundModal(NoModal)
  BY DEF Ready, Sound, SoundModal, NoModal
<1>3. CASE k.key = "preview"
  <2> DEFINE b == ThemeKey(a, k)
  <2>1. b = [a EXCEPT !.settings["theme"] = k.arg]
    BY <1>3 DEF ThemeKey
  <2>2. /\ Alike(a, b, {"settings", "modal"}) /\ b.modal = a.modal
        /\ b.settings = [a.settings EXCEPT !["theme"] = k.arg]
    BY <1>2, <2>1 DEF Alike, AppFields
  <2> HIDE DEF b
  <2>3. KeyResult(a, b)
    BY <1>1, <1>2, <2>2
  <2>4. QED
    BY <2>3 DEF b
<1>4. CASE k.key = "esc"
  <2> DEFINE b == ThemeKey(a, k)
             v == a.modal.original
  <2>1. b = [[a EXCEPT !.settings["theme"] = v] EXCEPT !.modal = NoModal]
    BY <1>4 DEF ThemeKey, Close
  <2>2. /\ Alike(a, b, {"settings", "modal"}) /\ b.modal = NoModal
        /\ b.settings = [a.settings EXCEPT !["theme"] = v]
    BY <1>2, <2>1 DEF Alike, AppFields
  <2> HIDE DEF b, v
  <2>3. KeyResult(a, b)
    BY <1>1, <1>2, <2>2
  <2>4. QED
    BY <2>3 DEF b
<1>5. CASE k.key \notin {"preview", "esc"}
  <2>1. ThemeKey(a, k) = Close(Request(a, "theme", a.settings["theme"])) \/ ThemeKey(a, k) = a
    BY <1>5 DEF ThemeKey
  <2>2. "theme" \in SettingTypes
    BY DEF SettingTypes
  <2>3. KeyResult(a, Close(Request(a, "theme", a.settings["theme"])))
    BY <2>2, ClosingRequest
  <2>4. QED
    BY <2>1, <2>3, Unchanged
<1>6. QED
  BY <1>3, <1>4, <1>5

LEMMA WidthResult ==
    ASSUME NEW a, Ready(a), a.modal.kind = "width", NEW k
    PROVE  KeyResult(a, WidthKey(a, k))
<1> DEFINE next == Clamped(a.modal.draft + k.arg, MaxWidth)
           x == [a EXCEPT !.modal.draft = next, !.settings["width"] = next]
           y == Request(x, "width", next)
<1>1. "width" \in SettingTypes
  BY DEF SettingTypes
<1>2. \/ WidthKey(a, k) = a \/ WidthKey(a, k) = y
      \/ WidthKey(a, k) = Close(Request(a, "width", a.modal.draft))
  BY DEF WidthKey
<1> HIDE DEF next
<1>3. /\ Alike(a, x, {"settings", "modal"}) /\ x.modal = [a.modal EXCEPT !.draft = next]
      /\ x.settings = [a.settings EXCEPT !["width"] = next]
  BY DEF Alike, AppFields, Ready, Sound
<1> HIDE DEF x
<1>4. x.modal.kind = "width" /\ "kind" \in DOMAIN x.modal
  BY <1>3 DEF Ready, Sound, SoundModal, Dialogs
<1>5. /\ Alike(a, x, Handy \cup {"settings"}) /\ x.commands = <<>> /\ SoundModal(x.modal)
      /\ x.local = a.local /\ x.revision = a.revision /\ x.intents = a.intents
  BY <1>3, <1>4 DEF Alike, Handy, AppFields, Ready, Sound, SoundModal, Dialogs
<1>6. /\ DOMAIN x.settings = DOMAIN a.settings
      /\ \A u \in SettingTypes : u # "width" /\ u # "theme" => x.settings[u] = a.settings[u]
  BY <1>3 DEF Ready, Sound
<1>7. Sound(x)
  BY <1>5, <1>6 DEF Ready, Sound, Alike
<1>8. Alike(x, y, {"intents", "nextRequest", "commands"})
  BY <1>1, <1>7, RequestFacts
<1>9. y.modal = x.modal /\ Alike(y, y, {"surrogate", "panel", "agentIdx", "modal"})
  BY <1>8 DEF Alike, AppFields
<1> HIDE DEF y
<1>10. KeyResult(a, y)
  BY <1>1, <1>5, <1>6, <1>9, RequestResult DEF y
<1>11. KeyResult(a, Close(Request(a, "width", a.modal.draft)))
  BY <1>1, ClosingRequest
<1>12. QED
  BY <1>2, <1>10, <1>11, Unchanged

LEMMA ConfirmResult ==
    ASSUME NEW a, Ready(a), NEW k
    PROVE  KeyResult(a, KillConfirmKey(a, k)) /\ KeyResult(a, QuitConfirmKey(a, k))
<1> DEFINE m == [type |-> "kill-session", names |-> KillTargets(a, a.modal.target)]
           q == [type |-> "quit"]
           x == Send(Close(a), q)
           b == [x EXCEPT !.quitting = TRUE]
<1>1. Offered(m) /\ m.type # "width" /\ Offered(q) /\ q.type # "width"
  BY DEF Offered, Told, Revised
<1>2. KillConfirmKey(a, k) = Send(Close(a), m) \/ KillConfirmKey(a, k) = Close(a)
  BY DEF KillConfirmKey
<1>3. QuitConfirmKey(a, k) = b \/ QuitConfirmKey(a, k) = Close(a)
  BY DEF QuitConfirmKey
<1> HIDE DEF m, q
<1>4. KeyResult(a, Send(Close(a), m)) /\ KeyResult(a, Close(a))
  BY <1>1, ClosingSend, CloseResult
<1>5. Alike(a, Close(a), Handy) /\ SoundModal(Close(a).modal) /\ Close(a).commands = <<>>
  BY CloseFacts
<1>6. AppFields \subseteq DOMAIN Close(a)
  BY <1>5 DEF Alike, Ready, Sound
<1>7. Alike(Close(a), x, {"commands"}) /\ x.commands = <<q>>
  BY <1>5, <1>6, SendFacts
<1> HIDE DEF x
<1>8. Alike(a, b, Handy) /\ b.modal = Close(a).modal /\ b.commands = <<q>>
  BY <1>5, <1>6, <1>7 DEF Alike, Handy, AppFields
<1> HIDE DEF b
<1>9. KeyResult(a, b)
  BY <1>1, <1>5, <1>8, OfferOne, Plainly
<1>10. QED
  BY <1>2, <1>3, <1>4, <1>9

LEMMA WindowsResult ==
    ASSUME NEW a, Ready(a), a.modal.kind = "windows", NEW k
    PROVE  KeyResult(a, WindowsKey(a, k))
<1> DEFINE d == a.modal
<1>1. "kind" \in DOMAIN d /\ d.kind = "windows"
  BY DEF Ready, Sound, SoundModal, Dialogs
<1>2. ASSUME NEW x, SoundModal(x) PROVE KeyResult(a, [a EXCEPT !.modal = x])
  BY <1>2, Dialog
<1>3. \A mark \in BOOLEAN : KeyResult(a, SetMark(a, mark))
  <2> SUFFICES ASSUME NEW mark \in BOOLEAN PROVE KeyResult(a, SetMark(a, mark))
    OBVIOUS
  <2> DEFINE v == IF mark /\ ~d.windows[d.selected].active
                  THEN d.marked \cup {d.windows[d.selected].id}
                  ELSE d.marked \ {d.windows[d.selected].id}
             e == [d EXCEPT !.marked = v]
  <2>1. SetMark(a, mark) = a \/ SetMark(a, mark) = [a EXCEPT !.modal = e]
    BY DEF SetMark
  <2>2. SoundModal(e)
    BY <1>1 DEF SoundModal, Dialogs
  <2> HIDE DEF e
  <2>3. QED
    BY <1>2, <2>1, <2>2, Unchanged
<1>4. KeyResult(a, WindowsEnter(a))
  <2> DEFINE m1 == [type |-> "switch-window", name |-> d.session, window |-> d.windows[d.selected].id]
             m2 == [type |-> "kill-windows", name |-> d.session, windows |-> d.marked]
             e  == [d EXCEPT !.confirming = TRUE]
  <2>1. Offered(m1) /\ m1.type # "width" /\ Offered(m2) /\ m2.type # "width"
    BY DEF Offered, Told, Revised
  <2>2. SoundModal(e)
    BY <1>1 DEF SoundModal, Dialogs
  <2>3. WindowsEnter(a) \in {a, Close(Send(a, m1)), [a EXCEPT !.modal = e], Close(Send(a, m2))}
    BY DEF WindowsEnter
  <2> HIDE DEF e, m1, m2
  <2>4. /\ KeyResult(a, Close(Send(a, m1))) /\ KeyResult(a, Close(Send(a, m2)))
        /\ KeyResult(a, [a EXCEPT !.modal = e])
    BY <1>2, <2>1, <2>2, ClosingSend
  <2>5. QED
    BY <2>3, <2>4, Unchanged
<1>5. CASE k.key = "move"
  <2> DEFINE e == [d EXCEPT !.selected = Clamped(d.selected + k.arg, Len(d.windows))]
  <2>1. WindowsKey(a, k) = a \/ WindowsKey(a, k) = [a EXCEPT !.modal = e]
    BY <1>5 DEF WindowsKey
  <2>2. SoundModal(e)
    BY <1>1 DEF SoundModal, Dialogs
  <2> HIDE DEF e
  <2>3. QED
    BY <1>2, <2>1, <2>2, Unchanged
<1>6. CASE k.key = "esc"
  <2> DEFINE e == [d EXCEPT !.confirming = FALSE]
  <2>1. WindowsKey(a, k) = Close(a) \/ WindowsKey(a, k) = [a EXCEPT !.modal = e]
    BY <1>6 DEF WindowsKey
  <2>2. SoundModal(e)
    BY <1>1 DEF SoundModal, Dialogs
  <2> HIDE DEF e
  <2>3. QED
    BY <1>2, <2>1, <2>2, CloseResult
<1>7. CASE k.key \notin {"move", "esc"}
  <2>1. \/ WindowsKey(a, k) = SetMark(a, TRUE) \/ WindowsKey(a, k) = SetMark(a, FALSE)
        \/ WindowsKey(a, k) = WindowsEnter(a) \/ WindowsKey(a, k) = a
    BY <1>7 DEF WindowsKey
  <2>2. QED
    BY <1>3, <1>4, <2>1, Unchanged
<1>8. QED
  BY <1>5, <1>6, <1>7

(* Whatever key it is.                                                      *)
LEMMA KeyFacts == ASSUME NEW a, Ready(a), NEW k \in Keys PROVE KeyResult(a, ApplyKey(a, k))
<1>1. a.modal = NoModal \/ a.modal.kind \in Dialogs
  BY DEF Ready, Sound, SoundModal
<1>2. KeyResult(a, PlainKey(a, k)) /\ KeyResult(a, Close(a)) /\ KeyResult(a, a)
  BY PlainResult, CloseResult, Unchanged
<1>3. KeyResult(a, KillConfirmKey(a, k)) /\ KeyResult(a, QuitConfirmKey(a, k))
  BY ConfirmResult
<1>4. CASE a.modal.kind = "rename"
  <2>1. ModalKey(a, k) = RenameKey(a, k)
    BY <1>4 DEF ModalKey
  <2>2. KeyResult(a, ModalKey(a, k))
    BY <1>4, <2>1, RenameResult
  <2>3. QED
    BY <1>2, <2>2 DEF ApplyKey
<1>5. CASE a.modal.kind = "theme"
  <2>1. ModalKey(a, k) = ThemeKey(a, k)
    BY <1>5 DEF ModalKey
  <2>2. KeyResult(a, ModalKey(a, k))
    BY <1>5, <2>1, ThemeResult
  <2>3. QED
    BY <1>2, <2>2 DEF ApplyKey
<1>6. CASE a.modal.kind = "width"
  <2>1. ModalKey(a, k) = WidthKey(a, k)
    BY <1>6 DEF ModalKey
  <2>2. KeyResult(a, ModalKey(a, k))
    BY <1>6, <2>1, WidthResult
  <2>3. QED
    BY <1>2, <2>2 DEF ApplyKey
<1>7. CASE a.modal.kind = "windows"
  <2>1. ModalKey(a, k) = WindowsKey(a, k)
    BY <1>7 DEF ModalKey
  <2>2. KeyResult(a, ModalKey(a, k))
    BY <1>7, <2>1, WindowsResult
  <2>3. QED
    BY <1>2, <2>2 DEF ApplyKey
<1>8. CASE a.modal.kind \in {"kill", "quit"}
  <2>1. ModalKey(a, k) = KillConfirmKey(a, k) \/ ModalKey(a, k) = QuitConfirmKey(a, k)
    BY <1>8 DEF ModalKey
  <2>2. KeyResult(a, ModalKey(a, k))
    BY <1>3, <2>1
  <2>3. QED
    BY <1>2, <2>2 DEF ApplyKey
<1>9. CASE a.modal = NoModal
  BY <1>2, <1>9 DEF ApplyKey
<1>10. QED
  BY <1>1, <1>4, <1>5, <1>6, <1>7, <1>8, <1>9 DEF Dialogs

------------------------------------------------------------------------------
(* What a message does to an app.                                            *)

(* A setting of the server's: taken over, unless the sidebar waits for its  *)
(* own; and a theme not under the picker.                                   *)
Reconciling == {"settings", "intents", "modal", "panel", "agentIdx"}

Reconciled(a, b, t, v) ==
    /\ Alike(a, b, Reconciling) /\ SoundModal(b.modal)
    /\ DOMAIN b.settings = DOMAIN a.settings /\ DOMAIN b.intents = DOMAIN a.intents
    /\ \A u \in SettingTypes : u # t =>
         b.settings[u] = a.settings[u] /\ b.intents[u] = a.intents[u]
    /\ b.intents[t] = a.intents[t] \/ b.intents[t] = <<>>
    /\ t # "theme" /\ b.intents[t] = <<>> => b.settings[t] = v

LEMMA SettleFacts ==
    ASSUME NEW a, Sound(a), NEW t \in SettingTypes, NEW v
    PROVE  /\ Reconciled(a, Settle(a, t, v), t, v)
           /\ Settle(a, t, v).modal = a.modal
<1>1. AppFields \subseteq DOMAIN a /\ t \in DOMAIN a.settings /\ t \in DOMAIN a.intents
      /\ SoundModal(a.modal)
  BY DEF Sound
<1>2. CASE a.intents[t] = <<>>
  <2> DEFINE b == [a EXCEPT !.settings[t] = v]
  <2>1. Settle(a, t, v) = b
    BY <1>2 DEF Settle
  <2>2. /\ Alike(a, b, {"settings"}) /\ b.settings = [a.settings EXCEPT ![t] = v]
        /\ b.intents = a.intents /\ b.modal = a.modal
    BY <1>1 DEF Alike, AppFields
  <2> HIDE DEF b
  <2>3. Alike(a, b, Reconciling)
    BY <2>2 DEF Alike, Reconciling
  <2>4. QED
    BY <1>1, <1>2, <2>1, <2>2, <2>3 DEF Reconciled
<1>3. CASE a.intents[t] # <<>> /\ a.intents[t][2] = v
  <2> DEFINE b == [a EXCEPT !.settings[t] = v, !.intents[t] = <<>>]
  <2>1. Settle(a, t, v) = b
    BY <1>3 DEF Settle
  <2>2. /\ Alike(a, b, {"settings", "intents"}) /\ b.settings = [a.settings EXCEPT ![t] = v]
        /\ b.intents = [a.intents EXCEPT ![t] = <<>>] /\ b.modal = a.modal
    BY <1>1 DEF Alike, AppFields
  <2> HIDE DEF b
  <2>3. Alike(a, b, Reconciling)
    BY <2>2 DEF Alike, Reconciling
  <2>4. QED
    BY <1>1, <1>3, <2>1, <2>2, <2>3 DEF Reconciled
<1>4. CASE a.intents[t] # <<>> /\ a.intents[t][2] # v
  <2>1. Settle(a, t, v) = a
    BY <1>4 DEF Settle
  <2>2. QED
    BY <1>1, <1>4, <2>1 DEF Reconciled, Alike
<1>5. QED
  BY <1>2, <1>3, <1>4

(* What is reconciled stays sound; a dialog and the panel may follow.       *)
LEMMA ReconciledSound ==
    ASSUME NEW a, Sound(a), NEW t \in SettingTypes, NEW v, NEW b, Reconciled(a, b, t, v)
    PROVE  Sound(b)
<1>1. b.local = a.local /\ b.revision = a.revision
  BY DEF Reconciled, Alike, AppFields, Reconciling
<1>2. QED
  BY <1>1 DEF Reconciled, Sound, Alike

LEMMA ReconciledThen ==
    ASSUME NEW a, NEW t \in SettingTypes, NEW v, NEW b, Reconciled(a, b, t, v),
           NEW d, Alike(b, d, {"modal", "panel", "agentIdx"}), SoundModal(d.modal)
    PROVE  Reconciled(a, d, t, v)
<1>1. d.settings = b.settings /\ d.intents = b.intents
  BY DEF Alike, AppFields
<1>2. Alike(a, d, Reconciling)
  BY DEF Reconciled, Alike, Reconciling
<1>3. QED
  BY <1>1, <1>2 DEF Reconciled

LEMMA ApplyFacts ==
    ASSUME NEW a, Sound(a), NEW v
    PROVE  /\ Reconciled(a, ApplyServerWidth(a, v), "width", v)
           /\ Reconciled(a, ApplyServerTheme(a, v), "theme", v)
           /\ Reconciled(a, ApplyServerScope(a, v), "scope", v)
           /\ Reconciled(a, Settle(a, "height", v), "height", v)
<1>1. {"width", "theme", "scope", "height"} = SettingTypes
  BY DEF SettingTypes
<1>2. Reconciled(a, ApplyServerWidth(a, v), "width", v)
  <2> DEFINE x == Settle(a, "width", v)
             b == [x EXCEPT !.modal.draft = v]
  <2>1. Reconciled(a, x, "width", v)
    BY <1>1, SettleFacts
  <2>2. ApplyServerWidth(a, v) = x \/ (x.modal.kind = "width" /\ ApplyServerWidth(a, v) = b)
    BY DEF ApplyServerWidth
  <2> HIDE DEF x
  <2>3. Sound(x)
    BY <1>1, <2>1, ReconciledSound
  <2>4. ASSUME x.modal.kind = "width" PROVE Reconciled(a, b, "width", v)
    <3>1. Alike(x, b, {"modal", "panel", "agentIdx"}) /\ b.modal = [x.modal EXCEPT !.draft = v]
      BY <2>3 DEF Alike, AppFields, Sound
    <3>2. "kind" \in DOMAIN x.modal
      BY <2>3 DEF Sound, SoundModal
    <3> HIDE DEF b
    <3>3. SoundModal(b.modal)
      BY <2>4, <3>1, <3>2 DEF SoundModal, Dialogs
    <3>4. QED
      BY <1>1, <2>1, <3>1, <3>3, ReconciledThen
  <2>5. QED
    BY <2>1, <2>2, <2>4
<1>3. Reconciled(a, ApplyServerTheme(a, v), "theme", v)
  <2>1. Reconciled(a, Settle(a, "theme", v), "theme", v)
    BY <1>1, SettleFacts
  <2>2. Reconciled(a, a, "theme", v)
    BY DEF Reconciled, Alike, Sound
  <2>3. QED
    BY <2>1, <2>2 DEF ApplyServerTheme
<1>4. Reconciled(a, ApplyServerScope(a, v), "scope", v)
  <2> DEFINE x == Settle(a, "scope", v)
             b == ClampAgent(x)
  <2>1. Reconciled(a, x, "scope", v)
    BY <1>1, SettleFacts
  <2>2. ApplyServerScope(a, v) = x \/ ApplyServerScope(a, v) = b
    BY DEF ApplyServerScope
  <2> HIDE DEF x
  <2>3. Sound(x)
    BY <1>1, <2>1, ReconciledSound
  <2>4. Alike(x, b, {"panel", "agentIdx"})
    BY <2>3, ClampFacts DEF Sound
  <2> HIDE DEF b
  <2>5. Alike(x, b, {"modal", "panel", "agentIdx"}) /\ b.modal = x.modal
    BY <2>4 DEF Alike, AppFields
  <2>6. Reconciled(a, b, "scope", v)
    BY <1>1, <2>1, <2>3, <2>5, ReconciledThen DEF Sound
  <2>7. QED
    BY <2>1, <2>2, <2>6 DEF b
<1>5. Reconciled(a, Settle(a, "height", v), "height", v)
  BY <1>1, SettleFacts
<1>6. QED
  BY <1>2, <1>3, <1>4, <1>5

(* A snapshot of an earlier revision changes no setting; another one those  *)
(* the sidebar does not wait for.                                           *)
Updated(a, b, st) ==
    /\ b.revision = IF st.revision < a.revision THEN a.revision ELSE st.revision
    /\ st.revision < a.revision =>
         \A t \in SettingTypes : b.settings[t] = a.settings[t] /\ b.intents[t] = a.intents[t]
    /\ st.revision >= a.revision =>
         \A t \in SettingTypes :
             /\ b.intents[t] = a.intents[t] \/ b.intents[t] = <<>>
             /\ t # "theme" /\ b.intents[t] = <<>> => b.settings[t] = st.settings[t]

LEMMA SettingsFacts ==
    ASSUME NEW a, Sound(a), NEW st, st.revision \in Nat
    PROVE  LET b == ApplyServerSettings(a, st) IN
           /\ Sound(b) /\ Alike(a, b, Reconciling \cup {"revision"})
           /\ Updated(a, b, st)
<1> DEFINE x0 == [a EXCEPT !.revision = st.revision]
           x1 == ApplyServerWidth(x0, st.settings["width"])
           x2 == ApplyServerTheme(x1, st.settings["theme"])
           x3 == ApplyServerScope(x2, st.settings["scope"])
           x4 == Settle(x3, "height", st.settings["height"])
           b  == ApplyServerSettings(a, st)
<1>1. b = IF st.revision < a.revision THEN a ELSE x4
  BY DEF ApplyServerSettings
<1>2. CASE st.revision < a.revision
  <2>1. b = a
    BY <1>1, <1>2
  <2>2. a.revision \in Nat
    BY DEF Sound
  <2> HIDE DEF b
  <2>3. Sound(b) /\ Alike(a, b, Reconciling \cup {"revision"}) /\ Updated(a, b, st)
    BY <1>2, <2>1, <2>2 DEF Alike, Updated
  <2>4. QED
    BY <2>3 DEF b
<1>3. CASE ~(st.revision < a.revision)
  <2>1. AppFields \subseteq DOMAIN a /\ a.revision \in Nat
    BY DEF Sound
  <2>2. /\ Alike(a, x0, {"revision"}) /\ x0.revision = st.revision /\ x0.settings = a.settings
        /\ x0.intents = a.intents /\ x0.modal = a.modal /\ x0.local = a.local
    BY <2>1 DEF Alike, AppFields
  <2> HIDE DEF x0
  <2>3. Sound(x0)
    BY <2>2 DEF Sound, Alike
  <2>4. {"width", "theme", "scope", "height"} = SettingTypes
    BY DEF SettingTypes
  <2>5. Reconciled(x0, x1, "width", st.settings["width"]) /\ Sound(x1)
    BY <2>3, <2>4, ApplyFacts, ReconciledSound
  <2> HIDE DEF x1
  <2>6. Reconciled(x1, x2, "theme", st.settings["theme"]) /\ Sound(x2)
    BY <2>4, <2>5, ApplyFacts, ReconciledSound
  <2> HIDE DEF x2
  <2>7. Reconciled(x2, x3, "scope", st.settings["scope"]) /\ Sound(x3)
    BY <2>4, <2>6, ApplyFacts, ReconciledSound
  <2> HIDE DEF x3
  <2>8. Reconciled(x3, x4, "height", st.settings["height"]) /\ Sound(x4)
    BY <2>4, <2>7, ApplyFacts, ReconciledSound
  <2>9. b = x4
    BY <1>1, <1>3
  <2> HIDE DEF x4
  <2>10. /\ Alike(x0, x1, Reconciling) /\ Alike(x1, x2, Reconciling)
         /\ Alike(x2, x3, Reconciling) /\ Alike(x3, x4, Reconciling)
    BY <2>5, <2>6, <2>7, <2>8 DEF Reconciled
  <2>11. Alike(a, x4, Reconciling \cup {"revision"})
    BY <2>2, <2>10 DEF Alike
  <2>12. x4.revision = st.revision
    BY <2>2, <2>10 DEF Alike, AppFields, Reconciling
  <2>13. /\ x4.intents["width"] = x1.intents["width"] /\ x4.settings["width"] = x1.settings["width"]
         /\ x0.intents["width"] = a.intents["width"]
    BY <2>2, <2>4, <2>6, <2>7, <2>8 DEF Reconciled
  <2>14. /\ x4.intents["theme"] = x2.intents["theme"]
         /\ x1.intents["theme"] = a.intents["theme"]
    BY <2>2, <2>4, <2>5, <2>7, <2>8 DEF Reconciled
  <2>15. /\ x4.intents["scope"] = x3.intents["scope"] /\ x4.settings["scope"] = x3.settings["scope"]
         /\ x2.intents["scope"] = a.intents["scope"]
    BY <2>2, <2>4, <2>5, <2>6, <2>8 DEF Reconciled
  <2>16. x3.intents["height"] = a.intents["height"]
    BY <2>2, <2>4, <2>5, <2>6, <2>7 DEF Reconciled
  <2>17. ASSUME NEW t \in SettingTypes
         PROVE  /\ x4.intents[t] = a.intents[t] \/ x4.intents[t] = <<>>
                /\ t # "theme" /\ x4.intents[t] = <<>> => x4.settings[t] = st.settings[t]
    <3>1. CASE t = "width"
      BY <2>5, <2>13, <3>1 DEF Reconciled
    <3>2. CASE t = "theme"
      BY <2>6, <2>14, <3>2 DEF Reconciled
    <3>3. CASE t = "scope"
      BY <2>7, <2>15, <3>3 DEF Reconciled
    <3>4. CASE t = "height"
      BY <2>8, <2>16, <3>4 DEF Reconciled
    <3>5. QED
      BY <2>4, <3>1, <3>2, <3>3, <3>4
  <2>18. Updated(a, x4, st)
    BY <1>3, <2>1, <2>12, <2>17 DEF Updated
  <2>19. QED
    BY <2>8, <2>9, <2>11, <2>18
<1>4. QED
  BY <1>2, <1>3

(* A snapshot settles the focus and the pending switch.                     *)
LEMMA StateFacts ==
    ASSUME NEW a, Ready(a), NEW st, st.revision \in Nat
    PROVE  LET b == ApplyState(a, st) IN
           /\ Ready(b) /\ b.local = a.local /\ GoodFocus(b) /\ Updated(a, b, st)
           /\ b.pending # None =>
                Known(b, b.pending) /\ (st.current = b.pending => b.pending = b.local)
<1> DEFINE x0 == [a EXCEPT !.sessions = st.sessions]
           x1 == ApplyServerSettings(x0, st)
           x2 == [x1 EXCEPT !.filter = st.filter, !.collapsed = st.collapsed]
           x3 == ClearMissingPending(x2)
           x4 == RehomeExpandedSurrogate(x3)
           x5 == IF FocusExists(x4, a.focus) THEN x4 ELSE RehomeMissingFocus(x4)
           y  == [x5 EXCEPT !.pending = None]
           b  == ApplyState(a, st)
<1>1. b = ClearBackgroundPending(x5, st.current)
  BY DEF ApplyState
<1>2. AppFields \subseteq DOMAIN a /\ a.local # None /\ a.commands = <<>> /\ Sound(a)
  BY DEF Ready, Sound
<1>3. /\ Sound(x0) /\ x0.focus = a.focus /\ x0.local = a.local /\ x0.commands = <<>>
      /\ x0.settings = a.settings /\ x0.intents = a.intents /\ x0.revision = a.revision
  <2>1. Alike(a, x0, {"sessions"})
    BY <1>2 DEF Alike, AppFields
  <2> HIDE DEF x0
  <2>2. /\ x0.focus = a.focus /\ x0.local = a.local /\ x0.commands = <<>>
        /\ x0.settings = a.settings /\ x0.intents = a.intents /\ x0.revision = a.revision
        /\ x0.modal = a.modal
    BY <1>2, <2>1 DEF Alike, AppFields
  <2>3. QED
    BY <1>2, <2>1, <2>2 DEF Sound, Alike
<1> HIDE DEF x0
<1>4. Sound(x1) /\ Alike(x0, x1, Reconciling \cup {"revision"}) /\ Updated(x0, x1, st)
  BY <1>3, SettingsFacts
<1>5. Updated(a, x1, st)
  BY <1>3, <1>4 DEF Updated
<1>6. x1.focus = a.focus /\ x1.local = a.local /\ x1.commands = <<>>
  BY <1>3, <1>4 DEF Alike, AppFields, Reconciling
<1> HIDE DEF x1
<1>7. /\ Alike(x1, x2, {"filter", "collapsed"}) /\ AppFields \subseteq DOMAIN x1
  BY <1>4 DEF Alike, AppFields, Sound
<1>8. AppFields \subseteq DOMAIN x2
  BY <1>7 DEF Alike
<1> HIDE DEF x2
<1>9. /\ Alike(x2, x3, {"pending"}) /\ AppFields \subseteq DOMAIN x3
      /\ x3.pending # None => Known(x3, x3.pending)
  <2>1. CASE x2.pending # None /\ ~Known(x2, x2.pending)
    BY <1>8, <2>1 DEF ClearMissingPending, Alike, AppFields
  <2>2. CASE ~(x2.pending # None /\ ~Known(x2, x2.pending))
    <3>1. x3 = x2
      BY <2>2 DEF ClearMissingPending
    <3>2. QED
      BY <1>8, <2>2, <3>1 DEF Alike
  <2>3. QED
    BY <2>1, <2>2
<1>10. x3.focus = a.focus /\ x3.local # None
  BY <1>2, <1>6, <1>7, <1>9 DEF Alike, AppFields
<1> HIDE DEF x3
<1>11. Alike(x3, x4, Dressing) /\ (x4 = x3 \/ GoodFocus(x4))
  <2>1. CASE x3.surrogate # None /\ VisibleFocus(x3, x3.surrogate).kind = "session"
    <3> DEFINE f == SessionFocus(x3.surrogate)
    <3>1. x4 = SetFocusForSession(x3, x3.surrogate, f)
      BY <2>1 DEF RehomeExpandedSurrogate
    <3>2. VisibleFocus(x3, x3.surrogate) = f
      BY <2>1 DEF VisibleFocus, GroupFocus, NoFocus
    <3>3. FocusExists(x3, f)
      <4>1. VisibleFocus(x3, x3.surrogate) # NoFocus
        BY <2>1 DEF NoFocus
      <4>2. QED
        BY <3>2, <4>1, VisibleExists
    <3> HIDE DEF f
    <3>4. Alike(x3, x4, Dressing) /\ x4.focus = f
      BY <1>9, <3>1 DEF SetFocusForSession, SetFocus, Alike, AppFields, Dressing
    <3>5. x4.sessions = x3.sessions /\ x4.filter = x3.filter /\ x4.collapsed = x3.collapsed
      BY <3>4 DEF Alike, AppFields, Dressing
    <3> HIDE DEF x4
    <3>6. GoodFocus(x4)
      BY <3>3, <3>4, <3>5, ListFacts DEF GoodFocus
    <3>7. QED
      BY <3>4, <3>6
  <2>2. CASE ~(x3.surrogate # None /\ VisibleFocus(x3, x3.surrogate).kind = "session")
    <3>1. x4 = x3
      BY <2>2 DEF RehomeExpandedSurrogate
    <3>2. QED
      BY <3>1 DEF Alike
  <2>3. QED
    BY <2>1, <2>2
<1>12. AppFields \subseteq DOMAIN x4 /\ x4.local # None
  BY <1>9, <1>10, <1>11 DEF Alike, AppFields, Dressing
<1> HIDE DEF x4
<1>13. Alike(x4, x5, Dressing) /\ GoodFocus(x5)
  <2>1. CASE FocusExists(x4, a.focus)
    <3>1. x5 = x4
      BY <2>1
    <3>2. GoodFocus(x4)
      BY <1>10, <1>11, <2>1 DEF GoodFocus
    <3>3. QED
      BY <3>1, <3>2 DEF Alike
  <2>2. CASE ~FocusExists(x4, a.focus)
    <3>1. x5 = RehomeMissingFocus(x4)
      BY <2>2
    <3> HIDE DEF x5
    <3>2. CASE x4.pending # None /\ VisibleFocus(x4, x4.pending) # NoFocus
      <4>1. x5 = SetFocusIfChanged(x4, x4.pending, VisibleFocus(x4, x4.pending))
        BY <3>1, <3>2 DEF RehomeMissingFocus
      <4>2. QED
        BY <1>12, <3>2, <4>1, VisibleExists, RowFocus, SetFocusFacts
    <3>3. CASE ~(x4.pending # None /\ VisibleFocus(x4, x4.pending) # NoFocus)
      <4>1. x5 = RehomeToLocal(x4)
        BY <3>1, <3>3 DEF RehomeMissingFocus
      <4>2. QED
        BY <1>12, <4>1, RehomeFacts
    <3>4. QED
      BY <3>2, <3>3
  <2>3. QED
    BY <2>1, <2>2
<1>14. AppFields \subseteq DOMAIN x5 /\ x5.local # None
  BY <1>12, <1>13 DEF Alike, AppFields, Dressing
<1>15. x5.pending # None => Known(x5, x5.pending)
  <2>1. x5.pending = x3.pending /\ x5.sessions = x3.sessions
    BY <1>11, <1>13 DEF Alike, AppFields, Dressing
  <2>2. QED
    BY <1>9, <2>1 DEF Known
<1> HIDE DEF x5
<1>16. /\ Alike(x5, b, Dressing \cup {"pending"}) /\ GoodFocus(b)
       /\ b.pending # None =>
            Known(b, b.pending) /\ (st.current = b.pending => b.pending = b.local)
  <2>1. CASE st.current = None \/ x5.pending # st.current \/ x5.local = st.current
    <3>1. b = x5
      BY <1>1, <2>1 DEF ClearBackgroundPending
    <3> HIDE DEF b
    <3>2. QED
      BY <1>13, <1>15, <2>1, <3>1 DEF Alike
  <2>2. CASE ~(st.current = None \/ x5.pending # st.current \/ x5.local = st.current)
    <3>1. b = RehomeToLocal(y)
      BY <1>1, <2>2 DEF ClearBackgroundPending
    <3>2. Alike(x5, y, {"pending"}) /\ y.pending = None
      BY <1>14 DEF Alike, AppFields
    <3> HIDE DEF y, b
    <3>3. AppFields \subseteq DOMAIN y /\ y.local # None
      BY <1>14, <3>2 DEF Alike, AppFields
    <3>4. Alike(y, b, Dressing) /\ GoodFocus(b)
      BY <3>1, <3>3, RehomeFacts
    <3>5. b.pending = None
      BY <3>2, <3>4 DEF Alike, AppFields, Dressing
    <3>6. QED
      BY <3>2, <3>4, <3>5 DEF Alike
  <2>3. QED
    BY <2>1, <2>2
<1> HIDE DEF b, y
<1>17. \A x \in {"local", "commands", "settings", "intents", "revision", "modal"} : b[x] = x1[x]
  BY <1>7, <1>9, <1>11, <1>13, <1>16 DEF Alike, AppFields, Dressing
<1>18. /\ b.local = a.local /\ b.commands = <<>> /\ b.settings = x1.settings
       /\ b.intents = x1.intents /\ b.revision = x1.revision /\ b.modal = x1.modal
  BY <1>6, <1>17
<1>19. AppFields \subseteq DOMAIN b
  BY <1>14, <1>16 DEF Alike
<1>20. Ready(b)
  BY <1>2, <1>4, <1>18, <1>19 DEF Ready, Sound
<1>21. Updated(a, b, st)
  BY <1>5, <1>18 DEF Updated
<1>22. QED
  BY <1>16, <1>18, <1>20, <1>21 DEF b

(* What a sidebar sends on its own account as well.                         *)
Sent(m) ==
    /\ m.type \notin {"your-session", "re-identify"} \cup Revised
    /\ m.type = "rename" => m.value # None
    /\ m.type = "identify-pane" => m.name # None

Sendable(q) ==
    /\ IsSeq(q) /\ \A m \in ToSet(q) : Sent(m)
    /\ IsWidth(q) => q = <<Head(q)>>

LEMMA OffersSendable == ASSUME NEW q, Offers(q) PROVE Sendable(q)
BY DEF Offers, Sendable, Offered, Sent, Told

(* A message that is neither a snapshot nor an acknowledgement.             *)
MessageResult(a, b) ==
    /\ Sound(b)
    /\ b.sessions = a.sessions /\ b.revision = a.revision
    /\ b.settings = a.settings /\ b.intents = a.intents
    /\ Sendable(b.commands) /\ ~IsWidth(b.commands)
    /\ GoodFocus(a) => GoodFocus(b)
    /\ b.pending \in {a.pending, None}

LEMMA ConfirmResult2 ==
    ASSUME NEW a, Ready(a), NEW n, n # None, NEW b,
           Alike(ConfirmLocalSession(a, n), b, {"commands", "identity", "pane", "modal"}),
           SoundModal(b.modal), Sendable(b.commands), ~IsWidth(b.commands)
    PROVE  MessageResult(a, b)
<1> DEFINE x == ConfirmLocalSession(a, n)
<1>1. /\ Alike(a, x, Dressing \cup {"local", "lastActivated", "pending"})
      /\ x.local = n /\ x.pending = IF a.pending = n THEN None ELSE a.pending
      /\ GoodFocus(x)
  BY ConfirmFacts DEF Ready, Sound
<1>2. Alike(x, b, {"commands", "identity", "pane", "modal"})
  OBVIOUS
<1> HIDE DEF x
<1>3. /\ b.sessions = a.sessions /\ b.revision = a.revision
      /\ b.settings = a.settings /\ b.intents = a.intents
  BY <1>1, <1>2 DEF Alike, AppFields, Dressing
<1>4. /\ b.sessions = x.sessions /\ b.filter = x.filter /\ b.collapsed = x.collapsed
      /\ b.focus = x.focus /\ b.local = x.local /\ b.pending = x.pending
  BY <1>2 DEF Alike, AppFields
<1>5. AppFields \subseteq DOMAIN b
  BY <1>1, <1>2 DEF Alike, Ready, Sound
<1>6. Sound(b)
  BY <1>1, <1>3, <1>4, <1>5 DEF Ready, Sound
<1>7. GoodFocus(b)
  BY <1>1, <1>4, ListFacts
<1>8. b.pending \in {a.pending, None}
  BY <1>1, <1>4
<1>9. QED
  BY <1>3, <1>6, <1>7, <1>8 DEF MessageResult

LEMMA SendableNone == Sendable(<<>>) /\ ~IsWidth(<<>>)
BY OfferNone, OffersSendable

LEMMA DressedMessage ==
    ASSUME NEW a, Ready(a), NEW b, Alike(a, b, {"lastActivated", "modal"}), SoundModal(b.modal)
    PROVE  MessageResult(a, b)
<1>1. /\ b.sessions = a.sessions /\ b.filter = a.filter /\ b.collapsed = a.collapsed
      /\ b.focus = a.focus /\ b.local = a.local /\ b.pending = a.pending
      /\ b.settings = a.settings /\ b.intents = a.intents /\ b.revision = a.revision
      /\ b.commands = <<>> /\ AppFields \subseteq DOMAIN b
  BY DEF Alike, AppFields, Ready, Sound
<1>2. Sound(b)
  BY <1>1 DEF Ready, Sound
<1>3. GoodFocus(a) => GoodFocus(b)
  BY <1>1, ListFacts
<1>4. QED
  BY <1>1, <1>2, <1>3, SendableNone DEF MessageResult

LEMMA YourSessionResult ==
    ASSUME NEW a, Ready(a), NEW n, n # None
    PROVE  /\ MessageResult(a, ConfirmLocalSession(a, n))
           /\ MessageResult(a, IdentifyPane(a, n))
<1> DEFINE x == ConfirmLocalSession(a, n)
           m == [type |-> "identify-pane", name |-> n]
           y == [x EXCEPT !.identity = n]
           b == IdentifyPane(a, n)
<1>1. Alike(a, x, Dressing \cup {"local", "lastActivated", "pending"})
  BY ConfirmFacts DEF Ready, Sound
<1>2. AppFields \subseteq DOMAIN x /\ x.commands = <<>> /\ SoundModal(x.modal)
  BY <1>1 DEF Alike, AppFields, Dressing, Ready, Sound
<1>3. b = Send(y, m)
  BY DEF IdentifyPane
<1>4. Sent(m) /\ m.type # "width"
  BY DEF Sent, Revised
<1>5. MessageResult(a, x)
  <2>1. Alike(x, x, {"commands", "identity", "pane", "modal"})
    BY DEF Alike
  <2>2. QED
    BY <1>2, <2>1, SendableNone, ConfirmResult2
<1> HIDE DEF x, m
<1>6. Alike(x, y, {"identity"}) /\ AppFields \subseteq DOMAIN y /\ y.commands = <<>>
  BY <1>2 DEF Alike, AppFields
<1> HIDE DEF y
<1>7. Alike(y, b, {"commands"}) /\ b.commands = <<m>>
  BY <1>3, <1>6, SendFacts
<1> HIDE DEF b
<1>8. Alike(x, b, {"commands", "identity", "pane", "modal"}) /\ b.modal = x.modal
  BY <1>6, <1>7 DEF Alike, AppFields
<1>9. Sendable(b.commands) /\ ~IsWidth(b.commands)
  BY <1>4, <1>7, SeqOne DEF Sendable, IsWidth
<1>10. MessageResult(a, b)
  BY <1>2, <1>8, <1>9, ConfirmResult2 DEF x
<1>11. QED
  BY <1>5, <1>10 DEF b, x

LEMMA ActivationResult ==
    ASSUME NEW a, Ready(a), NEW n, NEW source
    PROVE  /\ MessageResult(a, ApplyActivation(a, n, source))
           /\ ApplyActivation(a, n, source).local = a.local
<1> DEFINE x == [a EXCEPT !.lastActivated = n]
           y == ConfirmLocalSession(x, n)
           b == ApplyActivation(a, n, source)
<1>1. b = x \/ (b = y /\ a.local = n)
  BY DEF ApplyActivation
<1>2. Alike(a, x, {"lastActivated"})
  BY DEF Alike, AppFields, Ready, Sound
<1> HIDE DEF x
<1>3. x.commands = <<>> /\ x.modal = a.modal /\ x.local = a.local /\ x.pending = a.pending
  BY <1>2 DEF Alike, AppFields, Ready, Sound
<1>4. SoundModal(x.modal) /\ Alike(a, x, {"lastActivated", "modal"})
  BY <1>2, <1>3 DEF Alike, Ready, Sound
<1>5. MessageResult(a, x)
  BY <1>4, DressedMessage
<1>6. Ready(x)
  BY <1>3, <1>5 DEF MessageResult, Ready
<1>7. ASSUME a.local = n PROVE MessageResult(a, y) /\ y.local = n
  <2>1. n # None
    BY <1>7 DEF Ready, Sound
  <2>2. MessageResult(x, y)
    BY <1>6, <2>1, YourSessionResult
  <2>3. y.local = n /\ GoodFocus(y)
    BY <1>6, ConfirmFacts DEF Ready, Sound
  <2> HIDE DEF y
  <2>4. QED
    BY <1>3, <1>5, <2>2, <2>3 DEF MessageResult
<1>8. MessageResult(a, b) /\ b.local = a.local
  BY <1>1, <1>3, <1>5, <1>7
<1>9. QED
  BY <1>8

LEMMA WindowListResult ==
    ASSUME NEW a, Ready(a), NEW s, NEW ws
    PROVE  /\ MessageResult(a, ApplyWindowList(a, s, ws))
           /\ ApplyWindowList(a, s, ws).local = a.local
<1> DEFINE d == a.modal
           at == IF \E i \in DOMAIN ws : ws[i].active
                 THEN SelectInSeq(ws, LAMBDA w : w.active) ELSE 1
           e == [d EXCEPT !.windows = ws, !.selected = at, !.marked = {}, !.confirming = FALSE]
           b == ApplyWindowList(a, s, ws)
           y == [a EXCEPT !.modal = e]
<1>1. AppFields \subseteq DOMAIN a /\ SoundModal(d)
  BY DEF Ready, Sound
<1>2. b = a \/ (d.kind = "windows" /\ b = y)
  BY <1>1 DEF ApplyWindowList, AppFields
<1> HIDE DEF at
<1>3. d.kind = "windows" => SoundModal(e)
  BY <1>1 DEF SoundModal, Dialogs
<1> HIDE DEF e
<1>4. Alike(a, y, {"lastActivated", "modal"}) /\ y.modal = e /\ y.local = a.local
  BY <1>1 DEF Alike, AppFields
<1>5. Alike(a, a, {"lastActivated", "modal"})
  BY DEF Alike
<1> HIDE DEF y, d
<1>6. MessageResult(a, a)
  BY <1>1, <1>5, DressedMessage DEF d
<1>7. d.kind = "windows" => MessageResult(a, y)
  BY <1>3, <1>4, DressedMessage
<1>8. QED
  BY <1>2, <1>4, <1>6, <1>7

(* An acknowledgement.                                                      *)
LEMMA AppliedFacts ==
    ASSUME NEW a, Ready(a), NEW m, m.type = "applied", m.revision \in Nat
    PROVE  LET b == ApplyServerMessage(a, m) IN
           /\ Ready(b) /\ b.local = a.local /\ b.sessions = a.sessions
           /\ b.settings = a.settings /\ b.pending = a.pending
           /\ (GoodFocus(a) => GoodFocus(b))
           /\ b.revision = IF m.revision > a.revision THEN m.revision ELSE a.revision
           /\ \A t \in SettingTypes : b.intents[t] = <<>>
                 \/ (b.intents[t] = a.intents[t] /\ b.intents[t][1] # m.id)
<1> DEFINE q == ClearAcknowledgedIntent(a.intents, m.id)
           r == IF m.revision > a.revision THEN m.revision ELSE a.revision
           b == [a EXCEPT !.revision = r, !.intents = q]
<1>1. ApplyServerMessage(a, m) = b
  BY DEF ApplyServerMessage
<1>2. /\ DOMAIN q = SettingTypes
      /\ \A t \in SettingTypes : q[t] = <<>> \/ (q[t] = a.intents[t] /\ q[t][1] # m.id)
  BY DEF ClearAcknowledgedIntent, Ready, Sound
<1>3. r \in Nat
  BY DEF Ready, Sound
<1> HIDE DEF q
<1>4. Alike(a, b, {"revision", "intents"}) /\ b.revision = r /\ b.intents = q
  BY DEF Alike, AppFields, Ready, Sound
<1> HIDE DEF b
<1>5. /\ b.sessions = a.sessions /\ b.filter = a.filter /\ b.collapsed = a.collapsed
      /\ b.focus = a.focus /\ b.local = a.local /\ b.pending = a.pending
      /\ b.settings = a.settings /\ b.commands = <<>> /\ b.modal = a.modal
      /\ AppFields \subseteq DOMAIN b
  BY <1>4 DEF Alike, AppFields, Ready, Sound
<1>6. Ready(b)
  BY <1>2, <1>3, <1>4, <1>5 DEF Ready, Sound
<1>7. GoodFocus(a) => GoodFocus(b)
  BY <1>5, ListFacts
<1>8. QED
  BY <1>1, <1>2, <1>4, <1>5, <1>6, <1>7

------------------------------------------------------------------------------
(* What a step of the server leaves true of a sidebar.                       *)

(* The server's revision grows, or its settings are what they were.         *)
Later(s, t) ==
    /\ s.revision \in Nat /\ t.revision \in Nat
    /\ s.revision < t.revision \/ (t.revision = s.revision /\ t.settings = s.settings)

LEMMA HonestLater ==
    ASSUME NEW s, NEW t, Later(s, t)
    PROVE  /\ \A m : Honest(m, s) => Honest(m, t)
           /\ \A q : AllHonest(q, s) => AllHonest(q, t)
           /\ \A q, h : Connected(q, h, s) => Connected(q, h, t)
<1>1. ASSUME NEW m, Honest(m, s) PROVE Honest(m, t)
  <2>1. CASE m.type \in Revised
    BY <1>1, <2>1 DEF Later, Honest, Revised
  <2>2. CASE m.type \notin Revised
    BY <1>1, <2>2 DEF Honest, Revised
  <2>3. QED
    BY <2>1, <2>2
<1>2. \A q : AllHonest(q, s) => AllHonest(q, t)
  BY <1>1 DEF AllHonest
<1>3. \A q, h : Connected(q, h, s) => Connected(q, h, t)
  BY <1>2 DEF Connected
<1>4. QED
  BY <1>1, <1>2, <1>3

(* From one state of a connection to the next, without the sidebar.         *)
Moved(q, r) ==
    /\ Coming(q) => Coming(r)
    /\ Has(q.out, {"state"}) => Has(r.out, {"state"}) \/ Coming(r)
    /\ Has(q.up, {"set-filter", "toggle-group"}) =>
         Has(r.up, {"set-filter", "toggle-group"}) \/ Has(r.out, {"state"})
    /\ Asks(q.up) => Asks(r.up) \/ r.switching # None
    /\ q.switching # None => r.switching # None
    /\ \A m \in ToSet(q.up) : m.type \in SettingTypes => m \in ToSet(r.up)
    /\ Acks(q.out) \cup Acks(q.down) = Acks(r.out) \cup Acks(r.down)
    /\ Acks(r.out) \subseteq Acks(q.out)
    /\ Acks(r.out) = {} \/ \A m \in ToSet(r.down) : m.type = "state" => m \in ToSet(q.down)
    /\ Ordered(q.down) => Ordered(r.down)

LEMMA MovedFollows ==
    ASSUME NEW q, NEW r, Moved(q, r), NEW a, NEW h, NEW sn, NEW s
    PROVE  /\ FocusFollows(a, q) => FocusFollows(a, r)
           /\ SwitchFollows(a, q, sn) => SwitchFollows(a, r, sn)
           /\ Agrees(a, q, h, sn, s) => Agrees(a, r, h, sn, s)
<1>1. FocusFollows(a, q) => FocusFollows(a, r)
  BY DEF Moved, FocusFollows
<1>2. SwitchFollows(a, q, sn) => SwitchFollows(a, r, sn)
  BY DEF Moved, SwitchFollows
<1>3. ASSUME NEW t \in SettingTypes, NEW id, Asked(q, h, t, id) PROVE Asked(r, h, t, id)
  BY <1>3 DEF Moved, Asked
<1>4. ASSUME NEW id, Answered(q, id) PROVE Answered(r, id)
  BY <1>4 DEF Moved, Answered
<1>5. IntentsFollow(a, q, h) => IntentsFollow(a, r, h)
  BY <1>3, <1>4 DEF IntentsFollow
<1>6. AcksLead(a, q, sn, s) => AcksLead(a, r, sn, s)
  <2> SUFFICES ASSUME AcksLead(a, q, sn, s) PROVE AcksLead(a, r, sn, s)
    OBVIOUS
  <2>1. \A m \in Acks(r.out) \cup Acks(r.down) : sn.revision < m.revision
    BY DEF Moved, AcksLead
  <2>2. \A m \in Acks(r.out), n \in ToSet(r.down) : n.type = "state" => n.revision < m.revision
    BY DEF Moved, AcksLead
  <2>3. QED
    BY <2>1, <2>2 DEF Moved, AcksLead
<1>7. Current(a, q, h, sn, s) => Current(a, r, h, sn, s)
  BY <1>3 DEF Current
<1>8. QED
  BY <1>1, <1>2, <1>5, <1>6, <1>7 DEF Agrees

LEMMA AgreesLater ==
    ASSUME NEW a, NEW q, NEW h, NEW sn, NEW s, NEW t, Later(s, t), Agrees(a, q, h, sn, s),
           a.revision \in Nat
    PROVE  Agrees(a, q, h, sn, t)
<1>1. sn.revision \in Nat /\ sn.revision <= a.revision /\ a.revision <= s.revision
  BY DEF Agrees, AcksLead
<1>2. a.revision <= t.revision /\ (sn.revision = t.revision => t.settings = s.settings /\ t.revision = s.revision)
  BY <1>1 DEF Later
<1>3. Current(a, q, h, sn, t)
  <2> SUFFICES ASSUME sn.revision = t.revision PROVE Current(a, q, h, sn, t)
    BY DEF Current
  <2>1. sn.revision = s.revision /\ t.settings = s.settings
    BY <1>2
  <2>2. QED
    BY <2>1 DEF Agrees, Current
<1>4. QED
  BY <1>1, <1>2, <1>3 DEF Agrees, AcksLead

(* A broadcast is added to the queue.                                       *)
Broadcasts == ServerMessages \ {"applied"}

Hears(q, r) ==
    /\ DOMAIN r = DOMAIN q /\ \A x \in ConnFields \ {"queue"} : r[x] = q[x]
    /\ IsSeq(r.queue) /\ ToSet(q.queue) \subseteq ToSet(r.queue)

Heard(q, r, s) ==
    /\ Hears(q, r)
    /\ \A m \in ToSet(r.queue) : m \in ToSet(q.queue) \/ (Honest(m, s) /\ m.type \in Broadcasts)

LEMMA HeardFacts ==
    ASSUME NEW q, NEW r, NEW s, NEW h, Connected(q, h, s), Heard(q, r, s)
    PROVE  Connected(r, h, s) /\ Moved(q, r) /\ (Coming(q) => Coming(r))
<1>1. /\ r.up = q.up /\ r.pending = q.pending /\ r.down = q.down /\ r.out = q.out
      /\ r.switching = q.switching /\ r.again = q.again /\ r.renaming = q.renaming
      /\ ToSet(q.queue) \subseteq ToSet(r.queue)
  BY DEF Heard, Hears, ConnFields
<1>2. AllHonest(r.queue, s) /\ \A m \in ToSet(r.queue) : m.type \in Broadcasts
  BY DEF Heard, Hears, Connected, AllHonest, Broadcasts
<1>3. Connected(r, h, s)
  <2>1. ConnFields \subseteq DOMAIN r
    BY DEF Connected, Heard, Hears
  <2>2. QED
    BY <1>1, <1>2, <2>1 DEF Connected, Broadcasts
<1>4. Coming(q) => Coming(r)
  BY <1>1 DEF Coming, Has
<1>5. Moved(q, r)
  BY <1>1, <1>4 DEF Moved
<1>6. QED
  BY <1>3, <1>4, <1>5

LEMMA HeardSame == ASSUME NEW q, NEW h, NEW s, Connected(q, h, s) PROVE Heard(q, q, s)
BY DEF Heard, Hears, Connected, AllHonest

LEMMA BroadcastFacts ==
    ASSUME NEW cs, DOMAIN cs = Sidebars, NEW d \in Sidebars, ConnFields \subseteq DOMAIN cs[d],
           IsSeq(cs[d].queue), NEW m, NEW s, Honest(m, s), m.type \in Broadcasts
    PROVE  /\ Heard(cs[d], Broadcast(cs, m)[d], s)
           /\ d \in Alive => m \in ToSet(Broadcast(cs, m)[d].queue)
           /\ DOMAIN Broadcast(cs, m) = Sidebars
<1> DEFINE r == Broadcast(cs, m)[d]
<1>1. r = IF home[d] = None THEN cs[d] ELSE [cs[d] EXCEPT !.queue = Append(@, m)]
  BY DEF Broadcast
<1>2. DOMAIN Broadcast(cs, m) = Sidebars
  BY DEF Broadcast
<1>3. CASE home[d] = None
  <2>1. r = cs[d]
    BY <1>1, <1>3
  <2> HIDE DEF r
  <2>2. Heard(cs[d], r, s) /\ d \notin Alive
    BY <1>3, <2>1 DEF Heard, Hears, Alive
  <2>3. QED
    BY <1>2, <2>2 DEF r
<1>4. CASE home[d] # None
  <2>1. r = [cs[d] EXCEPT !.queue = Append(@, m)]
    BY <1>1, <1>4
  <2> HIDE DEF r
  <2>2. /\ DOMAIN r = DOMAIN cs[d] /\ \A x \in ConnFields \ {"queue"} : r[x] = cs[d][x]
        /\ r.queue = Append(cs[d].queue, m)
    BY <2>1 DEF ConnFields
  <2>3. IsSeq(r.queue) /\ ToSet(r.queue) = ToSet(cs[d].queue) \cup {m}
    BY <2>2, SeqAppend
  <2>4. Heard(cs[d], r, s) /\ m \in ToSet(r.queue)
    BY <2>2, <2>3 DEF Heard, Hears
  <2>5. QED
    BY <1>2, <2>4 DEF r
<1>5. QED
  BY <1>3, <1>4

(* A sidebar whose own state a step leaves alone: its connection moves, or  *)
(* hears something, and what still refreshes it goes on.                    *)
LEMMA Aside ==
    ASSUME IInv, Later(server, server'), NEW d \in Sidebars,
           app'[d] = app[d], held'[d] = held[d], seen'[d] = seen[d],
           NEW r, Connected(r, held[d], server'), d \in Alive => Moved(conn[d], r),
           Heard(r, conn'[d], server'),
           Refreshing => Refreshing' \/ (d \in Alive => Coming(conn'[d]))
    PROVE  SoundSidebar(d)' /\ (d \in Alive => Follows(d)')
<1>1. /\ Sound(app[d]) /\ app[d].commands = <<>> /\ {"current", "revision"} \subseteq DOMAIN seen[d]
  BY DEF IInv, Typed, SoundSidebar
<1>2. Connected(conn'[d], held[d], server') /\ Moved(r, conn'[d])
  BY HeardFacts
<1>3. SoundSidebar(d)'
  BY <1>1, <1>2 DEF SoundSidebar
<1>4. ASSUME d \in Alive PROVE Follows(d)'
  <2>1. Follows(d) /\ Moved(conn[d], r)
    BY <1>4 DEF IInv
  <2>2. FocusFollows(app[d], conn'[d])
    BY <1>2, <2>1, MovedFollows DEF Follows
  <2>3. SwitchFollows(app[d], conn[d], seen[d]) => SwitchFollows(app[d], conn'[d], seen[d])
    BY <1>2, <2>1, MovedFollows
  <2>4. SwitchFollows(app[d], conn'[d], seen[d]) \/ Refreshing'
    BY <1>4, <2>1, <2>3 DEF Follows, SwitchFollows
  <2>5. Agrees(app[d], conn'[d], held[d], seen[d], server)
    BY <1>2, <2>1, MovedFollows DEF Follows
  <2>6. app[d].revision \in Nat
    BY <1>1 DEF Sound
  <2>7. Agrees(app[d], conn'[d], held[d], seen[d], server')
    BY <2>5, <2>6, AgreesLater
  <2>8. QED
    BY <2>2, <2>4, <2>7 DEF Follows
<1>5. QED
  BY <1>3, <1>4

LEMMA MovedSame == ASSUME NEW q PROVE Moved(q, q)
BY DEF Moved

(* One whose connection only hears something, if that.                      *)
LEMMA Bystander ==
    ASSUME IInv, Later(server, server'), NEW d \in Sidebars,
           app'[d] = app[d], held'[d] = held[d], seen'[d] = seen[d],
           Heard(conn[d], conn'[d], server'),
           Refreshing => Refreshing' \/ (d \in Alive => Coming(conn'[d]))
    PROVE  SoundSidebar(d)' /\ (d \in Alive => Follows(d)')
<1>1. Connected(conn[d], held[d], server)
  BY DEF IInv, Typed, SoundSidebar
<1>2. Connected(conn[d], held[d], server')
  BY <1>1, HonestLater
<1>3. QED
  BY <1>2, MovedSame, Aside

------------------------------------------------------------------------------
(* The server's part of a step.                                              *)

LEMMA SnapshotFacts ==
    ASSUME NEW s, SoundServer(s)
    PROVE  /\ Snapshot(s).type = "state" /\ Snapshot(s).revision = s.revision
           /\ Snapshot(s).settings = s.settings /\ Honest(Snapshot(s), s)
<1>1. /\ Snapshot(s).type = "state" /\ Snapshot(s).revision = s.revision
      /\ Snapshot(s).settings = s.settings
  BY DEF Snapshot
<1> DEFINE m == Snapshot(s)
<1> HIDE DEF m
<1>2. m.type = "state" /\ m.revision = s.revision /\ m.settings = s.settings
  BY <1>1 DEF m
<1>3. Honest(m, s)
  BY <1>2 DEF Honest, SoundServer, Revised
<1>4. QED
  BY <1>1, <1>3 DEF m

LEMMA LearnFacts ==
    ASSUME NEW s, SoundServer(s)
    PROVE  /\ SoundServer(Learn(s)) /\ Learn(s).revision = s.revision
           /\ Learn(s).settings = s.settings
           /\ Later(s, Learn(s)) /\ Honest(Snapshot(s), Learn(s))
<1> DEFINE t == Learn(s)
<1>1. DOMAIN t = DOMAIN s /\ t.revision = s.revision /\ t.settings = s.settings
  BY DEF Learn, SoundServer, ServerFields
<1> HIDE DEF t
<1>2. SoundServer(t) /\ Later(s, t)
  BY <1>1 DEF SoundServer, Later
<1>3. Honest(Snapshot(s), s)
  BY SnapshotFacts
<1>4. Honest(Snapshot(s), t)
  BY <1>2, <1>3, HonestLater
<1>5. QED
  BY <1>1, <1>2, <1>4 DEF t

(* A snapshot is on the way out, or nothing is.                             *)
Plain == ServerMessages \ {"state", "applied"}

Replied(p, q, s) ==
    \/ q = p
    \/ IsSeq(q) /\ \E m \in ToSet(q) : /\ q = Append(p, m)
                                       /\ m.type \in Plain /\ Honest(m, s)

Holds(q, s) ==
    IsSeq(q) /\ \A m \in ToSet(q) : m.type \in Broadcasts /\ Honest(m, s)

Consumes(q, r, s) ==
    /\ q.up # <<>> /\ r.up = Tail(q.up)
    /\ ConnFields \subseteq DOMAIN r /\ r.queue = q.queue /\ r.pending = q.pending
    /\ Replied(q.down, r.down, s) /\ Holds(q.out, s) /\ Holds(r.out, s)
    /\ Has(q.out, {"state"}) => Has(r.out, {"state"})
    /\ Head(q.up).type \notin SettingTypes
    /\ Head(q.up).type \in {"set-filter", "toggle-group"} => Has(r.out, {"state"})
    /\ Head(q.up).type = "switch-session" /\ Head(q.up).name # None => r.switching # None
    /\ q.switching # None => r.switching # None
    /\ r.renaming # <<>> => r.renaming[2] # None /\ r.out = <<>> /\ ~r.again

LEMMA HeldAcks ==
    ASSUME NEW q, NEW s, Holds(q, s)
    PROVE  Acks(q) = {}
BY DEF Holds, Acks, Broadcasts

LEMMA RepliedFacts ==
    ASSUME NEW p, NEW q, NEW s, AllHonest(p, s), Replied(p, q, s),
           \A m \in ToSet(p) : m.type \in ServerMessages
    PROVE  /\ AllHonest(q, s) /\ \A m \in ToSet(q) : m.type \in ServerMessages
           /\ Acks(q) = Acks(p) /\ (Ordered(p) => Ordered(q))
           /\ \A m \in ToSet(q) : m.type = "state" => m \in ToSet(p)
           /\ ToSet(p) \subseteq ToSet(q)
<1>1. CASE q = p
  BY <1>1
<1>2. CASE q # p
  <2>1. IsSeq(q) /\ IsSeq(p)
    BY <1>2 DEF Replied, AllHonest
  <2>2. PICK m \in ToSet(q) : q = Append(p, m) /\ m.type \in Plain /\ Honest(m, s)
    BY <1>2 DEF Replied
  <2>3. ToSet(q) = ToSet(p) \cup {m}
    BY <2>1, <2>2, SeqAppend
  <2>4. m.type # "applied" /\ m.type # "state" /\ m.type \in ServerMessages
    BY <2>2 DEF Plain
  <2>5. Ordered(p) => Ordered(q)
    BY <2>1, <2>2, <2>4, OrderedAppend
  <2>6. Acks(q) = Acks(p)
    BY <2>3, <2>4 DEF Acks
  <2>7. QED
    BY <2>1, <2>2, <2>3, <2>4, <2>5, <2>6 DEF AllHonest
<1>3. QED
  BY <1>1, <1>2

LEMMA ConsumesFacts ==
    ASSUME NEW q, NEW r, NEW h, NEW s, Connected(q, h, s), Consumes(q, r, s)
    PROVE  Connected(r, h, s) /\ Moved(q, r)
<1>1. /\ IsSeq(q.up) /\ IsSeq(r.up) /\ ToSet(q.up) = {Head(q.up)} \cup ToSet(r.up)
  BY SeqTail DEF Connected, AllHonest, Consumes
<1>2. AllHonest(r.up, s)
  BY <1>1 DEF Connected, AllHonest
<1>3. /\ AllHonest(r.down, s) /\ \A m \in ToSet(r.down) : m.type \in ServerMessages
      /\ Acks(r.down) = Acks(q.down) /\ (Ordered(q.down) => Ordered(r.down))
      /\ \A m \in ToSet(r.down) : m.type = "state" => m \in ToSet(q.down)
      /\ ToSet(q.down) \subseteq ToSet(r.down)
  BY RepliedFacts DEF Connected, Consumes
<1>4. AllHonest(r.out, s) /\ \A m \in ToSet(r.out) : m.type \in ServerMessages
  BY DEF Consumes, Holds, AllHonest, Broadcasts
<1>5. Connected(r, h, s)
  BY <1>2, <1>3, <1>4 DEF Connected, Consumes
<1>6. Acks(q.out) = {} /\ Acks(r.out) = {}
  BY HeldAcks DEF Consumes
<1>7. Coming(q) => Coming(r)
  BY <1>3 DEF Coming, Has, Consumes
<1>8. Has(q.up, {"set-filter", "toggle-group"}) =>
         Has(r.up, {"set-filter", "toggle-group"}) \/ Has(r.out, {"state"})
  BY <1>1 DEF Has, Consumes
<1>9. Asks(q.up) => Asks(r.up) \/ r.switching # None
  BY <1>1 DEF Asks, Consumes
<1>10. \A m \in ToSet(q.up) : m.type \in SettingTypes => m \in ToSet(r.up)
  BY <1>1 DEF Consumes
<1>11. QED
  BY <1>3, <1>5, <1>6, <1>7, <1>8, <1>9, <1>10 DEF Moved, Consumes

(* Only one sidebar's connection is served; the others may hear of it.      *)
LEMMA OneServed ==
    ASSUME IInv, NEW c \in Sidebars, Functions', Alive' \subseteq Alive,
           app' = app, held' = held, seen' = seen, built' = built,
           due \subseteq due', due' \subseteq Tasks,
           SoundServer(server'), Later(server, server'),
           NEW r, Connected(r, held[c], server'), c \in Alive => Moved(conn[c], r),
           Heard(r, conn'[c], server'),
           \A d \in Sidebars : d # c => Heard(conn[d], conn'[d], server')
    PROVE  IInv'
<1>1. Refreshing => Refreshing'
  BY DEF Refreshing
<1>2. ASSUME NEW d \in Sidebars PROVE SoundSidebar(d)' /\ (d \in Alive => Follows(d)')
  <2>1. CASE d = c
    BY <2>1, <1>1, Aside
  <2>2. CASE d # c
    BY <2>2, <1>1, Bystander
  <2>3. QED
    BY <2>1, <2>2
<1>3. ASSUME NEW t \in Tasks PROVE SoundTask(t)'
  <2>1. SoundTask(t)
    BY DEF IInv, Typed
  <2>2. AllHonest(built[t], server')
    BY <2>1, HonestLater DEF SoundTask
  <2>3. QED
    BY <2>1, <2>2 DEF SoundTask
<1>4. \A d \in Alive' : Follows(d)'
  BY <1>2 DEF Alive
<1>5. Typed'
  BY <1>2, <1>3 DEF Typed
<1>6. QED
  BY <1>4, <1>5 DEF IInv

(* Nobody's is.                                                             *)
LEMMA NoneServed ==
    ASSUME IInv, Functions', Alive' \subseteq Alive,
           app' = app, held' = held, seen' = seen, built' = built,
           due \subseteq due', due' \subseteq Tasks,
           SoundServer(server'), Later(server, server'),
           \A d \in Sidebars : Heard(conn[d], conn'[d], server')
    PROVE  IInv'
<1>1. Refreshing => Refreshing'
  BY DEF Refreshing
<1>2. ASSUME NEW d \in Sidebars PROVE SoundSidebar(d)' /\ (d \in Alive => Follows(d)')
  BY <1>1, Bystander
<1>3. ASSUME NEW t \in Tasks PROVE SoundTask(t)'
  <2>1. SoundTask(t)
    BY DEF IInv, Typed
  <2>2. AllHonest(built[t], server')
    BY <2>1, HonestLater DEF SoundTask
  <2>3. QED
    BY <2>1, <2>2 DEF SoundTask
<1>4. \A d \in Alive' : Follows(d)'
  BY <1>2 DEF Alive
<1>5. Typed'
  BY <1>2, <1>3 DEF Typed
<1>6. QED
  BY <1>4, <1>5 DEF IInv

LEMMA Here ==
    ASSUME IInv
    PROVE  /\ SoundServer(server) /\ Later(server, server) /\ Functions /\ due \subseteq Tasks
           /\ Functions /\ DOMAIN conn = Sidebars
           /\ \A d \in Sidebars : Connected(conn[d], held[d], server)
           /\ \A d \in Sidebars : ConnFields \subseteq DOMAIN conn[d]
<1>1. SoundServer(server) /\ Functions /\ due \subseteq Tasks
  BY DEF IInv, Typed
<1>2. Later(server, server)
  BY <1>1 DEF Later, SoundServer
<1>3. \A d \in Sidebars : Connected(conn[d], held[d], server)
  BY DEF IInv, Typed, SoundSidebar
<1>4. \A d \in Sidebars : ConnFields \subseteq DOMAIN conn[d]
  BY <1>3 DEF Connected
<1>5. DOMAIN conn = Sidebars
  BY <1>1 DEF Functions
<1>6. QED
  BY <1>1, <1>2, <1>3, <1>4, <1>5

LEMMA HoldsNone == \A s : Holds(<<>>, s)
BY SeqNone DEF Holds

LEMMA HoldsOne ==
    ASSUME NEW m, NEW s, m.type \in Broadcasts, Honest(m, s)
    PROVE  Holds(<<m>>, s) /\ (m.type = "state" => Has(<<m>>, {"state"}))
BY SeqOne DEF Holds, Has

LEMMA HoldsSnapshot ==
    ASSUME NEW s, SoundServer(s)
    PROVE  /\ Holds(<<Snapshot(s)>>, Learn(s)) /\ Has(<<Snapshot(s)>>, {"state"})
           /\ Holds(<<Snapshot(s)>>, s)
<1> DEFINE m == Snapshot(s)
<1>1. m.type = "state" /\ Honest(m, Learn(s)) /\ Honest(m, s)
  BY SnapshotFacts, LearnFacts
<1> HIDE DEF m
<1>2. m.type \in Broadcasts
  BY <1>1 DEF Broadcasts, ServerMessages
<1>3. Holds(<<m>>, Learn(s)) /\ Has(<<m>>, {"state"}) /\ Holds(<<m>>, s)
  BY <1>1, <1>2, HoldsOne
<1>4. QED
  BY <1>3 DEF m

(* A command is read, and nobody hears of it yet.                           *)
LEMMA ServedAlone ==
    ASSUME IInv, NEW c \in Sidebars, Functions', Alive' \subseteq Alive,
           app' = app, held' = held, seen' = seen, built' = built,
           due \subseteq due', due' \subseteq Tasks,
           SoundServer(server'), Later(server, server'),
           Consumes(conn[c], conn'[c], server'),
           \A d \in Sidebars : d # c => conn'[d] = conn[d]
    PROVE  IInv'
<1>1. ASSUME NEW d \in Sidebars PROVE Connected(conn[d], held[d], server')
  BY Here, HonestLater
<1>2. Connected(conn'[c], held[c], server') /\ Moved(conn[c], conn'[c])
  BY <1>1, ConsumesFacts
<1>3. Heard(conn'[c], conn'[c], server')
  BY <1>2, HeardSame
<1>4. ASSUME NEW d \in Sidebars, d # c PROVE Heard(conn[d], conn'[d], server')
  BY <1>1, <1>4, HeardSame
<1>5. QED
  BY <1>2, <1>3, <1>4, OneServed

LEMMA RefreshesKeep ==
    ASSUME IInv, NEW c \in Sidebars, ServerRefreshes(c)
    PROVE  IInv'
<1> USE DEF ServerRefreshes, ReadsCommand, Idle
<1>1. /\ conn[c].up # <<>> /\ conn[c].out = <<>> /\ conn[c].switching = None
      /\ conn[c].renaming = <<>> /\ Head(conn[c].up).type = "refresh"
  BY DEF Command
<1>2. /\ conn' = [d \in Sidebars |-> conn'[d]]
      /\ \A d \in Sidebars : d # c => conn'[d] = conn[d]
      /\ conn'[c] = [conn[c] EXCEPT !.up = Tail(@), !.out = <<Snapshot(server)>>]
  BY Here DEF Consumed
<1>3. /\ ConnFields \subseteq DOMAIN conn'[c] /\ conn'[c].queue = conn[c].queue
      /\ conn'[c].pending = conn[c].pending /\ conn'[c].down = conn[c].down
      /\ conn'[c].out = <<Snapshot(server)>> /\ conn'[c].switching = conn[c].switching
      /\ conn'[c].renaming = conn[c].renaming /\ conn'[c].up = Tail(conn[c].up)
  BY <1>2, Here DEF ConnFields
<1>4. SoundServer(server') /\ Later(server, server')
  BY Here, LearnFacts
<1>5. Holds(conn'[c].out, server') /\ Has(conn'[c].out, {"state"})
  BY <1>3, Here, HoldsSnapshot
<1>6. Consumes(conn[c], conn'[c], server')
  BY <1>1, <1>3, <1>5, HoldsNone DEF Consumes, Replied, SettingTypes
<1>7. Functions' /\ Alive' \subseteq Alive /\ due' \subseteq Tasks
  BY <1>2, Here DEF Functions, Alive
<1>8. QED
  BY <1>2, <1>4, <1>6, <1>7, ServedAlone

LEMMA SnapshotsKeep ==
    ASSUME IInv, NEW c \in Sidebars, ServerSnapshots(c)
    PROVE  IInv'
<1> USE DEF ServerSnapshots
<1> DEFINE q == conn[c]
           r == conn'[c]
<1>1. q.again /\ q.out = <<>>
  OBVIOUS
<1>2. /\ conn' = [d \in Sidebars |-> conn'[d]]
      /\ \A d \in Sidebars : d # c => conn'[d] = conn[d]
      /\ r = [q EXCEPT !.again = FALSE, !.out = <<Snapshot(server)>>]
  BY Here
<1>3. /\ ConnFields \subseteq DOMAIN r /\ r.up = q.up /\ r.queue = q.queue
      /\ r.pending = q.pending /\ r.down = q.down /\ r.renaming = q.renaming
      /\ r.out = <<Snapshot(server)>> /\ r.switching = q.switching
  BY <1>2, Here DEF ConnFields
<1>4. SoundServer(server') /\ Later(server, server')
  BY Here, LearnFacts
<1>5. Holds(r.out, server') /\ Has(r.out, {"state"}) /\ Holds(q.out, server')
  BY <1>1, <1>3, Here, HoldsSnapshot, HoldsNone
<1>6. Connected(q, held[c], server')
  BY Here, <1>4, HonestLater
<1>7. Functions' /\ Alive' \subseteq Alive /\ due' \subseteq Tasks
  BY <1>2, Here DEF Functions, Alive
<1>8. \A d \in Sidebars : d # c => Heard(conn[d], conn'[d], server')
  BY <1>2, <1>4, Here, HonestLater, HeardSame
<1> HIDE DEF q, r
<1>9. Connected(r, held[c], server')
  BY <1>1, <1>3, <1>5, <1>6 DEF Connected, Holds, AllHonest, Broadcasts
<1>10. Acks(q.out) = {} /\ Acks(r.out) = {}
  BY <1>5, HeldAcks
<1>11. Moved(q, r)
  BY <1>3, <1>5, <1>10 DEF Moved, Coming
<1>12. Heard(r, r, server')
  BY <1>9, HeardSame
<1>13. QED
  BY <1>4, <1>7, <1>8, <1>9, <1>11, <1>12, OneServed DEF q, r

LEMMA WakeFacts ==
    ASSUME due \subseteq Tasks, NEW loops, Wake(loops)
    PROVE  /\ due \subseteq due' /\ due' \subseteq Tasks
           /\ "refresher" \in loops => "refresher" \in due'
BY SidebarsAssumption DEF Wake, SidebarsAssumption

LEMMA AttachFacts ==
    ASSUME due \subseteq Tasks, NEW n, NEW woken, Attach(n, woken)
    PROVE  /\ due \subseteq due' /\ due' \subseteq Tasks
           /\ "refresher" \in woken => "refresher" \in due'
BY WakeFacts DEF Attach

LEMMA HonestPlain ==
    ASSUME NEW m, NEW s, m.type \in {"your-session", "activate", "windows"},
           m.type = "your-session" => m.name # None
    PROVE  Honest(m, s) /\ m.type \in Plain /\ m.type \in Broadcasts
BY DEF Honest, Plain, Broadcasts, ServerMessages, Revised

LEMMA IdentifiesKeep ==
    ASSUME IInv, NEW c \in Sidebars, ServerIdentifies(c)
    PROVE  IInv'
<1> DEFINE q == conn[c]
           r == conn'[c]
           m == [type |-> "your-session", name |-> Command(c).name]
<1>1. /\ q.up # <<>> /\ q.out = <<>> /\ q.switching = None
      /\ q.renaming = <<>> /\ Head(q.up).type = "identify-pane"
  BY DEF ServerIdentifies, ReadsCommand, Idle, Command
<1>2. /\ conn' = [d \in Sidebars |-> conn'[d]]
      /\ \A d \in Sidebars : d # c => conn'[d] = conn[d]
      /\ r = [q EXCEPT !.up = Tail(@), !.down = Append(@, m)]
  BY Here DEF ServerIdentifies, Consumed, Reply
<1>3. UNCHANGED <<live, attached, home, windows, server, app, held, due, built, hooks, seen>>
  BY DEF ServerIdentifies
<1>4. m.type = "your-session" /\ m.name = Head(q.up).name
  BY DEF Command
<1>5. AllHonest(q.up, server') /\ IsSeq(q.up) /\ IsSeq(q.down)
  BY Here, <1>3 DEF Connected, AllHonest
<1>6. Functions' /\ Alive' \subseteq Alive /\ due' \subseteq Tasks /\ due \subseteq due'
  BY <1>2, <1>3, Here DEF Functions, Alive
<1>7. SoundServer(server') /\ Later(server, server')
  BY <1>3, Here
<1>8. ConnFields \subseteq DOMAIN q
  BY Here
<1> HIDE DEF q, r, m
<1>9. /\ ConnFields \subseteq DOMAIN r /\ r.up = Tail(q.up) /\ r.queue = q.queue
      /\ r.pending = q.pending /\ r.down = Append(q.down, m) /\ r.renaming = q.renaming
      /\ r.out = q.out /\ r.switching = q.switching
  BY <1>2, <1>8 DEF ConnFields
<1>10. m.name # None
  <2>1. Honest(Head(q.up), server')
    BY <1>1, <1>5, SeqFacts DEF AllHonest
  <2>2. QED
    BY <1>1, <1>4, <2>1 DEF Honest
<1>11. Honest(m, server') /\ m.type \in Plain
  BY <1>4, <1>10, HonestPlain
<1>12. Replied(q.down, r.down, server')
  BY <1>5, <1>9, <1>11, SeqAppend DEF Replied
<1>13. Consumes(q, r, server')
  BY <1>1, <1>9, <1>12, HoldsNone DEF Consumes, SettingTypes
<1>14. QED
  BY <1>2, <1>3, <1>6, <1>7, <1>13, ServedAlone DEF q, r

LEMMA ListsWindowsKeep ==
    ASSUME IInv, NEW c \in Sidebars, ServerListsWindows(c)
    PROVE  IInv'
<1> DEFINE n == Command(c).name
           q == conn[c]
           r == conn'[c]
           m == [type |-> "windows", session |-> n,
                 windows |-> IF n \in LiveNames THEN windows[n] ELSE <<>>]
<1>1. /\ q.up # <<>> /\ q.out = <<>> /\ q.switching = None
      /\ q.renaming = <<>> /\ Head(q.up).type = "request-windows"
  BY DEF ServerListsWindows, ReadsCommand, Idle, Command
<1>2. /\ conn' = [d \in Sidebars |-> conn'[d]]
      /\ \A d \in Sidebars : d # c => conn'[d] = conn[d]
      /\ r = [q EXCEPT !.up = Tail(@), !.down = Append(@, m)]
  BY Here DEF ServerListsWindows, Consumed, Reply
<1>3. UNCHANGED <<live, attached, home, windows, server, app, held, due, built, hooks, seen>>
  BY DEF ServerListsWindows
<1>4. m.type = "windows"
  OBVIOUS
<1>5. IsSeq(q.down)
  BY Here DEF Connected, AllHonest
<1>6. Functions' /\ Alive' \subseteq Alive /\ due' \subseteq Tasks /\ due \subseteq due'
  BY <1>2, <1>3, Here DEF Functions, Alive
<1>7. SoundServer(server') /\ Later(server, server')
  BY <1>3, Here
<1>8. ConnFields \subseteq DOMAIN q
  BY Here
<1> HIDE DEF q, r, m
<1>9. /\ ConnFields \subseteq DOMAIN r /\ r.up = Tail(q.up) /\ r.queue = q.queue
      /\ r.pending = q.pending /\ r.down = Append(q.down, m) /\ r.renaming = q.renaming
      /\ r.out = q.out /\ r.switching = q.switching
  BY <1>2, <1>8 DEF ConnFields
<1>11. Honest(m, server') /\ m.type \in Plain
  BY <1>4, HonestPlain
<1>12. Replied(q.down, r.down, server')
  BY <1>5, <1>9, <1>11, SeqAppend DEF Replied
<1>13. Consumes(q, r, server')
  BY <1>1, <1>9, <1>12, HoldsNone DEF Consumes, SettingTypes
<1>14. QED
  BY <1>2, <1>3, <1>6, <1>7, <1>13, ServedAlone DEF q, r

LEMMA HandlesAgentKeeps ==
    ASSUME IInv, NEW c \in Sidebars, ServerHandlesAgent(c)
    PROVE  IInv'
<1> DEFINE q == conn[c]
           r == conn'[c]
<1>1. /\ q.up # <<>> /\ q.out = <<>> /\ q.switching = None /\ q.renaming = <<>>
      /\ Head(q.up).type \in {"kill-agent-pane", "focus-agent-pane", "dismiss-agent"}
  BY DEF ServerHandlesAgent, ReadsCommand, Idle, Command
<1>2. /\ conn' = [d \in Sidebars |-> conn'[d]]
      /\ \A d \in Sidebars : d # c => conn'[d] = conn[d]
      /\ r = [q EXCEPT !.up = Tail(@), !.again = TRUE] \/ r = [q EXCEPT !.up = Tail(@)]
  BY Here DEF ServerHandlesAgent, Consumed
<1>3. UNCHANGED <<attached, home, windows, server, app, held, built, hooks, seen>>
  BY DEF ServerHandlesAgent
<1>4. due \subseteq due' /\ due' \subseteq Tasks
  BY Here DEF ServerHandlesAgent, Wake
<1>6. Functions' /\ Alive' \subseteq Alive
  BY <1>2, <1>3, Here DEF Functions, Alive
<1>7. SoundServer(server') /\ Later(server, server')
  BY <1>3, Here
<1>8. ConnFields \subseteq DOMAIN q
  BY Here
<1> HIDE DEF q, r
<1>9. /\ ConnFields \subseteq DOMAIN r /\ r.up = Tail(q.up) /\ r.queue = q.queue
      /\ r.pending = q.pending /\ r.down = q.down /\ r.renaming = q.renaming
      /\ r.out = q.out /\ r.switching = q.switching
  BY <1>2, <1>8 DEF ConnFields
<1>13. Consumes(q, r, server')
  BY <1>1, <1>9, HoldsNone DEF Consumes, SettingTypes, Replied
<1>14. QED
  BY <1>2, <1>3, <1>4, <1>6, <1>7, <1>13, ServedAlone DEF q, r

LEMMA ChangesWindowsKeep ==
    ASSUME IInv, NEW c \in Sidebars, ServerChangesWindows(c)
    PROVE  IInv'
<1> DEFINE q == conn[c]
           r == conn'[c]
<1>1. /\ q.up # <<>> /\ q.out = <<>> /\ q.switching = None /\ q.renaming = <<>>
      /\ Head(q.up).type \in {"kill-windows", "switch-window"}
  BY DEF ServerChangesWindows, ReadsCommand, Idle, Command
<1>2. /\ conn' = [d \in Sidebars |-> conn'[d]]
      /\ \A d \in Sidebars : d # c => conn'[d] = conn[d]
      /\ r = [q EXCEPT !.up = Tail(@), !.again = TRUE] \/ r = [q EXCEPT !.up = Tail(@)]
  BY Here DEF ServerChangesWindows, Consumed
<1>3. UNCHANGED <<home, server, app, held, built, seen>>
  BY DEF ServerChangesWindows
<1>4. due \subseteq due' /\ due' \subseteq Tasks
  BY Here, AttachFacts DEF ServerChangesWindows
<1>6. Functions' /\ Alive' \subseteq Alive
  BY <1>2, <1>3, Here DEF Functions, Alive
<1>7. SoundServer(server') /\ Later(server, server')
  BY <1>3, Here
<1>8. ConnFields \subseteq DOMAIN q
  BY Here
<1> HIDE DEF q, r
<1>9. /\ ConnFields \subseteq DOMAIN r /\ r.up = Tail(q.up) /\ r.queue = q.queue
      /\ r.pending = q.pending /\ r.down = q.down /\ r.renaming = q.renaming
      /\ r.out = q.out /\ r.switching = q.switching
  BY <1>2, <1>8 DEF ConnFields
<1>13. Consumes(q, r, server')
  BY <1>1, <1>9, HoldsNone DEF Consumes, SettingTypes, Replied
<1>14. QED
  BY <1>2, <1>3, <1>4, <1>6, <1>7, <1>13, ServedAlone DEF q, r

LEMMA AllServed ==
    ASSUME IInv, Functions', Alive' \subseteq Alive, due' \subseteq Tasks,
           SoundServer(server'), Later(server, server'),
           \A t \in Tasks : built'[t] = built[t] \/ SoundTask(t)',
           \A d \in Sidebars : SoundSidebar(d)' /\ (d \in Alive /\ d \in Alive' => Follows(d)')
    PROVE  IInv'
<1>1. ASSUME NEW t \in Tasks PROVE SoundTask(t)'
  <2>1. SoundTask(t)
    BY DEF IInv, Typed
  <2>2. AllHonest(built[t], server')
    BY <2>1, HonestLater DEF SoundTask
  <2>3. QED
    BY <2>1, <2>2 DEF SoundTask
<1>2. \A d \in Alive' : Follows(d)'
  BY DEF Alive
<1>3. Typed'
  BY <1>1 DEF Typed
<1>4. QED
  BY <1>2, <1>3 DEF IInv

LEMMA AnnouncesSwitchKeeps ==
    ASSUME IInv, NEW c \in Sidebars, ServerAnnouncesSwitch(c)
    PROVE  IInv'
<1> DEFINE n == Command(c).name
           q == conn[c]
           m == [type |-> "activate", name |-> n, source |-> app[c].pane]
           cs == Consumed(conn, c)
           b == Broadcast(cs, m)
           r == [cs[c] EXCEPT !.switching = n]
<1>1. /\ q.up # <<>> /\ q.out = <<>> /\ q.switching = None /\ q.renaming = <<>>
      /\ Head(q.up).type = "switch-session" /\ n = Head(q.up).name
  BY DEF ServerAnnouncesSwitch, ReadsCommand, Idle, Command
<1>2. UNCHANGED <<live, attached, home, windows, server, app, held, due, built, hooks, seen>>
  BY DEF ServerAnnouncesSwitch
<1>3. conn' = [b EXCEPT ![c].switching = n]
  BY DEF ServerAnnouncesSwitch
<1>4. DOMAIN cs = Sidebars /\ cs[c] = [q EXCEPT !.up = Tail(@)]
      /\ \A d \in Sidebars : d # c => cs[d] = conn[d]
  BY Here DEF Consumed
<1>5. Honest(m, server') /\ m.type \in Broadcasts
  BY HonestPlain
<1>6. SoundServer(server') /\ Later(server, server') /\ DOMAIN conn = Sidebars
  BY <1>2, Here
<1>7. /\ Connected(q, held[c], server')
      /\ \A d \in Sidebars : Connected(conn[d], held[d], server')
  BY <1>2, Here
<1>8. /\ ConnFields \subseteq DOMAIN q /\ DOMAIN b = Sidebars
  BY <1>7 DEF Connected, Broadcast
<1> HIDE DEF m, q, cs, b
<1>9. ASSUME NEW d \in Sidebars PROVE Heard(cs[d], b[d], server')
  <2>1. /\ ConnFields \subseteq DOMAIN conn[d] /\ IsSeq(conn[d].queue) /\ conn[c] = q
    BY <1>7 DEF Connected, AllHonest, q
  <2>2. cs[d].queue = conn[d].queue /\ DOMAIN cs[d] = DOMAIN conn[d]
    BY <1>4, <2>1 DEF ConnFields
  <2>3. QED
    BY <1>4, <1>5, <2>1, <2>2, BroadcastFacts DEF b
<1>10. /\ conn' = [d \in Sidebars |-> conn'[d]]
       /\ conn'[c] = [b[c] EXCEPT !.switching = n]
       /\ \A d \in Sidebars : d # c => conn'[d] = b[d]
  BY <1>3, <1>8
<1>11. \A d \in Sidebars : d # c => Heard(conn[d], conn'[d], server')
  BY <1>4, <1>9, <1>10
<1>12. /\ ConnFields \subseteq DOMAIN r /\ r.up = Tail(q.up) /\ r.queue = q.queue
       /\ r.pending = q.pending /\ r.down = q.down /\ r.renaming = q.renaming
       /\ r.out = q.out /\ r.switching = n
  BY <1>4, <1>8 DEF ConnFields
<1>13. Heard(r, conn'[c], server')
  <2>1. Heard(cs[c], b[c], server')
    BY <1>9
  <2>2. ConnFields \subseteq DOMAIN cs[c]
    BY <1>4, <1>8
  <2>3. QED
    BY <1>10, <2>1, <2>2 DEF Heard, Hears, ConnFields
<1> HIDE DEF r
<1>14. Consumes(q, r, server')
  BY <1>1, <1>12, HoldsNone DEF Consumes, SettingTypes, Replied
<1>15. Connected(r, held[c], server') /\ Moved(q, r)
  BY <1>7, <1>14, ConsumesFacts
<1>16. Functions' /\ Alive' \subseteq Alive /\ due' \subseteq Tasks /\ due \subseteq due'
  BY <1>2, <1>10, Here DEF Functions, Alive
<1>17. QED
  BY <1>2, <1>6, <1>11, <1>13, <1>15, <1>16, OneServed DEF q

LEMMA SwitchesKeep ==
    ASSUME IInv, NEW c \in Sidebars, ServerSwitches(c)
    PROVE  IInv'
<1> DEFINE q == conn[c]
           r == conn'[c]
<1>1. UNCHANGED <<live, home, windows, server, app, held, built, seen>>
  BY DEF ServerSwitches
<1>2. due \subseteq due' /\ due' \subseteq Tasks /\ Refreshing'
  BY Here, AttachFacts DEF ServerSwitches, Refreshing
<1>3. /\ conn' = [d \in Sidebars |-> conn'[d]]
      /\ \A d \in Sidebars : d # c => conn'[d] = conn[d]
      /\ r = [q EXCEPT !.switching = None]
  BY Here DEF ServerSwitches
<1>4. Functions' /\ Alive' \subseteq Alive
  BY <1>1, <1>3, Here DEF Functions, Alive
<1>5. SoundServer(server') /\ Later(server, server')
      /\ \A d \in Sidebars : Connected(conn[d], held[d], server')
  BY <1>1, Here
<1>6. ASSUME NEW d \in Sidebars, d # c
      PROVE  SoundSidebar(d)' /\ (d \in Alive => Follows(d)')
  BY <1>1, <1>2, <1>3, <1>5, <1>6, HeardSame, Bystander
<1>7. SoundSidebar(c)' /\ (c \in Alive => Follows(c)')
  <2>1. SoundSidebar(c) /\ Connected(q, held[c], server') /\ ConnFields \subseteq DOMAIN q
    BY <1>5, Here DEF IInv, Typed
  <2>2. c \in Alive => Follows(c)
    BY DEF IInv
  <2> HIDE DEF q, r
  <2>3. /\ ConnFields \subseteq DOMAIN r /\ r.up = q.up /\ r.queue = q.queue
        /\ r.pending = q.pending /\ r.down = q.down /\ r.renaming = q.renaming
        /\ r.out = q.out /\ r.again = q.again
    BY <1>3, <2>1 DEF ConnFields
  <2>4. Connected(r, held[c], server')
    BY <2>1, <2>3 DEF Connected
  <2>5. SoundSidebar(c)'
    BY <1>1, <2>1, <2>4 DEF SoundSidebar, r
  <2>6. ASSUME c \in Alive PROVE Follows(c)'
    <3>1. FocusFollows(app[c], q) /\ Agrees(app[c], q, held[c], seen[c], server)
      BY <2>2, <2>6 DEF Follows, q
    <3>2. FocusFollows(app[c], r)
      BY <2>3, <3>1 DEF FocusFollows, Coming
    <3>3. Agrees(app[c], r, held[c], seen[c], server)
      BY <2>3, <3>1 DEF Agrees, IntentsFollow, AcksLead, Current, Asked, Answered
    <3>4. QED
      BY <1>1, <1>2, <3>2, <3>3 DEF Follows, r
  <2>7. QED
    BY <2>5, <2>6
<1>8. QED
  BY <1>1, <1>2, <1>4, <1>5, <1>6, <1>7, AllServed

LEMMA RenamesReferencesKeeps ==
    ASSUME IInv, NEW c \in Sidebars, ServerRenamesReferences(c)
    PROVE  IInv'
<1> DEFINE old == conn[c].renaming[1]
           new == conn[c].renaming[2]
           q == conn[c]
           r == conn'[c]
           m == [type |-> "re-identify", old |-> old, new |-> new]
<1>1. Connected(q, held[c], server) /\ q.renaming # <<>> /\ SoundServer(server)
  BY Here DEF ServerRenamesReferences
<1>2. UNCHANGED <<live, attached, home, windows, app, held, due, built, hooks, seen>>
  BY DEF ServerRenamesReferences
<1>3. /\ conn' = [d \in Sidebars |-> conn'[d]]
      /\ \A d \in Sidebars : d # c => conn'[d] = conn[d]
      /\ r = [q EXCEPT !.renaming = <<>>, !.again = TRUE, !.out = <<m>>]
  BY Here DEF ServerRenamesReferences
<1>4. /\ server' = [server EXCEPT !.list = RenameInOrder(@, old, new)]
  BY DEF ServerRenamesReferences
<1>5. /\ DOMAIN server' = DOMAIN server /\ server'.settings = server.settings
      /\ server'.revision = server.revision
  BY <1>1, <1>4 DEF SoundServer, ServerFields
<1>6. SoundServer(server') /\ Later(server, server')
  BY <1>1, <1>5 DEF SoundServer, Later
<1>7. Functions' /\ Alive' \subseteq Alive /\ due' \subseteq Tasks
  BY <1>2, <1>3, Here DEF Functions, Alive
<1>8. \A d \in Sidebars : d # c => Heard(conn[d], conn'[d], server')
  BY <1>3, <1>6, Here, HonestLater, HeardSame
<1>9. new # None /\ q.out = <<>> /\ ConnFields \subseteq DOMAIN q /\ Connected(q, held[c], server')
  BY <1>1, <1>6, HonestLater DEF Connected
<1>10. m.type = "re-identify" /\ m.new = new
  OBVIOUS
<1> HIDE DEF q, r, m, new, old
<1>11. /\ ConnFields \subseteq DOMAIN r /\ r.up = q.up /\ r.queue = q.queue
       /\ r.pending = q.pending /\ r.down = q.down /\ r.renaming = <<>>
       /\ r.out = <<m>> /\ r.switching = q.switching
  BY <1>3, <1>9 DEF ConnFields
<1>12. Holds(r.out, server') /\ Holds(q.out, server')
  BY <1>9, <1>10, <1>11, HoldsNone, HoldsOne DEF Honest, Revised, Broadcasts, ServerMessages
<1>13. Connected(r, held[c], server')
  BY <1>9, <1>11, <1>12 DEF Connected, Holds, AllHonest, Broadcasts
<1>14. Acks(q.out) = {} /\ Acks(r.out) = {} /\ ~Has(q.out, {"state"})
  BY <1>9, <1>12, HeldAcks, SeqNone DEF Has
<1>15. Moved(q, r)
  BY <1>11, <1>14 DEF Moved, Coming
<1>16. Heard(r, r, server')
  BY <1>13, HeardSame
<1>17. QED
  BY <1>2, <1>6, <1>7, <1>8, <1>13, <1>15, <1>16, OneServed DEF q, r

LEMMA ForwardsKeep ==
    ASSUME IInv, NEW c \in Sidebars, ServerForwards(c)
    PROVE  IInv'
<1> DEFINE q == conn[c]
           r == conn'[c]
           m == Head(q.queue)
<1>1. /\ q.queue # <<>> /\ q.out = <<>>
      /\ conn' = [d \in Sidebars |-> conn'[d]]
      /\ \A d \in Sidebars : d # c => conn'[d] = conn[d]
      /\ r = Forwarded(q, m)
  BY Here DEF ServerForwards, Idle
<1>2. UNCHANGED <<live, attached, home, windows, server, app, held, due, built, hooks, seen>>
  BY DEF ServerForwards
<1>3. /\ SoundServer(server') /\ Later(server, server')
      /\ \A d \in Sidebars : Connected(conn[d], held[d], server')
  BY <1>2, Here
<1>4. Functions' /\ Alive' \subseteq Alive /\ due' \subseteq Tasks
  BY <1>1, <1>2, Here DEF Functions, Alive
<1>5. \A d \in Sidebars : d # c => Heard(conn[d], conn'[d], server')
  BY <1>1, <1>3, HeardSame
<1>6. Connected(q, held[c], server') /\ ConnFields \subseteq DOMAIN q
  BY <1>3, Here
<1> HIDE DEF q, r
<1>7. IsSeq(q.queue) /\ IsSeq(Tail(q.queue)) /\ ToSet(q.queue) = {m} \cup ToSet(Tail(q.queue))
  BY <1>1, <1>6, SeqTail DEF Connected, AllHonest
<1>8. Honest(m, server') /\ m.type \in Broadcasts /\ m \in ToSet(q.queue)
  BY <1>6, <1>7 DEF Connected, AllHonest, Broadcasts
<1> HIDE DEF m
<1>9. /\ ConnFields \subseteq DOMAIN r /\ r.up = q.up /\ r.queue = Tail(q.queue)
      /\ r.out = q.out /\ r.switching = q.switching /\ r.again = q.again
      /\ r.renaming = q.renaming
      /\ m.type = "state" => r.pending = <<m>> /\ r.down = q.down
      /\ m.type # "state" => r.pending = q.pending /\ r.down = Append(q.down, m)
  BY <1>1, <1>6 DEF Forwarded, ConnFields
<1>10. Replied(q.down, r.down, server')
  <2>1. CASE m.type = "state"
    BY <1>9, <2>1 DEF Replied
  <2>2. CASE m.type # "state"
    <3>1. IsSeq(q.down)
      BY <1>6 DEF Connected, AllHonest
    <3>2. m.type \in Plain
      BY <1>8, <2>2 DEF Plain, Broadcasts
    <3>3. r.down = Append(q.down, m)
      BY <1>9, <2>2
    <3>4. IsSeq(r.down) /\ m \in ToSet(r.down)
      BY <3>1, <3>3, SeqAppend
    <3>5. QED
      BY <1>8, <3>2, <3>3, <3>4 DEF Replied
  <2>3. QED
    BY <2>1, <2>2
<1>11. /\ AllHonest(r.down, server') /\ \A n \in ToSet(r.down) : n.type \in ServerMessages
       /\ Acks(r.down) = Acks(q.down) /\ (Ordered(q.down) => Ordered(r.down))
       /\ \A n \in ToSet(r.down) : n.type = "state" => n \in ToSet(q.down)
       /\ ToSet(q.down) \subseteq ToSet(r.down)
  BY <1>6, <1>10, RepliedFacts DEF Connected
<1>12. /\ AllHonest(r.pending, server') /\ \A n \in ToSet(r.pending) : n.type = "state"
       /\ r.pending = <<>> => q.pending = <<>> /\ m.type # "state"
  <2>1. CASE m.type = "state"
    <3>1. r.pending = <<m>>
      BY <1>9, <2>1
    <3>2. IsSeq(r.pending) /\ ToSet(r.pending) = {m} /\ r.pending # <<>>
      BY <3>1, SeqOne
    <3>3. QED
      BY <1>8, <2>1, <3>2 DEF AllHonest
  <2>2. CASE m.type # "state"
    BY <1>6, <1>9, <2>2 DEF Connected
  <2>3. QED
    BY <2>1, <2>2
<1>13. AllHonest(r.queue, server') /\ \A n \in ToSet(r.queue) : n.type \in Broadcasts
  BY <1>6, <1>7, <1>9 DEF Connected, AllHonest, Broadcasts
<1>14. Connected(r, held[c], server')
  BY <1>6, <1>9, <1>11, <1>12, <1>13 DEF Connected, Broadcasts
<1>15. Coming(q) => Coming(r)
  BY <1>7, <1>9, <1>11, <1>12 DEF Coming, Has
<1>16. Acks(q.out) = {} /\ Acks(r.out) = {}
  BY <1>1, <1>9, HoldsNone, HeldAcks
<1>17. Moved(q, r)
  BY <1>9, <1>11, <1>15, <1>16 DEF Moved
<1>18. Heard(r, r, server')
  BY <1>14, HeardSame
<1>19. QED
  BY <1>2, <1>3, <1>4, <1>5, <1>14, <1>17, <1>18, OneServed DEF q, r

LEMMA FlushesKeep ==
    ASSUME IInv, NEW c \in Sidebars, ServerFlushes(c)
    PROVE  IInv'
<1> DEFINE q == conn[c]
           r == conn'[c]
<1>1. /\ q.pending # <<>> /\ q.out = <<>>
      /\ conn' = [d \in Sidebars |-> conn'[d]]
      /\ \A d \in Sidebars : d # c => conn'[d] = conn[d]
      /\ r = [q EXCEPT !.down = @ \o q.pending, !.pending = <<>>]
  BY Here DEF ServerFlushes, Idle
<1>2. UNCHANGED <<live, attached, home, windows, server, app, held, due, built, hooks, seen>>
  BY DEF ServerFlushes
<1>3. /\ SoundServer(server') /\ Later(server, server')
      /\ \A d \in Sidebars : Connected(conn[d], held[d], server')
  BY <1>2, Here
<1>4. Functions' /\ Alive' \subseteq Alive /\ due' \subseteq Tasks
  BY <1>1, <1>2, Here DEF Functions, Alive
<1>5. \A d \in Sidebars : d # c => Heard(conn[d], conn'[d], server')
  BY <1>1, <1>3, HeardSame
<1>6. Connected(q, held[c], server') /\ ConnFields \subseteq DOMAIN q
  BY <1>3, Here
<1> HIDE DEF q, r
<1>7. /\ ConnFields \subseteq DOMAIN r /\ r.up = q.up /\ r.queue = q.queue
      /\ r.out = q.out /\ r.switching = q.switching /\ r.again = q.again
      /\ r.renaming = q.renaming /\ r.pending = <<>> /\ r.down = q.down \o q.pending
  BY <1>1, <1>6 DEF ConnFields
<1>8. /\ IsSeq(q.down) /\ IsSeq(q.pending) /\ \A m \in ToSet(q.pending) : m.type = "state"
  BY <1>6 DEF Connected, AllHonest
<1>9. IsSeq(r.down) /\ ToSet(r.down) = ToSet(q.down) \cup ToSet(q.pending)
  BY <1>7, <1>8, SeqConcat
<1>10. AllHonest(r.down, server') /\ \A m \in ToSet(r.down) : m.type \in ServerMessages
  BY <1>6, <1>8, <1>9 DEF Connected, AllHonest, ServerMessages
<1>11. Connected(r, held[c], server')
  BY <1>6, <1>7, <1>10, SeqNone DEF Connected, AllHonest
<1>12. Coming(r)
  BY <1>1, <1>8, <1>9, SeqFacts DEF Coming, Has
<1>13. Acks(q.out) = {} /\ Acks(r.out) = {}
  BY <1>1, <1>7, HoldsNone, HeldAcks
<1>14. Acks(r.down) = Acks(q.down)
  BY <1>8, <1>9 DEF Acks
<1>15. Ordered(q.down) => Ordered(r.down)
  BY <1>7, <1>8, OrderedConcat
<1>16. Moved(q, r)
  BY <1>7, <1>12, <1>13, <1>14, <1>15 DEF Moved
<1>17. Heard(r, r, server')
  BY <1>11, HeardSame
<1>18. QED
  BY <1>2, <1>3, <1>4, <1>5, <1>11, <1>16, <1>17, OneServed DEF q, r

(* A broadcast of something that is no snapshot, or a step that leaves the  *)
(* connections alone.                                                       *)
LEMMA HookKeeps ==
    ASSUME IInv, NEW i, HookArrives(i)
    PROVE  IInv'
<1> DEFINE m == [type |-> "activate", name |-> hooks[i], source |-> None]
<1>1. conn' = Broadcast(conn, m)
      /\ UNCHANGED <<live, attached, home, windows, server, app, held, due, built, seen>>
  BY DEF HookArrives
<1>2. Honest(m, server') /\ m.type \in Broadcasts
  BY HonestPlain
<1> HIDE DEF m
<1>3. DOMAIN conn = Sidebars
      /\ \A d \in Sidebars : Connected(conn[d], held[d], server)
  BY Here
<1>4. \A d \in Sidebars : Heard(conn[d], conn'[d], server')
  BY <1>1, <1>2, <1>3, BroadcastFacts DEF Connected, AllHonest
<1>5. conn' = [d \in Sidebars |-> conn'[d]]
  BY <1>1 DEF Broadcast
<1>6. SoundServer(server') /\ Later(server, server') /\ due' \subseteq Tasks /\ due \subseteq due'
  BY <1>1, Here
<1>7. Functions' /\ Alive' \subseteq Alive
  BY <1>1, <1>5, Here DEF Functions, Alive
<1>8. QED
  BY <1>1, <1>4, <1>6, <1>7, NoneServed

LEMMA QuietlyKeep ==
    ASSUME IInv, due \subseteq due', due' \subseteq Tasks,
           UNCHANGED <<home, server, app, held, conn, built, seen>>
    PROVE  IInv'
<1>1. SoundServer(server') /\ Later(server, server')
  BY Here
<1>2. Functions' /\ Alive' \subseteq Alive
  BY Here DEF Functions, Alive
<1>3. \A d \in Sidebars : Heard(conn[d], conn'[d], server')
  BY Here, HeardSame
<1>4. QED
  BY <1>1, <1>2, <1>3, NoneServed

LEMMA UserKeeps ==
    ASSUME IInv, NEW n,
           \/ UserSwitches(n) \/ AgentReports(n)
           \/ \E id \in Windows : UserSelectsWindow(n, id)
    PROVE  IInv'
<1>1. due \subseteq due' /\ due' \subseteq Tasks
  BY Here, WakeFacts, AttachFacts DEF UserSwitches, AgentReports, UserSelectsWindow
<1>2. UNCHANGED <<home, server, app, held, conn, built, seen>>
  BY DEF UserSwitches, AgentReports, UserSelectsWindow
<1>3. QED
  BY <1>1, <1>2, QuietlyKeep

LEMMA TaskBuildsKeep ==
    ASSUME IInv, NEW t \in Tasks, TaskBuilds(t)
    PROVE  IInv'
<1>1. /\ due' = due \ {t} /\ server' = Learn(server)
      /\ built' = [built EXCEPT ![t] = <<Snapshot(server)>>]
      /\ UNCHANGED <<live, attached, home, windows, app, held, conn, hooks, seen>>
  BY DEF TaskBuilds
<1>2. SoundServer(server') /\ Later(server, server')
  BY <1>1, Here, LearnFacts
<1>3. built = [u \in Tasks |-> built[u]]
  BY Here DEF Functions
<1>4. /\ built'[t] = <<Snapshot(server)>> /\ \A u \in Tasks : u # t => built'[u] = built[u]
      /\ built' = [u \in Tasks |-> built'[u]]
  BY <1>1, <1>3
<1>5. Functions' /\ Alive' \subseteq Alive /\ due' \subseteq Tasks
  BY <1>1, <1>4, Here DEF Functions, Alive
<1>6. Refreshing => Refreshing'
  BY <1>1, <1>4, SeqOne, SidebarsAssumption DEF Refreshing, SidebarsAssumption
<1>7. \A d \in Sidebars : Heard(conn[d], conn'[d], server')
  BY <1>1, <1>2, Here, HonestLater, HeardSame
<1>8. ASSUME NEW d \in Sidebars PROVE SoundSidebar(d)' /\ (d \in Alive => Follows(d)')
  BY <1>1, <1>2, <1>6, <1>7, Bystander
<1>9. SoundTask(t)'
  <2>1. Honest(Snapshot(server), server') /\ Snapshot(server).type = "state"
    BY <1>1, Here, LearnFacts, SnapshotFacts
  <2>2. IsSeq(built'[t]) /\ ToSet(built'[t]) = {Snapshot(server)}
    BY <1>4, SeqOne
  <2>3. QED
    BY <2>1, <2>2 DEF SoundTask, AllHonest
<1>10. \A u \in Tasks : built'[u] = built[u] \/ SoundTask(u)'
  BY <1>4, <1>9
<1>11. QED
  BY <1>2, <1>5, <1>8, <1>10, AllServed

LEMMA TaskPublishesKeep ==
    ASSUME IInv, NEW t \in Tasks, TaskPublishes(t)
    PROVE  IInv'
<1> DEFINE m == built[t][1]
<1>1. /\ built[t] # <<>> /\ conn' = Broadcast(conn, m)
      /\ built' = [built EXCEPT ![t] = <<>>]
      /\ UNCHANGED <<live, attached, home, windows, server, app, held, due, hooks, seen>>
  BY DEF TaskPublishes
<1>2. /\ SoundServer(server') /\ Later(server, server') /\ due' \subseteq Tasks
      /\ DOMAIN conn = Sidebars
      /\ \A d \in Sidebars : Connected(conn[d], held[d], server)
  BY <1>1, Here
<1>3. Honest(m, server') /\ m.type = "state" /\ m.type \in Broadcasts
  <2>1. AllHonest(built[t], server) /\ \A n \in ToSet(built[t]) : n.type = "state"
    BY DEF IInv, Typed, SoundTask
  <2>2. m \in ToSet(built[t])
    BY <1>1, <2>1, SeqFacts DEF AllHonest
  <2>3. QED
    BY <1>1, <2>1, <2>2 DEF AllHonest, Broadcasts, ServerMessages
<1> HIDE DEF m
<1>4. ASSUME NEW d \in Sidebars
      PROVE  Heard(conn[d], conn'[d], server') /\ (d \in Alive => m \in ToSet(conn'[d].queue))
  BY <1>1, <1>2, <1>3, BroadcastFacts DEF Connected, AllHonest
<1>5. \A d \in Alive : Coming(conn'[d])
  BY <1>3, <1>4 DEF Coming, Has, Alive
<1>6. conn' = [d \in Sidebars |-> conn'[d]]
  BY <1>1 DEF Broadcast
<1>7. /\ built'[t] = <<>> /\ \A u \in Tasks : u # t => built'[u] = built[u]
      /\ built' = [u \in Tasks |-> built'[u]]
  BY <1>1, Here DEF Functions
<1>8. Functions' /\ Alive' \subseteq Alive
  BY <1>1, <1>6, <1>7, Here DEF Functions, Alive
<1>9. ASSUME NEW d \in Sidebars PROVE SoundSidebar(d)' /\ (d \in Alive => Follows(d)')
  BY <1>1, <1>2, <1>4, <1>5, Bystander
<1>10. SoundTask(t)'
  BY <1>7, SeqNone DEF SoundTask, AllHonest
<1>11. \A u \in Tasks : built'[u] = built[u] \/ SoundTask(u)'
  BY <1>7, <1>10
<1>12. QED
  BY <1>2, <1>8, <1>9, <1>11, AllServed

LEMMA LaterTwice ==
    ASSUME NEW r, NEW s, NEW t, Later(r, s), Later(s, t)
    PROVE  Later(r, t)
BY DEF Later

LEMMA ApplyCommandFacts ==
    ASSUME NEW s, SoundServer(s), NEW cmd, cmd.type \in ServerCommands
    PROVE  LET t == ApplyCommand(s, cmd) IN
           /\ SoundServer(t) /\ Later(s, t)
           /\ cmd.type \in SettingTypes => t.revision = s.revision + 1
<1> DEFINE t == ApplyCommand(s, cmd)
<1>1. CASE cmd.type \in SettingTypes
  <2>1. t = Bump(s, cmd.type, cmd.value)
    BY <1>1 DEF ApplyCommand, SettingTypes
  <2> HIDE DEF t
  <2>2. /\ DOMAIN t = DOMAIN s /\ DOMAIN t.settings = DOMAIN s.settings
        /\ t.revision = s.revision + 1
    BY <1>1, <2>1 DEF Bump, SoundServer, ServerFields
  <2>3. SoundServer(t) /\ Later(s, t)
    BY <2>2 DEF SoundServer, Later
  <2>4. QED
    BY <2>2, <2>3 DEF t
<1>2. CASE cmd.type = "set-filter"
  <2>1. t = [s EXCEPT !.filter = cmd.value, !.revision = @ + 1]
    BY <1>2 DEF ApplyCommand, SettingTypes
  <2> HIDE DEF t
  <2>2. /\ DOMAIN t = DOMAIN s /\ t.settings = s.settings
        /\ t.revision = s.revision + 1
    BY <2>1 DEF SoundServer, ServerFields
  <2>3. SoundServer(t) /\ Later(s, t)
    BY <2>2 DEF SoundServer, Later
  <2>4. QED
    BY <2>2, <2>3 DEF t
<1>3. CASE cmd.type = "toggle-group"
  <2>1. t = [s EXCEPT !.collapsed = IF cmd.name \in @ THEN @ \ {cmd.name}
                                     ELSE @ \cup {cmd.name}]
    BY <1>3 DEF ApplyCommand, SettingTypes
  <2> HIDE DEF t
  <2>2. DOMAIN t = DOMAIN s /\ t.settings = s.settings /\ t.revision = s.revision
    BY <2>1 DEF SoundServer, ServerFields
  <2>3. SoundServer(t) /\ Later(s, t)
    BY <2>2 DEF SoundServer, Later
  <2>4. QED
    BY <1>3, <2>3 DEF t, SettingTypes
<1>4. CASE cmd.type \in {"hide", "show-all"}
  <2>1. \E list : t = [s EXCEPT !.list = list]
    BY <1>4 DEF ApplyCommand, SettingTypes
  <2> HIDE DEF t
  <2>2. DOMAIN t = DOMAIN s /\ t.settings = s.settings /\ t.revision = s.revision
    BY <2>1 DEF SoundServer, ServerFields
  <2>3. SoundServer(t) /\ Later(s, t)
    BY <2>2 DEF SoundServer, Later
  <2>4. QED
    BY <1>4, <2>3 DEF t, SettingTypes
<1>5. CASE cmd.type \in {"reorder", "reorder-group"}
  <2>1. \E names : t = Reordered(s, names)
    BY <1>5 DEF ApplyCommand, SettingTypes
  <2>2. \/ t = Learn(s)
        \/ \E list : t = [Learn(s) EXCEPT !.list = list]
    BY <2>1 DEF Reordered
  <2> HIDE DEF t
  <2>3. SoundServer(Learn(s)) /\ Later(s, Learn(s))
    BY LearnFacts
  <2>4. CASE t = Learn(s)
    BY <1>5, <2>3, <2>4 DEF t, SettingTypes
  <2>5. CASE \E list : t = [Learn(s) EXCEPT !.list = list]
    <3> DEFINE u == Learn(s)
    <3>1. PICK list : t = [u EXCEPT !.list = list]
      BY <2>5
    <3>2. SoundServer(u) /\ Later(s, u)
      BY <2>3
    <3> HIDE DEF u
    <3>3. DOMAIN t = DOMAIN u /\ t.settings = u.settings /\ t.revision = u.revision
      BY <3>1, <3>2 DEF SoundServer, ServerFields
    <3>4. SoundServer(t) /\ Later(s, t)
      BY <3>2, <3>3 DEF SoundServer, Later
    <3>5. QED
      BY <1>5, <3>4 DEF t, SettingTypes
  <2>6. QED
    BY <2>2, <2>4, <2>5
<1>6. QED
  BY <1>1, <1>2, <1>3, <1>4, <1>5 DEF ServerCommands

(* A setting is acknowledged with a revision that no snapshot has yet.      *)
LEMMA PayloadFacts ==
    ASSUME NEW s, SoundServer(s), NEW cmd
    PROVE  LET out == Payload(s, cmd)
               ack == [type |-> "applied", id |-> cmd.id, revision |-> s.revision] IN
           /\ IsSeq(out) /\ Has(out, {"state"}) /\ Snapshot(s).type = "state"
           /\ cmd.type \notin SettingTypes => Holds(out, Learn(s))
           /\ cmd.type \in SettingTypes => ToSet(out) = {ack, Snapshot(s)}
<1> DEFINE m == Snapshot(s)
           ack == [type |-> "applied", id |-> cmd.id, revision |-> s.revision]
           out == Payload(s, cmd)
           none == <<>>
           one == <<m>>
           first == <<ack>>
<1>1. /\ cmd.type \notin SettingTypes => out = none \o one
      /\ cmd.type \in SettingTypes => out = first \o one
  BY DEF Payload
<1>2. Honest(m, Learn(s)) /\ m.type = "state"
  BY LearnFacts, SnapshotFacts
<1> HIDE DEF m, ack, out
<1>3. /\ IsSeq(none) /\ ToSet(none) = {} /\ IsSeq(one) /\ ToSet(one) = {m}
      /\ IsSeq(first) /\ ToSet(first) = {ack}
  BY SeqNone, SeqOne
<1> HIDE DEF none, one, first
<1> DEFINE p == none \o one
           q == first \o one
<1>6. /\ IsSeq(p) /\ ToSet(p) = ToSet(none) \cup ToSet(one)
      /\ IsSeq(q) /\ ToSet(q) = ToSet(first) \cup ToSet(one)
  BY <1>3, SeqConcat
<1> HIDE DEF p, q
<1>4. CASE cmd.type \notin SettingTypes
  <2>1. IsSeq(out) /\ ToSet(out) = {m}
    BY <1>1, <1>3, <1>4, <1>6 DEF p
  <2>2. Holds(out, Learn(s)) /\ Has(out, {"state"})
    BY <1>2, <2>1 DEF Holds, Has, Broadcasts, ServerMessages
  <2>3. QED
    BY <1>2, <1>4, <2>1, <2>2 DEF m, ack, out
<1>5. CASE cmd.type \in SettingTypes
  <2>1. IsSeq(out) /\ ToSet(out) = {ack, m}
    BY <1>1, <1>3, <1>5, <1>6 DEF q
  <2>2. Has(out, {"state"})
    BY <1>2, <2>1 DEF Has
  <2>3. QED
    BY <1>2, <1>5, <2>1, <2>2 DEF m, ack, out
<1>7. QED
  BY <1>4, <1>5

(* Its sidebar has not read the revision a setting is acknowledged with.    *)
Acknowledging(q, r, m, n, s, t) ==
    /\ q.up # <<>> /\ q.out = <<>> /\ Head(q.up).type \in SettingTypes
    /\ t.revision = s.revision + 1
    /\ m.type = "applied" /\ m.id = Head(q.up).id /\ m.revision = t.revision
    /\ n.type = "state" /\ IsSeq(r.out) /\ ToSet(r.out) = {m, n}
    /\ r.up = Tail(q.up) /\ r.queue = q.queue /\ r.pending = q.pending
    /\ r.down = q.down /\ r.switching = q.switching

LEMMA Acknowledged ==
    ASSUME NEW q, NEW r, NEW m, NEW n, NEW s, NEW t, Acknowledging(q, r, m, n, s, t),
           NEW a, NEW h, NEW sn, SoundServer(s), Sound(a),
           Connected(q, h, s), Agrees(a, q, h, sn, s)
    PROVE  /\ FocusFollows(a, r) /\ Agrees(a, r, h, sn, t)
           /\ SwitchFollows(a, q, sn) => SwitchFollows(a, r, sn)
<1> USE DEF Acknowledging
<1>1. ToSet(q.up) = {Head(q.up)} \cup ToSet(r.up)
  BY SeqTail DEF Connected, AllHonest
<1>2. FocusFollows(a, r)
  BY DEF FocusFollows, Has
<1>3. SwitchFollows(a, q, sn) => SwitchFollows(a, r, sn)
  BY <1>1 DEF SwitchFollows, Asks, Coming, SettingTypes
<1>4. /\ s.revision \in Nat /\ a.revision \in Nat
      /\ sn.revision \in Nat /\ sn.revision <= a.revision /\ a.revision <= s.revision
  BY DEF SoundServer, Sound, Agrees, AcksLead
<1>5. Acks(r.out) = {m} /\ Acks(q.out) = {}
  BY SeqNone DEF Acks
<1>6. IntentsFollow(a, r, h)
  <2> SUFFICES ASSUME NEW x \in SettingTypes, Waits(a, x)
               PROVE  Asked(r, h, x, a.intents[x][1]) \/ Answered(r, a.intents[x][1])
    BY DEF IntentsFollow
  <2> DEFINE id == a.intents[x][1]
  <2>1. Asked(q, h, x, id) \/ Answered(q, id)
    BY DEF Agrees, IntentsFollow
  <2> HIDE DEF id
  <2>2. ASSUME Asked(q, h, x, id) PROVE Asked(r, h, x, id) \/ Answered(r, id)
    BY <1>1, <1>5, <2>2 DEF Asked, Answered
  <2>3. ASSUME Answered(q, id) PROVE Answered(r, id)
    BY <1>5, <2>3 DEF Answered
  <2>4. QED
    BY <2>1, <2>2, <2>3 DEF id
<1>7. AcksLead(a, r, sn, t)
  <2>1. \A k \in ToSet(q.down) : k.type = "state" => k.revision \in Nat /\ k.revision <= s.revision
    BY DEF Connected, AllHonest, Honest, Revised
  <2>2. \A k \in Acks(q.down) : sn.revision < k.revision
    BY DEF Agrees, AcksLead
  <2>3. Ordered(r.down)
    BY DEF Agrees, AcksLead
  <2>4. \A k \in Acks(r.out) \cup Acks(r.down) : sn.revision < k.revision
    BY <1>4, <1>5, <2>2
  <2>5. \A k \in Acks(r.out), l \in ToSet(r.down) : l.type = "state" => l.revision < k.revision
    BY <1>4, <1>5, <2>1
  <2>6. QED
    BY <1>4, <2>3, <2>4, <2>5 DEF AcksLead
<1>8. Current(a, r, h, sn, t)
  BY <1>4 DEF Current
<1>9. QED
  BY <1>2, <1>3, <1>6, <1>7, <1>8 DEF Agrees

LEMMA HandlesKeep ==
    ASSUME IInv, NEW c \in Sidebars, ServerHandles(c)
    PROVE  IInv'
<1> DEFINE cmd == Command(c)
           s == ApplyCommand(server, cmd)
           q == conn[c]
           r == conn'[c]
           out == Payload(s, cmd)
<1>1. /\ q.up # <<>> /\ q.out = <<>> /\ q.switching = None /\ q.renaming = <<>>
      /\ cmd = Head(q.up) /\ cmd.type \in ServerCommands
  BY DEF ServerHandles, ReadsCommand, Idle, Command
<1>2. UNCHANGED <<live, attached, home, windows, app, held, due, built, hooks, seen>>
  BY DEF ServerHandles
<1>3. /\ conn' = [d \in Sidebars |-> conn'[d]]
      /\ \A d \in Sidebars : d # c => conn'[d] = conn[d]
      /\ r = [q EXCEPT !.up = Tail(@), !.out = out]
      /\ server' = Learn(s)
  BY Here DEF ServerHandles, Consumed
<1>4. /\ SoundServer(s) /\ Later(server, s)
      /\ cmd.type \in SettingTypes => s.revision = server.revision + 1
  BY <1>1, Here, ApplyCommandFacts
<1>5. /\ SoundServer(server') /\ Later(s, server') /\ Honest(Snapshot(s), server')
      /\ server'.revision = s.revision
  BY <1>3, <1>4, LearnFacts
<1>6. Later(server, server')
  BY <1>4, <1>5, LaterTwice
<1>7. Functions' /\ Alive' \subseteq Alive /\ due' \subseteq Tasks /\ due \subseteq due'
  BY <1>2, <1>3, Here DEF Functions, Alive
<1>8. ConnFields \subseteq DOMAIN q /\ Connected(q, held[c], server)
      /\ Connected(q, held[c], server')
  BY <1>6, Here, HonestLater
<1> DEFINE n == Snapshot(s)
           m == [type |-> "applied", id |-> cmd.id, revision |-> s.revision]
<1>9. /\ IsSeq(out) /\ Has(out, {"state"}) /\ n.type = "state"
      /\ cmd.type \notin SettingTypes => Holds(out, server')
      /\ cmd.type \in SettingTypes => ToSet(out) = {m, n}
  BY <1>3, <1>4, PayloadFacts
<1>10. m.type = "applied" /\ m.id = cmd.id /\ m.revision = s.revision
  OBVIOUS
<1>11. Honest(n, server') /\ (cmd.type \in SettingTypes => Honest(m, server'))
  BY <1>5, <1>10, <1>4 DEF Honest, SoundServer, Revised
<1> HIDE DEF q, r, out, n, m, s, cmd
<1>12. /\ ConnFields \subseteq DOMAIN r /\ r.up = Tail(q.up) /\ r.queue = q.queue
       /\ r.pending = q.pending /\ r.down = q.down /\ r.renaming = q.renaming
       /\ r.out = out /\ r.switching = q.switching /\ r.again = q.again
  BY <1>3, <1>8 DEF ConnFields
<1>13. CASE cmd.type \notin SettingTypes
  <2>1. Consumes(q, r, server')
    BY <1>1, <1>9, <1>12, <1>13, HoldsNone DEF Consumes, ServerCommands, Replied
  <2>2. QED
    BY <1>2, <1>3, <1>5, <1>6, <1>7, <2>1, ServedAlone DEF q, r
<1>14. CASE cmd.type \in SettingTypes
  <2>1. IsSeq(r.out) /\ ToSet(r.out) = {m, n}
    BY <1>9, <1>12, <1>14
  <2>2. AllHonest(r.out, server') /\ \A k \in ToSet(r.out) : k.type \in ServerMessages
    BY <1>9, <1>10, <1>11, <1>14, <2>1 DEF AllHonest, ServerMessages
  <2>3. AllHonest(r.up, server')
    BY <1>1, <1>8, <1>12, SeqTail DEF Connected, AllHonest
  <2>4. Connected(r, held[c], server')
    BY <1>1, <1>8, <1>12, <2>2, <2>3 DEF Connected
  <2>5. Sound(app[c]) /\ SoundServer(server)
    BY Here DEF IInv, Typed, SoundSidebar
  <2>6. SoundSidebar(c)'
    BY <1>2, <2>4 DEF IInv, Typed, SoundSidebar, r
  <2>7. ASSUME c \in Alive PROVE Follows(c)'
    <3>1. /\ Agrees(app[c], q, held[c], seen[c], server)
          /\ SwitchFollows(app[c], q, seen[c]) \/ Refreshing
      BY <2>7 DEF IInv, Follows, q
    <3>2. /\ FocusFollows(app[c], r) /\ Agrees(app[c], r, held[c], seen[c], server')
          /\ SwitchFollows(app[c], q, seen[c]) => SwitchFollows(app[c], r, seen[c])
      <4>1. server'.revision = server.revision + 1 /\ m.revision = server'.revision
            /\ m.id = Head(q.up).id /\ Head(q.up).type \in SettingTypes
        BY <1>1, <1>4, <1>5, <1>10, <1>14
      <4>2. Acknowledging(q, r, m, n, server, server')
        BY <1>1, <1>9, <1>10, <1>12, <2>1, <4>1 DEF Acknowledging
      <4>3. QED
        BY <1>8, <2>5, <3>1, <4>2, Acknowledged
    <3>3. QED
      BY <1>2, <3>1, <3>2 DEF Follows, Refreshing, r
  <2>8. ASSUME NEW d \in Sidebars, d # c PROVE SoundSidebar(d)' /\ (d \in Alive => Follows(d)')
    <3>1. Heard(conn[d], conn'[d], server')
      BY <1>3, <1>6, <2>8, Here, HonestLater, HeardSame
    <3>2. QED
      BY <1>2, <1>6, <3>1, Bystander DEF Refreshing
  <2>9. QED
    BY <1>2, <1>5, <1>6, <1>7, <2>6, <2>7, <2>8, AllServed
<1>15. QED
  BY <1>13, <1>14

LEMMA PublishesKeep ==
    ASSUME IInv, NEW c \in Sidebars, ServerPublishes(c)
    PROVE  IInv'
<1> DEFINE q == conn[c]
           r == conn'[c]
           m == Head(q.out)
           rest == [conn EXCEPT ![c].out = Tail(@)]
<1>1. /\ q.out # <<>>
      /\ conn' = IF m.type = "applied" THEN Reply(rest, c, m) ELSE Broadcast(rest, m)
      /\ UNCHANGED <<live, attached, home, windows, server, app, held, due, built, hooks, seen>>
  BY DEF ServerPublishes
<1>2. /\ SoundServer(server') /\ Later(server, server') /\ due' \subseteq Tasks
      /\ DOMAIN conn = Sidebars /\ ConnFields \subseteq DOMAIN q
      /\ \A d \in Sidebars : Connected(conn[d], held[d], server')
  BY <1>1, Here
<1>3. /\ DOMAIN rest = Sidebars /\ rest[c] = [q EXCEPT !.out = Tail(@)]
      /\ \A d \in Sidebars : d # c => rest[d] = conn[d]
  BY <1>2
<1>4. Connected(q, held[c], server')
  BY <1>2
<1> HIDE DEF rest
<1>5. conn' = [d \in Sidebars |-> conn'[d]]
  BY <1>1, <1>3 DEF Reply, Broadcast
<1>6. Functions' /\ Alive' \subseteq Alive
  BY <1>1, <1>5, Here DEF Functions, Alive
<1> HIDE DEF q, r, m
<1>7. /\ IsSeq(q.out) /\ IsSeq(Tail(q.out)) /\ ToSet(q.out) = {m} \cup ToSet(Tail(q.out))
  BY <1>1, <1>4, SeqTail DEF Connected, AllHonest, m
<1>8. Honest(m, server') /\ m.type \in ServerMessages /\ q.renaming = <<>>
  BY <1>1, <1>4, <1>7 DEF Connected, AllHonest
<1>9. CASE m.type = "applied"
  <2>1. r = [rest[c] EXCEPT !.down = Append(@, m)]
        /\ \A d \in Sidebars : d # c => conn'[d] = rest[d]
    BY <1>1, <1>3, <1>9 DEF Reply, r
  <2>2. /\ ConnFields \subseteq DOMAIN r /\ r.up = q.up /\ r.queue = q.queue
        /\ r.pending = q.pending /\ r.down = Append(q.down, m) /\ r.renaming = q.renaming
        /\ r.out = Tail(q.out) /\ r.switching = q.switching /\ r.again = q.again
    BY <1>2, <1>3, <2>1 DEF ConnFields
  <2>3. IsSeq(q.down) /\ IsSeq(r.down) /\ ToSet(r.down) = ToSet(q.down) \cup {m}
    BY <1>4, <2>2, SeqAppend DEF Connected, AllHonest
  <2>4. Connected(r, held[c], server')
    BY <1>4, <1>7, <1>8, <2>2, <2>3 DEF Connected, AllHonest
  <2>5. ASSUME c \in Alive PROVE Moved(q, r)
    <3>1. AcksLead(app[c], q, seen[c], server)
      BY <2>5 DEF IInv, Follows, Agrees, q
    <3>2. m \in Acks(q.out)
      BY <1>7, <1>9 DEF Acks
    <3>3. Ordered(r.down)
      BY <2>2, <2>3, <3>1, <3>2, OrderedAppend DEF AcksLead
    <3>4. Acks(q.out) \cup Acks(q.down) = Acks(r.out) \cup Acks(r.down)
      BY <1>7, <1>9, <2>2, <2>3 DEF Acks
    <3>5. Acks(r.out) \subseteq Acks(q.out)
      BY <1>7, <2>2 DEF Acks
    <3>6. \A k \in ToSet(r.down) : k.type = "state" => k \in ToSet(q.down)
      BY <1>9, <2>3
    <3>7. Has(q.out, {"state"}) => Has(r.out, {"state"})
      BY <1>7, <1>9, <2>2 DEF Has
    <3>8. Coming(q) => Coming(r)
      BY <2>2, <2>3 DEF Coming, Has
    <3>9. QED
      BY <2>2, <3>3, <3>4, <3>5, <3>6, <3>7, <3>8 DEF Moved
  <2>6. Heard(r, r, server')
    BY <2>4, HeardSame
  <2>7. \A d \in Sidebars : d # c => Heard(conn[d], conn'[d], server')
    BY <1>2, <1>3, <2>1, HeardSame
  <2>8. QED
    BY <1>1, <1>2, <1>6, <2>4, <2>5, <2>6, <2>7, OneServed DEF q, r
<1>10. CASE m.type # "applied"
  <2>1. conn' = Broadcast(rest, m) /\ m.type \in Broadcasts
    BY <1>1, <1>8, <1>10 DEF Broadcasts
  <2>2. /\ ConnFields \subseteq DOMAIN rest[c] /\ rest[c].up = q.up /\ rest[c].queue = q.queue
        /\ rest[c].pending = q.pending /\ rest[c].down = q.down /\ rest[c].renaming = q.renaming
        /\ rest[c].out = Tail(q.out) /\ rest[c].switching = q.switching
        /\ rest[c].again = q.again
    BY <1>2, <1>3 DEF ConnFields
  <2>3. Connected(rest[c], held[c], server')
    BY <1>4, <1>7, <1>8, <2>2 DEF Connected, AllHonest
  <2>4. ASSUME NEW d \in Sidebars
        PROVE  Heard(rest[d], conn'[d], server') /\ (d \in Alive => m \in ToSet(conn'[d].queue))
    <3>1. Connected(rest[d], held[d], server')
      BY <1>2, <1>3, <2>3
    <3>2. QED
      BY <1>3, <1>8, <2>1, <3>1, BroadcastFacts DEF Connected, AllHonest
  <2>5. Heard(rest[c], r, server') /\ Connected(r, held[c], server') /\ Heard(r, r, server')
    BY <2>3, <2>4, HeardFacts, HeardSame DEF r
  <2>6. ASSUME c \in Alive PROVE Moved(q, r)
    <3>1. /\ r.up = q.up /\ r.pending = q.pending /\ r.down = q.down /\ r.out = Tail(q.out)
          /\ r.switching = q.switching /\ ToSet(q.queue) \subseteq ToSet(r.queue)
      BY <2>2, <2>5 DEF Heard, Hears, ConnFields
    <3>2. m \in ToSet(r.queue)
      BY <2>4, <2>6 DEF r
    <3>3. Acks(r.out) = Acks(q.out)
      BY <1>7, <1>10, <3>1 DEF Acks
    <3>4. Has(q.out, {"state"}) => Has(r.out, {"state"}) \/ Coming(r)
      BY <1>7, <3>1, <3>2 DEF Has, Coming
    <3>5. Coming(q) => Coming(r)
      BY <3>1 DEF Has, Coming
    <3>6. QED
      BY <3>1, <3>3, <3>4, <3>5 DEF Moved
  <2>7. \A d \in Sidebars : d # c => Heard(conn[d], conn'[d], server')
    BY <1>3, <2>4
  <2>8. QED
    BY <1>1, <1>2, <1>6, <2>5, <2>6, <2>7, OneServed DEF q, r
<1>11. QED
  BY <1>9, <1>10

LEMMA IdleFacts ==
    ASSUME NEW x, NEW s
    PROVE  Connected([IdleConn EXCEPT !.again = x], NoCommand, s)
           /\ Connected(IdleConn, NoCommand, s)
<1> DEFINE q == [IdleConn EXCEPT !.again = x]
<1>1. /\ ConnFields \subseteq DOMAIN q /\ q.up = <<>> /\ q.queue = <<>> /\ q.pending = <<>>
      /\ q.down = <<>> /\ q.out = <<>> /\ q.renaming = <<>>
  BY DEF IdleConn, ConnFields
<1> HIDE DEF q
<1>2. Connected(q, NoCommand, s)
  BY <1>1, SeqNone DEF Connected, AllHonest
<1>3. /\ ConnFields \subseteq DOMAIN IdleConn /\ IdleConn.up = <<>> /\ IdleConn.queue = <<>>
      /\ IdleConn.pending = <<>> /\ IdleConn.down = <<>> /\ IdleConn.out = <<>>
      /\ IdleConn.renaming = <<>>
  BY DEF IdleConn, ConnFields
<1>4. Connected(IdleConn, NoCommand, s)
  BY <1>3, SeqNone DEF Connected, AllHonest
<1>5. QED
  BY <1>2, <1>4 DEF q

(* The sidebars of a session end with it, whoever ends it.                  *)
LEMMA EndsKeep ==
    ASSUME IInv, NEW cs, NEW n, NEW fallback, SessionEnds(n, fallback, cs),
           UNCHANGED <<server, app, built, seen>>,
           \A d \in Sidebars : Connected(cs[d], held[d], server) /\ Moved(conn[d], cs[d])
    PROVE  IInv'
<1>1. /\ home' = [c \in Sidebars |-> IF home[c] = n THEN None ELSE home[c]]
      /\ held' = [c \in Sidebars |-> IF home[c] = n THEN NoCommand ELSE held[c]]
      /\ conn' = [c \in Sidebars |->
                    IF home[c] = n THEN [IdleConn EXCEPT !.again = cs[c].again] ELSE cs[c]]
  BY DEF SessionEnds
<1>2. due' \subseteq Tasks /\ due \subseteq due'
  BY Here, WakeFacts DEF SessionEnds
<1>3. SoundServer(server') /\ Later(server, server')
  BY Here
<1>4. /\ home' = [c \in Sidebars |-> home'[c]] /\ held' = [c \in Sidebars |-> held'[c]]
      /\ conn' = [c \in Sidebars |-> conn'[c]]
  BY <1>1
<1>5. Functions'
  BY <1>4, Here DEF Functions
<1>6. Alive' \subseteq Alive
  BY <1>1 DEF Alive
<1>7. Refreshing => Refreshing'
  BY <1>2 DEF Refreshing
<1>8. ASSUME NEW d \in Sidebars
      PROVE  SoundSidebar(d)' /\ (d \in Alive /\ d \in Alive' => Follows(d)')
  <2>1. CASE home[d] = n
    <3>1. conn'[d] = [IdleConn EXCEPT !.again = cs[d].again] /\ held'[d] = NoCommand
      BY <1>1, <2>1
    <3>2. Connected(conn'[d], held'[d], server')
      BY <3>1, IdleFacts
    <3>3. d \notin Alive'
      BY <1>1, <2>1 DEF Alive
    <3>4. SoundSidebar(d)'
      BY <3>2 DEF IInv, Typed, SoundSidebar
    <3>5. QED
      BY <3>3, <3>4
  <2>2. CASE home[d] # n
    <3>1. conn'[d] = cs[d] /\ held'[d] = held[d] /\ app'[d] = app[d] /\ seen'[d] = seen[d]
      BY <1>1, <2>2
    <3>2. Connected(cs[d], held[d], server') /\ Moved(conn[d], cs[d])
      OBVIOUS
    <3>3. Heard(cs[d], conn'[d], server')
      BY <3>1, <3>2, HeardSame
    <3>4. QED
      BY <1>3, <1>7, <3>1, <3>2, <3>3, Aside
  <2>3. QED
    BY <2>1, <2>2
<1>9. QED
  BY <1>2, <1>3, <1>5, <1>6, <1>8, AllServed

LEMMA ClosesKeep ==
    ASSUME IInv, NEW n, SessionCloses(n)
    PROVE  IInv'
<1>1. SessionEnds(n, None, conn) /\ UNCHANGED <<server, app, built, seen>>
  BY DEF SessionCloses
<1>2. \A d \in Sidebars : Connected(conn[d], held[d], server) /\ Moved(conn[d], conn[d])
  BY Here, MovedSame
<1>3. QED
  BY <1>1, <1>2, EndsKeep

LEMMA KillsKeep ==
    ASSUME IInv, NEW c \in Sidebars, ServerKillsSession(c)
    PROVE  IInv'
<1> DEFINE names == Command(c).names
           n == Head(names)
           x == [type |-> "kill-session", names |-> Tail(names)]
           rest == IF Tail(names) = <<>> THEN Consumed(conn, c)
                   ELSE [conn EXCEPT ![c].up[1] = x]
           done == [rest EXCEPT ![c].again = TRUE]
           q == conn[c]
           r == done[c]
<1>1. /\ q.up # <<>> /\ q.out = <<>> /\ q.switching = None /\ q.renaming = <<>>
      /\ Head(q.up).type = "kill-session"
  BY DEF ServerKillsSession, ReadsCommand, Idle, Command
<1>2. /\ \/ /\ conn' = done
            /\ UNCHANGED <<home, held, due>>
         \/ \E f : SessionEnds(n, f, done)
      /\ UNCHANGED <<windows, server, app, built, seen>>
  BY DEF ServerKillsSession
<1>3. /\ DOMAIN conn = Sidebars /\ ConnFields \subseteq DOMAIN q
      /\ Connected(q, held[c], server) /\ SoundServer(server)
      /\ \A d \in Sidebars : Connected(conn[d], held[d], server)
  BY Here
<1>4. x.type = "kill-session"
  OBVIOUS
<1> HIDE DEF n, x
<1>5. /\ DOMAIN rest = Sidebars /\ \A d \in Sidebars : d # c => rest[d] = conn[d]
      /\ \/ rest[c] = [q EXCEPT !.up = Tail(@)]
         \/ rest[c] = [q EXCEPT !.up = [@ EXCEPT ![1] = x]]
  BY <1>3 DEF Consumed
<1> HIDE DEF rest
<1>6. /\ done = [d \in Sidebars |-> done[d]] /\ \A d \in Sidebars : d # c => done[d] = conn[d]
      /\ r = [rest[c] EXCEPT !.again = TRUE]
  BY <1>5
<1> HIDE DEF done, q, r
<1>7. /\ ConnFields \subseteq DOMAIN r /\ r.queue = q.queue
      /\ r.pending = q.pending /\ r.down = q.down /\ r.renaming = q.renaming
      /\ r.out = q.out /\ r.switching = q.switching
      /\ r.up = Tail(q.up) \/ r.up = [q.up EXCEPT ![1] = x]
  BY <1>3, <1>5, <1>6 DEF ConnFields
<1>8. IsSeq(q.up) /\ ToSet(q.up) = {Head(q.up)} \cup ToSet(Tail(q.up))
  BY <1>1, <1>3, SeqTail DEF Connected, AllHonest
<1>9. /\ IsSeq(r.up) /\ ToSet(r.up) \subseteq ToSet(Tail(q.up)) \cup {x}
      /\ ToSet(Tail(q.up)) \subseteq ToSet(r.up)
  <2>1. CASE r.up = Tail(q.up)
    BY <1>1, <1>8, <2>1, SeqTail
  <2>2. CASE r.up = [q.up EXCEPT ![1] = x]
    <3>1. /\ IsSeq([q.up EXCEPT ![1] = x])
          /\ ToSet([q.up EXCEPT ![1] = x]) = {x} \cup ToSet(Tail(q.up))
      BY <1>1, <1>8, SeqHead
    <3>2. IsSeq(r.up) /\ ToSet(r.up) = {x} \cup ToSet(Tail(q.up))
      BY <2>2, <3>1
    <3>3. QED
      BY <3>2
  <2>3. QED
    BY <1>7, <2>1, <2>2
<1>10. Honest(x, server)
  BY <1>4 DEF Honest, Revised
<1>11. Connected(r, held[c], server)
  BY <1>1, <1>3, <1>7, <1>8, <1>9, <1>10 DEF Connected, AllHonest
<1>12. Acks(q.out) = {} /\ ~Has(q.out, {"state"})
  BY <1>1, HoldsNone, HeldAcks, SeqNone DEF Has
<1>13. Moved(q, r)
  <2>1. Has(q.up, {"set-filter", "toggle-group"}) => Has(r.up, {"set-filter", "toggle-group"})
    BY <1>1, <1>8, <1>9 DEF Has
  <2>2. Asks(q.up) => Asks(r.up)
    BY <1>1, <1>8, <1>9 DEF Asks
  <2>3. \A m \in ToSet(q.up) : m.type \in SettingTypes => m \in ToSet(r.up)
    BY <1>1, <1>8, <1>9 DEF SettingTypes
  <2>4. Coming(q) => Coming(r)
    BY <1>7 DEF Coming
  <2>5. QED
    BY <1>7, <1>12, <2>1, <2>2, <2>3, <2>4 DEF Moved
<1>14. \A d \in Sidebars : Connected(done[d], held[d], server) /\ Moved(conn[d], done[d])
  BY <1>3, <1>6, <1>11, <1>13, MovedSame DEF q, r
<1>15. CASE conn' = done /\ UNCHANGED <<home, held, due>>
  <2>1. Functions' /\ Alive' \subseteq Alive
    BY <1>2, <1>6, <1>15, Here DEF Functions, Alive
  <2>2. Heard(r, r, server') /\ \A d \in Sidebars : d # c => Heard(conn[d], conn'[d], server')
    BY <1>2, <1>3, <1>6, <1>11, <1>15, HeardSame
  <2>3. Later(server, server') /\ SoundServer(server') /\ due' \subseteq Tasks
    BY <1>2, <1>15, Here
  <2>4. QED
    BY <1>2, <1>11, <1>13, <1>15, <2>1, <2>2, <2>3, OneServed DEF q, r
<1>16. CASE \E f : SessionEnds(n, f, done)
  BY <1>2, <1>14, <1>16, EndsKeep
<1>17. QED
  BY <1>2, <1>15, <1>16

LEMMA RenamesKeep ==
    ASSUME IInv, NEW c \in Sidebars, ServerRenamesSession(c)
    PROVE  IInv'
<1> DEFINE old == Command(c).name
           new == Command(c).value
           q == conn[c]
           r == conn'[c]
           pair == <<old, new>>
<1>1. /\ q.up # <<>> /\ q.out = <<>> /\ q.switching = None /\ q.renaming = <<>> /\ ~q.again
      /\ Head(q.up).type = "rename" /\ new = Head(q.up).value
  BY DEF ServerRenamesSession, ReadsCommand, Idle, Command
<1>2. UNCHANGED <<server, app, held, built, seen>>
  BY DEF ServerRenamesSession
<1>3. /\ conn' = [d \in Sidebars |-> conn'[d]]
      /\ \A d \in Sidebars : d # c => conn'[d] = conn[d]
      /\ \/ r = [q EXCEPT !.up = Tail(@), !.again = TRUE]
         \/ r = [q EXCEPT !.up = Tail(@), !.renaming = pair]
  BY Here DEF ServerRenamesSession, Consumed
<1>4. due \subseteq due' /\ due' \subseteq Tasks
  BY Here, WakeFacts DEF ServerRenamesSession
<1>5. /\ home' = [d \in Sidebars |-> home'[d]]
      /\ \A d \in Sidebars : d \notin Alive => home'[d] = None
  BY Here DEF ServerRenamesSession, Functions, Alive
<1>6. Functions' /\ Alive' \subseteq Alive
  BY <1>2, <1>3, <1>5, Here DEF Functions, Alive
<1>7. SoundServer(server') /\ Later(server, server')
  BY <1>2, Here
<1>8. Connected(q, held[c], server') /\ ConnFields \subseteq DOMAIN q
  BY <1>2, Here
<1>9. pair[2] = new
  OBVIOUS
<1> HIDE DEF q, r, new, pair
<1>10. new # None
  <2>1. Honest(Head(q.up), server')
    BY <1>1, <1>8, SeqFacts DEF Connected, AllHonest
  <2>2. QED
    BY <1>1, <2>1 DEF Honest
<1>11. /\ ConnFields \subseteq DOMAIN r /\ r.up = Tail(q.up) /\ r.queue = q.queue
       /\ r.pending = q.pending /\ r.down = q.down
       /\ r.out = q.out /\ r.switching = q.switching
       /\ r.renaming = <<>> \/ (r.renaming = pair /\ ~r.again)
  BY <1>1, <1>3, <1>8 DEF ConnFields
<1>12. Consumes(q, r, server')
  BY <1>1, <1>9, <1>10, <1>11, HoldsNone DEF Consumes, SettingTypes, Replied
<1>13. QED
  BY <1>2, <1>3, <1>4, <1>6, <1>7, <1>12, ServedAlone DEF q, r

LEMMA QuitsKeep ==
    ASSUME IInv, NEW c \in Sidebars, ServerQuits(c)
    PROVE  IInv'
<1>1. /\ home' = [d \in Sidebars |-> None] /\ held' = [d \in Sidebars |-> NoCommand]
      /\ conn' = [d \in Sidebars |-> IdleConn]
      /\ UNCHANGED <<server, app, due, built, seen>>
  BY DEF ServerQuits
<1>2. Alive' = {}
  BY <1>1 DEF Alive
<1>3. Functions' /\ due' \subseteq Tasks /\ SoundServer(server') /\ Later(server, server')
  BY <1>1, Here DEF Functions
<1>4. ASSUME NEW d \in Sidebars PROVE SoundSidebar(d)'
  <2>1. Connected(conn'[d], held'[d], server')
    BY <1>1, IdleFacts
  <2>2. QED
    BY <1>1, <2>1 DEF IInv, Typed, SoundSidebar
<1>5. QED
  BY <1>1, <1>2, <1>3, <1>4, AllServed

------------------------------------------------------------------------------
(* A step of a sidebar: what it has to send is sent or held back.            *)

LEMMA SentHonest ==
    ASSUME NEW m, NEW s, Sent(m) \/ m.type = "width"
    PROVE  Honest(m, s)
BY DEF Sent, Honest, Revised

(* What is sent after the width that was held back, if there was one.       *)
AfterHeld(up, h, q) == up \o (IF h = NoCommand THEN <<>> ELSE <<h>>) \o q

LEMMA SendingFacts ==
    ASSUME NEW up, IsSeq(up), NEW h, NEW q, IsSeq(q)
    PROVE  LET all == AfterHeld(up, h, q) IN
           /\ IsSeq(all) /\ ToSet(up) \subseteq ToSet(all) /\ ToSet(q) \subseteq ToSet(all)
           /\ \A m \in ToSet(all) :
                 m \in ToSet(up) \/ m \in ToSet(q) \/ (m = h /\ h # NoCommand)
           /\ h # NoCommand => h \in ToSet(all)
<1> DEFINE one == <<h>>
           none == <<>>
           p == IF h = NoCommand THEN none ELSE one
           x == up \o p
           all == AfterHeld(up, h, q)
<1>1. IsSeq(one) /\ ToSet(one) = {h} /\ IsSeq(none) /\ ToSet(none) = {}
  BY SeqOne, SeqNone
<1>2. all = x \o q
  BY DEF AfterHeld
<1> HIDE DEF one, none, all
<1>3. IsSeq(p) /\ (h = NoCommand => ToSet(p) = {}) /\ (h # NoCommand => ToSet(p) = {h})
  BY <1>1
<1> HIDE DEF p
<1>4. IsSeq(x) /\ ToSet(x) = ToSet(up) \cup ToSet(p)
  BY <1>3, SeqConcat
<1> HIDE DEF x
<1>5. IsSeq(all) /\ ToSet(all) = ToSet(x) \cup ToSet(q)
  BY <1>2, <1>4, SeqConcat
<1>6. QED
  BY <1>3, <1>4, <1>5 DEF all

LEMMA SendsFacts ==
    ASSUME NEW c \in Sidebars, NEW q, Sendable(q), NEW s, Connected(conn[c], held[c], s)
    PROVE  LET up == SentAfter(c, q)
               h  == HeldAfter(c, q) IN
           /\ AllHonest(up, s) /\ ToSet(conn[c].up) \subseteq ToSet(up)
           /\ h = NoCommand \/ h.type = "width"
           /\ ~IsWidth(q) => ToSet(q) \subseteq ToSet(up)
           /\ ~IsWidth(q) /\ held[c] # NoCommand => h = held[c] \/ held[c] \in ToSet(up)
           /\ IsWidth(q) => h = Head(q) /\ h.type = "width" /\ ToSet(q) = {h}
<1> DEFINE up == SentAfter(c, q)
           h  == HeldAfter(c, q)
           old == conn[c].up
           w == held[c]
<1>1. AllHonest(old, s) /\ IsSeq(old) /\ (w = NoCommand \/ w.type = "width") /\ IsSeq(q)
  BY DEF Connected, AllHonest, Sendable
<1>2. CASE q = <<>>
  <2>1. up = old /\ h = w /\ ~IsWidth(q)
    BY <1>2 DEF SentAfter, HeldAfter, IsWidth
  <2>2. ToSet(q) = {}
    BY <1>2, SeqNone
  <2> HIDE DEF up, h
  <2>3. QED
    BY <1>1, <2>1, <2>2 DEF up, h
<1>3. CASE IsWidth(q)
  <2>1. up = old /\ h = Head(q) /\ h.type = "width"
    BY <1>3 DEF SentAfter, HeldAfter, IsWidth
  <2>2. q = <<h>>
    BY <1>3, <2>1 DEF Sendable
  <2> HIDE DEF up, h
  <2>3. ToSet(q) = {h}
    BY <2>2, SeqOne
  <2>4. QED
    BY <1>1, <1>3, <2>1, <2>3 DEF up, h
<1>4. CASE q # <<>> /\ ~IsWidth(q)
  <2>1. up = AfterHeld(old, w, q) /\ h = NoCommand
    BY <1>4 DEF SentAfter, HeldAfter, AfterHeld
  <2> HIDE DEF up, h, w, old
  <2>2. /\ IsSeq(up) /\ ToSet(old) \subseteq ToSet(up) /\ ToSet(q) \subseteq ToSet(up)
        /\ \A m \in ToSet(up) :
                 m \in ToSet(old) \/ m \in ToSet(q) \/ (m = w /\ w # NoCommand)
        /\ w # NoCommand => w \in ToSet(up)
    BY <1>1, <2>1, SendingFacts
  <2>3. ASSUME NEW m \in ToSet(up) PROVE Honest(m, s)
    <3>1. m \in ToSet(old) => Honest(m, s)
      BY <1>1 DEF AllHonest
    <3>2. m \in ToSet(q) \/ (m = w /\ w # NoCommand) => Sent(m) \/ m.type = "width"
      BY <1>1 DEF Sendable
    <3>3. QED
      BY <2>2, <3>1, <3>2, SentHonest
  <2>4. QED
    BY <1>4, <2>1, <2>2, <2>3 DEF AllHonest, up, h, w, old
<1>5. QED
  BY <1>2, <1>3, <1>4

(* Nothing it asked for is forgotten.                                       *)
Carries(c, q, r, h) ==
    /\ ToSet(conn[c].up) \subseteq ToSet(r.up)
    /\ \A t \in SettingTypes : \A id : Asked(conn[c], held[c], t, id) =>
          Asked(r, h, t, id) \/ (IsWidth(q) /\ t = "width")
    /\ \A m \in ToSet(q) : m \in ToSet(r.up) \/ (IsWidth(q) /\ m = h)
    /\ IsWidth(q) => ToSet(q) = {h} /\ h = Head(q) /\ h.type = "width"

LEMMA CarriesFacts ==
    ASSUME NEW c \in Sidebars, NEW q, Sendable(q), NEW s, Connected(conn[c], held[c], s),
           NEW r, r.up = SentAfter(c, q)
    PROVE  Carries(c, q, r, HeldAfter(c, q))
<1> DEFINE h == HeldAfter(c, q)
<1>1. /\ ToSet(conn[c].up) \subseteq ToSet(r.up)
      /\ ~IsWidth(q) => ToSet(q) \subseteq ToSet(r.up)
      /\ ~IsWidth(q) /\ held[c] # NoCommand => h = held[c] \/ held[c] \in ToSet(r.up)
      /\ IsWidth(q) => h = Head(q) /\ h.type = "width" /\ ToSet(q) = {h}
      /\ held[c] = NoCommand \/ held[c].type = "width"
  BY SendsFacts DEF Connected
<1> HIDE DEF h
<1>2. ASSUME NEW t \in SettingTypes, NEW id, Asked(conn[c], held[c], t, id)
      PROVE  Asked(r, h, t, id) \/ (IsWidth(q) /\ t = "width")
  <2>1. CASE \E m \in ToSet(conn[c].up) : m.type = t /\ m.id = id
    BY <1>1, <2>1 DEF Asked
  <2>2. CASE held[c].type = t /\ held[c].id = id
    <3>1. held[c] # NoCommand
      BY <2>2 DEF NoCommand, SettingTypes
    <3>2. t = "width"
      BY <1>1, <2>2, <3>1
    <3>3. QED
      BY <1>1, <2>2, <3>1, <3>2 DEF Asked
  <2>3. QED
    BY <1>2, <2>1, <2>2 DEF Asked
<1>3. QED
  BY <1>1, <1>2 DEF Carries, h

Cleared(a) == [a EXCEPT !.commands = <<>>]

LEMMA ClearedFacts ==
    ASSUME NEW a, Sound(a)
    PROVE  LET b == Cleared(a) IN
           /\ Ready(b) /\ Alike(a, b, {"commands"}) /\ (GoodFocus(b) <=> GoodFocus(a))
<1> DEFINE b == Cleared(a)
<1>1. Alike(a, b, {"commands"}) /\ b.commands = <<>>
  BY DEF Sound, Alike, AppFields, Cleared
<1> HIDE DEF b
<1>2. /\ b.sessions = a.sessions /\ b.filter = a.filter /\ b.collapsed = a.collapsed
      /\ b.focus = a.focus /\ b.local = a.local /\ b.settings = a.settings
      /\ b.intents = a.intents /\ b.revision = a.revision /\ b.modal = a.modal
      /\ AppFields \subseteq DOMAIN b
  BY <1>1 DEF Alike, AppFields, Sound
<1>3. Ready(b)
  BY <1>1, <1>2 DEF Ready, Sound
<1>4. GoodFocus(b) <=> GoodFocus(a)
  BY <1>2, ListFacts
<1>5. QED
  BY <1>1, <1>3, <1>4 DEF b

LEMMA OwnStep ==
    ASSUME IInv, NEW c \in Sidebars, Functions', UNCHANGED <<home, server, due, built>>,
           \A d \in Sidebars : d # c =>
              /\ app'[d] = app[d] /\ held'[d] = held[d]
              /\ conn'[d] = conn[d] /\ seen'[d] = seen[d],
           SoundSidebar(c)', c \in Alive => Follows(c)'
    PROVE  IInv'
<1>1. SoundServer(server') /\ Later(server, server') /\ due' \subseteq Tasks
  BY Here
<1>2. ASSUME NEW d \in Sidebars PROVE SoundSidebar(d)' /\ (d \in Alive => Follows(d)')
  <2>1. CASE d = c
    BY <2>1
  <2>2. CASE d # c
    <3>1. Heard(conn[d], conn'[d], server')
      BY <1>1, <2>2, Here, HeardSame
    <3>2. QED
      BY <1>1, <2>2, <3>1, Bystander DEF Refreshing
  <2>3. QED
    BY <2>1, <2>2
<1>3. Alive' \subseteq Alive
  BY DEF Alive
<1>4. QED
  BY <1>1, <1>2, <1>3, AllServed

LEMMA FlushWidthKeeps ==
    ASSUME IInv, NEW c \in Sidebars, FlushWidth(c)
    PROVE  IInv'
<1> DEFINE q == conn[c]
           r == conn'[c]
           w == held[c]
<1>1. /\ w # NoCommand
      /\ UNCHANGED <<home, server, due, built, app, seen>>
  BY DEF FlushWidth
<1>2. /\ conn' = [d \in Sidebars |-> conn'[d]] /\ held' = [d \in Sidebars |-> held'[d]]
      /\ r = [q EXCEPT !.up = Append(@, w)] /\ held'[c] = NoCommand
      /\ \A d \in Sidebars : d # c => conn'[d] = conn[d] /\ held'[d] = held[d]
  BY Here DEF FlushWidth, Functions
<1>3. Connected(q, w, server) /\ ConnFields \subseteq DOMAIN q
  BY Here
<1>4. SoundSidebar(c) /\ (c \in Alive => Follows(c))
  BY DEF IInv, Typed
<1> HIDE DEF q, r, w
<1>5. /\ ConnFields \subseteq DOMAIN r /\ r.queue = q.queue /\ r.again = q.again
      /\ r.pending = q.pending /\ r.down = q.down /\ r.renaming = q.renaming
      /\ r.out = q.out /\ r.switching = q.switching /\ r.up = Append(q.up, w)
  BY <1>2, <1>3 DEF ConnFields
<1>6. IsSeq(r.up) /\ ToSet(r.up) = ToSet(q.up) \cup {w}
  BY <1>3, <1>5, SeqAppend DEF Connected, AllHonest
<1>7. w.type = "width" /\ Honest(w, server)
  BY <1>1, <1>3, SentHonest DEF Connected
<1>8. Connected(r, NoCommand, server)
  BY <1>3, <1>5, <1>6, <1>7 DEF Connected, AllHonest
<1>9. SoundSidebar(c)'
  BY <1>1, <1>2, <1>4, <1>8 DEF SoundSidebar, r
<1>10. ASSUME c \in Alive PROVE Follows(c)'
  <2>1. /\ FocusFollows(app[c], q) /\ Agrees(app[c], q, w, seen[c], server)
        /\ SwitchFollows(app[c], q, seen[c]) \/ Refreshing
    BY <1>4, <1>10 DEF Follows, q, w
  <2>2. ASSUME NEW t \in SettingTypes, NEW id, Asked(q, w, t, id)
        PROVE  Asked(r, NoCommand, t, id)
    BY <1>6, <2>2 DEF Asked
  <2>3. FocusFollows(app[c], r)
    BY <1>5, <1>6, <2>1 DEF FocusFollows, Coming, Has
  <2>4. SwitchFollows(app[c], r, seen[c]) \/ Refreshing
    BY <1>5, <1>6, <2>1 DEF SwitchFollows, Asks, Coming
  <2>5. IntentsFollow(app[c], r, NoCommand)
    BY <1>5, <2>1, <2>2 DEF Agrees, IntentsFollow, Answered
  <2>6. AcksLead(app[c], r, seen[c], server)
    BY <1>5, <2>1 DEF Agrees, AcksLead
  <2>7. Current(app[c], r, NoCommand, seen[c], server)
    BY <2>1, <2>2 DEF Agrees, Current
  <2>8. QED
    BY <1>1, <1>2, <2>3, <2>4, <2>5, <2>6, <2>7 DEF Follows, Agrees, Refreshing, r
<1>11. Functions'
  BY <1>1, <1>2, Here DEF Functions
<1>12. QED
  BY <1>1, <1>2, <1>9, <1>10, <1>11, OwnStep

(* What an app does after a key, on a connection that carries it.           *)
Same(q, r) ==
    /\ r.queue = q.queue /\ r.pending = q.pending /\ r.down = q.down
    /\ r.out = q.out /\ r.switching = q.switching

LEMMA KeyFollows ==
    ASSUME NEW c \in Sidebars, NEW a, Sound(a), NEW x, KeyResult(a, x),
           NEW b, Alike(x, b, {"commands"}), GoodFocus(x) => GoodFocus(b),
           NEW r, Same(conn[c], r), NEW h, Carries(c, x.commands, r, h),
           NEW sn, NEW s, FocusFollows(a, conn[c]), Agrees(a, conn[c], held[c], sn, s)
    PROVE  /\ FocusFollows(b, r) /\ Agrees(b, r, h, sn, s)
           /\ SwitchFollows(a, conn[c], sn) => SwitchFollows(b, r, sn)
<1> DEFINE q == conn[c]
           m == x.commands
<1>1. /\ b.sessions = a.sessions /\ b.local = a.local /\ b.revision = a.revision
      /\ b.intents = x.intents /\ b.settings = x.settings /\ b.pending = x.pending
  BY DEF KeyResult, Alike, AppFields
<1>2. /\ GoodFocus(a) => GoodFocus(x) \/ Has(m, {"set-filter", "toggle-group"})
      /\ b.pending \in {a.pending, None} \/ Asks(m)
      /\ \A t \in SettingTypes : KeptOrAsked(a, x, t)
      /\ IsWidth(m) => x.intents["width"] # <<>> /\ x.intents["width"][1] = Head(m).id
  BY <1>1 DEF KeyResult
<1> HIDE DEF m
<1>3. Carries(c, m, r, h)
  BY DEF m
<1>4. /\ Has(m, {"set-filter", "toggle-group"}) => Has(r.up, {"set-filter", "toggle-group"})
      /\ Has(q.up, {"set-filter", "toggle-group"}) => Has(r.up, {"set-filter", "toggle-group"})
      /\ Asks(m) => Asks(r.up)
      /\ Asks(q.up) => Asks(r.up)
  BY <1>3 DEF Carries, Has, Asks
<1>5. FocusFollows(b, r)
  BY <1>2, <1>4 DEF FocusFollows, Coming, Same
<1>6. Settled(a, sn) => Settled(b, sn) \/ Asks(r.up)
  <2>1. CASE Asks(m)
    BY <1>4, <2>1
  <2>2. CASE b.pending = None
    BY <2>2 DEF Settled
  <2>3. CASE b.pending = a.pending
    BY <1>1, <2>3 DEF Settled, Known
  <2>4. QED
    BY <1>2, <2>1, <2>2, <2>3
<1>7. SwitchFollows(a, q, sn) => SwitchFollows(b, r, sn)
  BY <1>4, <1>6 DEF SwitchFollows, Coming, Same
<1>8. ASSUME NEW t \in SettingTypes, b.intents[t] # <<>>,
             NEW id, id = b.intents[t][1], Asked(q, held[c], t, id)
      PROVE  Asked(r, h, t, id)
  <2>1. CASE IsWidth(m) /\ t = "width"
    BY <1>1, <1>2, <1>3, <1>8, <2>1 DEF Carries, Asked
  <2>2. CASE ~(IsWidth(m) /\ t = "width")
    BY <1>3, <1>8, <2>2 DEF Carries
  <2>3. QED
    BY <2>1, <2>2
<1>9. ASSUME NEW t \in SettingTypes, NEW k \in ToSet(m), k.type = t,
             b.intents[t] # <<>>, b.intents[t][1] = k.id
      PROVE  Asked(r, h, t, b.intents[t][1])
  BY <1>3, <1>9 DEF Carries, Asked
<1>10. ASSUME NEW t \in SettingTypes
       PROVE  \/ /\ b.intents[t] = a.intents[t]
                 /\ t # "theme" => b.settings[t] = a.settings[t]
              \/ Waits(b, t) /\ Asked(r, h, t, b.intents[t][1])
  BY <1>1, <1>2, <1>9 DEF KeptOrAsked, Waits, m
<1>11. IntentsFollow(b, r, h)
  <2> SUFFICES ASSUME NEW t \in SettingTypes, Waits(b, t), b.intents[t] = a.intents[t]
               PROVE  Asked(r, h, t, b.intents[t][1]) \/ Answered(r, b.intents[t][1])
    BY <1>10 DEF IntentsFollow
  <2>1. Asked(q, held[c], t, a.intents[t][1]) \/ Answered(q, a.intents[t][1])
    BY DEF Agrees, IntentsFollow, Waits
  <2>2. QED
    BY <1>8, <2>1 DEF Waits, Answered, Same
<1>12. AcksLead(b, r, sn, s)
  BY <1>1 DEF Agrees, AcksLead, Same
<1>13. Current(b, r, h, sn, s)
  <2> SUFFICES ASSUME sn.revision = s.revision, NEW t \in SettingTypes,
                      b.intents[t] = a.intents[t],
                      t # "theme" => b.settings[t] = a.settings[t]
               PROVE  IF Waits(b, t) THEN Asked(r, h, t, b.intents[t][1])
                      ELSE t # "theme" => b.settings[t] = s.settings[t]
    BY <1>10 DEF Current
  <2>1. IF Waits(a, t) THEN Asked(q, held[c], t, a.intents[t][1])
        ELSE t # "theme" => a.settings[t] = s.settings[t]
    BY DEF Agrees, Current
  <2>2. QED
    BY <1>8, <2>1 DEF Waits
<1>14. QED
  BY <1>5, <1>7, <1>11, <1>12, <1>13 DEF Agrees

LEMMA KeyPressKeeps ==
    ASSUME IInv, NEW c \in Sidebars, NEW k \in Keys, KeyPress(c, k)
    PROVE  IInv'
<1> DEFINE a == app[c]
           x == ApplyKey(a, k)
           b == app'[c]
           q == conn[c]
           r == conn'[c]
           up == SentAfter(c, x.commands)
<1>1. c \in Alive /\ UNCHANGED <<home, server, due, built, seen>>
  BY DEF KeyPress, Alive
<1>2. /\ conn' = [d \in Sidebars |-> conn'[d]] /\ held' = [d \in Sidebars |-> held'[d]]
      /\ app' = [d \in Sidebars |-> app'[d]]
      /\ b = [x EXCEPT !.commands = <<>>] /\ held'[c] = HeldAfter(c, x.commands)
      /\ r = [q EXCEPT !.up = up]
      /\ \A d \in Sidebars : d # c =>
            conn'[d] = conn[d] /\ held'[d] = held[d] /\ app'[d] = app[d]
  BY Here DEF KeyPress, Becomes, Functions
<1>3. Connected(q, held[c], server) /\ ConnFields \subseteq DOMAIN q
  BY Here
<1>4. SoundSidebar(c) /\ Follows(c)
  BY <1>1 DEF IInv, Typed
<1>5. Ready(a)
  BY <1>4 DEF SoundSidebar, Ready
<1>6. KeyResult(a, x)
  BY <1>5, KeyFacts
<1> HIDE DEF x, up
<1>7. Sendable(x.commands) /\ Sound(x)
  BY <1>6, OffersSendable DEF KeyResult
<1>8. Ready(b) /\ Alike(x, b, {"commands"}) /\ (GoodFocus(b) <=> GoodFocus(x))
  BY <1>2, <1>7, ClearedFacts DEF Cleared
<1> HIDE DEF b, q, r
<1>9. /\ ConnFields \subseteq DOMAIN r /\ Same(q, r) /\ r.up = up /\ r.again = q.again
      /\ r.renaming = q.renaming
  BY <1>2, <1>3 DEF ConnFields, Same
<1>10. AllHonest(up, server)
       /\ (HeldAfter(c, x.commands) = NoCommand \/ HeldAfter(c, x.commands).type = "width")
  BY <1>3, <1>7, SendsFacts DEF up, q
<1>11. Connected(r, held'[c], server)
  BY <1>2, <1>3, <1>9, <1>10 DEF Connected, Same
<1>12. SoundSidebar(c)'
  BY <1>1, <1>4, <1>8, <1>11 DEF SoundSidebar, Ready, b, r
<1>13. Carries(c, x.commands, r, held'[c])
  <2>1. r.up = SentAfter(c, x.commands) /\ Connected(conn[c], held[c], server)
    BY <1>3, <1>9 DEF up, q
  <2>2. Carries(c, x.commands, r, HeldAfter(c, x.commands))
    BY <1>7, <2>1, CarriesFacts
  <2>3. QED
    BY <1>2, <2>2
<1>14. Follows(c)'
  <2>1. /\ FocusFollows(a, conn[c]) /\ Agrees(a, conn[c], held[c], seen[c], server)
        /\ SwitchFollows(a, conn[c], seen[c]) \/ Refreshing
    BY <1>4 DEF Follows
  <2>2. Sound(a) /\ Same(conn[c], r)
    BY <1>5, <1>9 DEF Ready, q
  <2>3. /\ FocusFollows(b, r) /\ Agrees(b, r, held'[c], seen[c], server)
        /\ SwitchFollows(a, conn[c], seen[c]) => SwitchFollows(b, r, seen[c])
    BY <1>6, <1>8, <1>13, <2>1, <2>2, KeyFollows
  <2>4. QED
    BY <1>1, <2>1, <2>3 DEF Follows, Refreshing, b, r
<1>15. Functions'
  BY <1>1, <1>2, Here DEF Functions
<1>16. QED
  BY <1>1, <1>2, <1>12, <1>14, <1>15, OwnStep

(* A message is taken, and nothing is taken back.                           *)
Took(q, r) ==
    /\ q.down # <<>> /\ r.down = Tail(q.down) /\ r.queue = q.queue
    /\ r.pending = q.pending /\ r.out = q.out /\ r.switching = q.switching

Keeps(q, w, r, h) ==
    /\ ToSet(q.up) \subseteq ToSet(r.up)
    /\ \A t \in SettingTypes : \A id : Asked(q, w, t, id) => Asked(r, h, t, id)

LEMMA TookFacts ==
    ASSUME NEW q, NEW r, Took(q, r), NEW w, NEW s, Connected(q, w, s)
    PROVE  /\ ToSet(q.down) = {Head(q.down)} \cup ToSet(r.down)
           /\ AllHonest(r.down, s) /\ \A m \in ToSet(r.down) : m.type \in ServerMessages
           /\ Honest(Head(q.down), s) /\ Head(q.down).type \in ServerMessages
           /\ Ordered(q.down) => Ordered(r.down)
           /\ Ordered(q.down) /\ Head(q.down).type = "state" =>
                \A m \in Acks(r.down) : Head(q.down).revision < m.revision
           /\ Head(q.down).type # "applied" => Acks(r.down) = Acks(q.down)
           /\ Head(q.down).type = "applied" => Acks(q.down) = {Head(q.down)} \cup Acks(r.down)
           /\ Head(q.down).type # "state" => (Coming(r) <=> Coming(q))
<1>1. IsSeq(q.down) /\ AllHonest(q.down, s) /\ \A m \in ToSet(q.down) : m.type \in ServerMessages
  BY DEF Connected, AllHonest
<1>2. IsSeq(r.down) /\ ToSet(q.down) = {Head(q.down)} \cup ToSet(r.down)
  BY <1>1, SeqTail DEF Took
<1>3. /\ Ordered(q.down) => Ordered(r.down)
      /\ Ordered(q.down) /\ Head(q.down).type = "state" =>
           \A m \in Acks(r.down) : Head(q.down).revision < m.revision
  BY <1>1, OrderedTail DEF Took
<1>4. AllHonest(r.down, s) /\ Honest(Head(q.down), s)
  BY <1>1, <1>2 DEF AllHonest
<1>5. /\ Head(q.down).type # "applied" => Acks(r.down) = Acks(q.down)
      /\ Head(q.down).type = "applied" => Acks(q.down) = {Head(q.down)} \cup Acks(r.down)
  BY <1>2 DEF Acks
<1>6. Head(q.down).type # "state" => (Coming(r) <=> Coming(q))
  BY <1>2 DEF Coming, Has, Took
<1>7. QED
  BY <1>1, <1>2, <1>3, <1>4, <1>5, <1>6

LEMMA AcksSubset ==
    ASSUME NEW q, NEW r, Took(q, r), NEW w, NEW s, Connected(q, w, s), Ordered(q.down),
           \A m \in Acks(q.out), n \in ToSet(q.down) : n.type = "state" => n.revision < m.revision
    PROVE  /\ Acks(r.out) = Acks(q.out) /\ Acks(r.down) \subseteq Acks(q.down)
           /\ Ordered(r.down)
           /\ \A m \in Acks(r.out), n \in ToSet(r.down) :
                 n.type = "state" => n.revision < m.revision
<1>1. ToSet(r.down) \subseteq ToSet(q.down) /\ Ordered(r.down)
  BY TookFacts
<1>2. r.out = q.out
  BY DEF Took
<1>3. QED
  BY <1>1, <1>2 DEF Acks

LEMMA StateFollows ==
    ASSUME NEW q, NEW r, Took(q, r), NEW w, NEW s, SoundServer(s), Connected(q, w, s),
           NEW h, Keeps(q, w, r, h), NEW a, Sound(a), NEW sn, Agrees(a, q, w, sn, s),
           NEW m, m = Head(q.down), m.type = "state", NEW b, GoodFocus(b), Updated(a, b, m),
           b.pending # None => Known(b, b.pending) /\ (m.current = b.pending => b.pending = b.local),
           NEW tn, tn.current = m.current,
           tn.revision = IF m.revision > sn.revision THEN m.revision ELSE sn.revision
    PROVE  FocusFollows(b, r) /\ SwitchFollows(b, r, tn) /\ Agrees(b, r, h, tn, s)
<1>1. FocusFollows(b, r) /\ SwitchFollows(b, r, tn)
  BY DEF FocusFollows, SwitchFollows, Settled
<1>2. /\ s.revision \in Nat /\ a.revision \in Nat /\ sn.revision \in Nat
      /\ sn.revision <= a.revision /\ a.revision <= s.revision
  BY DEF SoundServer, Sound, Agrees, AcksLead
<1>3. /\ m \in ToSet(q.down) /\ m.revision \in Nat /\ m.revision <= s.revision
      /\ m.revision = s.revision => m.settings = s.settings
  BY TookFacts DEF Honest, Revised
<1>4. AcksLead(a, q, sn, s)
  BY DEF Agrees
<1>5. /\ Acks(r.out) = Acks(q.out) /\ Acks(r.down) = Acks(q.down) /\ Ordered(r.down)
      /\ \A k \in Acks(r.down) : m.revision < k.revision
      /\ \A k \in Acks(r.out) : m.revision < k.revision
      /\ \A k \in Acks(r.out), n \in ToSet(r.down) : n.type = "state" => n.revision < k.revision
  <2>1. Ordered(q.down)
    BY <1>4 DEF AcksLead
  <2>2. \A k \in Acks(q.out), n \in ToSet(q.down) : n.type = "state" => n.revision < k.revision
    BY <1>4 DEF AcksLead
  <2>3. Acks(r.out) = Acks(q.out) /\ Ordered(r.down)
        /\ \A k \in Acks(r.out), n \in ToSet(r.down) : n.type = "state" => n.revision < k.revision
    BY <2>1, <2>2, AcksSubset
  <2>4. Acks(r.down) = Acks(q.down) /\ \A k \in Acks(r.down) : m.revision < k.revision
    BY <2>1, TookFacts
  <2>5. QED
    BY <1>3, <2>2, <2>3, <2>4
<1>6. AcksLead(b, r, tn, s)
  <2>1. \A k \in Acks(r.out) \cup Acks(r.down) : sn.revision < k.revision /\ m.revision < k.revision
    BY <1>4, <1>5 DEF AcksLead
  <2>2. \A k \in Acks(r.out) \cup Acks(r.down) : tn.revision < k.revision
    BY <2>1
  <2>3. tn.revision \in Nat /\ tn.revision <= b.revision /\ b.revision <= s.revision
    BY <1>2, <1>3 DEF Updated
  <2>4. QED
    BY <1>5, <2>2, <2>3 DEF AcksLead
<1>7. ASSUME NEW t \in SettingTypes, Waits(b, t)
      PROVE  Waits(a, t) /\ b.intents[t] = a.intents[t]
  BY <1>2, <1>3, <1>7 DEF Updated, Waits
<1>8. IntentsFollow(b, r, h)
  <2> SUFFICES ASSUME NEW t \in SettingTypes, Waits(b, t)
               PROVE  Asked(r, h, t, b.intents[t][1]) \/ Answered(r, b.intents[t][1])
    BY DEF IntentsFollow
  <2>1. Asked(q, w, t, b.intents[t][1]) \/ Answered(q, b.intents[t][1])
    BY <1>7 DEF Agrees, IntentsFollow
  <2>2. QED
    BY <1>5, <2>1 DEF Keeps, Answered
<1>9. Current(b, r, h, tn, s)
  <2> SUFFICES ASSUME tn.revision = s.revision, NEW t \in SettingTypes
               PROVE  IF Waits(b, t) THEN Asked(r, h, t, b.intents[t][1])
                      ELSE t # "theme" => b.settings[t] = s.settings[t]
    BY DEF Current
  <2>1. CASE m.revision < sn.revision
    <3>1. sn.revision = s.revision /\ m.revision < a.revision
      BY <1>2, <1>3, <2>1
    <3>2. b.settings[t] = a.settings[t] /\ b.intents[t] = a.intents[t]
      BY <3>1 DEF Updated
    <3>3. IF Waits(a, t) THEN Asked(q, w, t, a.intents[t][1])
          ELSE t # "theme" => a.settings[t] = s.settings[t]
      BY <3>1 DEF Agrees, Current
    <3>4. QED
      BY <3>2, <3>3 DEF Waits, Keeps
  <2>2. CASE m.revision >= sn.revision
    <3>1. m.revision = s.revision /\ m.settings = s.settings /\ m.revision >= a.revision
      BY <1>2, <1>3, <2>2
    <3>2. ASSUME ~Waits(b, t) PROVE t # "theme" => b.settings[t] = s.settings[t]
      BY <3>1, <3>2 DEF Updated, Waits
    <3>3. ASSUME Waits(b, t) PROVE Asked(r, h, t, b.intents[t][1])
      <4>1. Asked(q, w, t, b.intents[t][1]) \/ Answered(q, b.intents[t][1])
        BY <1>7, <3>3 DEF Agrees, IntentsFollow
      <4>2. \A k \in Acks(q.out) \cup Acks(q.down) : k.revision \in Nat /\ k.revision <= s.revision
        BY DEF Connected, AllHonest, Honest, Acks, Revised
      <4>3. \A k \in Acks(q.out) \cup Acks(q.down) : m.revision < k.revision
        BY <1>5
      <4>4. ~Answered(q, b.intents[t][1])
        BY <1>2, <3>1, <4>2, <4>3 DEF Answered
      <4>5. QED
        BY <4>1, <4>4 DEF Keeps
    <3>4. QED
      BY <3>2, <3>3
  <2>3. QED
    BY <1>2, <1>3, <2>1, <2>2
<1>10. QED
  BY <1>1, <1>6, <1>8, <1>9 DEF Agrees

LEMMA AppliedFollows ==
    ASSUME NEW q, NEW r, Took(q, r), NEW w, NEW s, SoundServer(s), Connected(q, w, s),
           NEW h, Keeps(q, w, r, h), NEW a, Sound(a), NEW sn, Agrees(a, q, w, sn, s),
           FocusFollows(a, q), NEW m, m = Head(q.down), m.type = "applied",
           NEW b, GoodFocus(a) => GoodFocus(b), b.local = a.local, b.sessions = a.sessions,
           b.settings = a.settings, b.pending = a.pending,
           b.revision = IF m.revision > a.revision THEN m.revision ELSE a.revision,
           \A t \in SettingTypes : b.intents[t] = <<>>
              \/ (b.intents[t] = a.intents[t] /\ b.intents[t][1] # m.id),
           NEW tn, tn.current = sn.current, tn.revision = sn.revision
    PROVE  /\ FocusFollows(b, r) /\ Agrees(b, r, h, tn, s)
           /\ SwitchFollows(a, q, sn) => SwitchFollows(b, r, tn)
<1>1. AcksLead(a, q, sn, s) /\ IntentsFollow(a, q, w)
  BY DEF Agrees
<1>2. /\ m \in Acks(q.down) /\ Acks(q.down) = {m} \cup Acks(r.down) /\ Ordered(r.down)
      /\ (Coming(r) <=> Coming(q)) /\ Honest(m, s)
      /\ Acks(r.out) = Acks(q.out) /\ Acks(r.down) \subseteq Acks(q.down)
      /\ \A k \in Acks(r.out), n \in ToSet(r.down) : n.type = "state" => n.revision < k.revision
  <2>1. Ordered(q.down)
    BY <1>1 DEF AcksLead
  <2>2. \A k \in Acks(q.out), n \in ToSet(q.down) : n.type = "state" => n.revision < k.revision
    BY <1>1 DEF AcksLead
  <2>3. /\ Acks(r.out) = Acks(q.out) /\ Acks(r.down) \subseteq Acks(q.down) /\ Ordered(r.down)
        /\ \A k \in Acks(r.out), n \in ToSet(r.down) : n.type = "state" => n.revision < k.revision
    BY <2>1, <2>2, AcksSubset
  <2>4. Acks(q.down) = {m} \cup Acks(r.down) /\ (Coming(r) <=> Coming(q)) /\ Honest(m, s)
    BY TookFacts
  <2>5. QED
    BY <2>3, <2>4
<1>3. /\ s.revision \in Nat /\ a.revision \in Nat /\ sn.revision \in Nat
      /\ sn.revision <= a.revision /\ a.revision <= s.revision
      /\ m.revision \in Nat /\ m.revision <= s.revision /\ sn.revision < m.revision
  BY <1>1, <1>2 DEF SoundServer, Sound, AcksLead, Honest, Revised
<1>4. FocusFollows(b, r)
  BY <1>2 DEF FocusFollows, Keeps, Took, Has
<1>5. SwitchFollows(a, q, sn) => SwitchFollows(b, r, tn)
  BY <1>2 DEF SwitchFollows, Settled, Known, Keeps, Took, Asks
<1>6. IntentsFollow(b, r, h)
  <2> SUFFICES ASSUME NEW t \in SettingTypes, Waits(b, t)
               PROVE  Asked(r, h, t, b.intents[t][1]) \/ Answered(r, b.intents[t][1])
    BY DEF IntentsFollow
  <2>1. Waits(a, t) /\ b.intents[t] = a.intents[t] /\ b.intents[t][1] # m.id
    BY DEF Waits
  <2>2. Asked(q, w, t, b.intents[t][1]) \/ Answered(q, b.intents[t][1])
    BY <1>1, <2>1 DEF IntentsFollow
  <2>3. QED
    BY <1>2, <2>1, <2>2 DEF Keeps, Answered
<1>7. AcksLead(b, r, tn, s)
  <2>1. \A k \in Acks(r.out) \cup Acks(r.down) : tn.revision < k.revision
    BY <1>1, <1>2 DEF AcksLead
  <2>2. tn.revision \in Nat /\ tn.revision <= b.revision /\ b.revision <= s.revision
    BY <1>3
  <2>3. QED
    BY <1>2, <2>1, <2>2 DEF AcksLead
<1>8. Current(b, r, h, tn, s)
  BY <1>3 DEF Current
<1>9. QED
  BY <1>4, <1>5, <1>6, <1>7, <1>8 DEF Agrees

LEMMA MessageFollows ==
    ASSUME NEW q, NEW r, Took(q, r), NEW w, NEW s, Connected(q, w, s),
           NEW h, Keeps(q, w, r, h), NEW a, NEW sn, Agrees(a, q, w, sn, s),
           FocusFollows(a, q), NEW m, m = Head(q.down), m.type \notin {"applied", "state"},
           NEW b, GoodFocus(a) => GoodFocus(b), b.sessions = a.sessions,
           b.settings = a.settings, b.intents = a.intents, b.revision = a.revision,
           b.pending \in {a.pending, None},
           NEW tn, tn.current = IF b.local # a.local THEN None ELSE sn.current,
           tn.revision = sn.revision
    PROVE  /\ FocusFollows(b, r) /\ Agrees(b, r, h, tn, s)
           /\ SwitchFollows(a, q, sn) => SwitchFollows(b, r, tn)
<1>1. AcksLead(a, q, sn, s) /\ IntentsFollow(a, q, w) /\ Current(a, q, w, sn, s)
  BY DEF Agrees
<1>2. /\ Acks(r.down) = Acks(q.down) /\ Ordered(r.down)
      /\ (Coming(r) <=> Coming(q)) /\ Acks(r.out) = Acks(q.out)
      /\ \A k \in Acks(r.out), n \in ToSet(r.down) : n.type = "state" => n.revision < k.revision
  <2>1. Ordered(q.down)
    BY <1>1 DEF AcksLead
  <2>2. \A k \in Acks(q.out), n \in ToSet(q.down) : n.type = "state" => n.revision < k.revision
    BY <1>1 DEF AcksLead
  <2>3. /\ Acks(r.out) = Acks(q.out) /\ Ordered(r.down)
        /\ \A k \in Acks(r.out), n \in ToSet(r.down) : n.type = "state" => n.revision < k.revision
    BY <2>1, <2>2, AcksSubset
  <2>4. Acks(r.down) = Acks(q.down) /\ (Coming(r) <=> Coming(q))
    BY TookFacts
  <2>5. QED
    BY <2>3, <2>4
<1>3. FocusFollows(b, r)
  BY <1>2 DEF FocusFollows, Keeps, Took, Has
<1>4. Settled(a, sn) => Settled(b, tn)
  BY DEF Settled, Known
<1>5. SwitchFollows(a, q, sn) => SwitchFollows(b, r, tn)
  BY <1>2, <1>4 DEF SwitchFollows, Keeps, Took, Asks
<1>6. IntentsFollow(b, r, h)
  BY <1>1, <1>2 DEF IntentsFollow, Waits, Keeps, Answered
<1>7. AcksLead(b, r, tn, s)
  BY <1>1, <1>2 DEF AcksLead
<1>8. Current(b, r, h, tn, s)
  BY <1>1 DEF Current, Waits, Keeps
<1>9. QED
  BY <1>3, <1>5, <1>6, <1>7, <1>8 DEF Agrees

(* What a message makes of a sidebar.                                       *)
LEMMA SendsNothing ==
    ASSUME NEW c \in Sidebars, NEW q, Sendable(q), ~IsWidth(q), NEW s,
           Connected(conn[c], held[c], s), NEW r, r.up = SentAfter(c, q)
    PROVE  Keeps(conn[c], held[c], r, HeldAfter(c, q))
BY CarriesFacts DEF Carries, Keeps

LEMMA ReceivedState ==
    ASSUME NEW a, Ready(a), NEW m, m.type = "state", m.revision \in Nat,
           NEW x, x = ApplyState(a, m),
           NEW b, b = Cleared(x)
    PROVE  /\ x.commands = <<>> /\ x.local = a.local
           /\ Ready(b) /\ GoodFocus(b) /\ Updated(a, b, m)
           /\ b.pending # None =>
                Known(b, b.pending) /\ (m.current = b.pending => b.pending = b.local)
<1>1. /\ Ready(x) /\ x.local = a.local /\ GoodFocus(x) /\ Updated(a, x, m)
      /\ x.pending # None =>
           Known(x, x.pending) /\ (m.current = x.pending => x.pending = x.local)
  BY StateFacts
<1>2. Ready(b) /\ Alike(x, b, {"commands"}) /\ (GoodFocus(b) <=> GoodFocus(x))
  BY <1>1, ClearedFacts DEF Ready
<1>3. /\ b.sessions = x.sessions /\ b.local = x.local /\ b.pending = x.pending
      /\ b.settings = x.settings /\ b.intents = x.intents /\ b.revision = x.revision
  BY <1>2 DEF Alike, AppFields
<1>4. Updated(a, b, m)
  BY <1>1, <1>3 DEF Updated
<1>5. Known(b, b.pending) <=> Known(x, x.pending)
  BY <1>3 DEF Known
<1>6. QED
  BY <1>1, <1>2, <1>3, <1>4, <1>5 DEF Ready

LEMMA ReceivedOther ==
    ASSUME NEW a, NEW x, MessageResult(a, x), NEW b, b = Cleared(x)
    PROVE  /\ Ready(b) /\ (GoodFocus(a) => GoodFocus(b)) /\ b.sessions = a.sessions
           /\ b.settings = a.settings /\ b.intents = a.intents /\ b.revision = a.revision
           /\ b.pending \in {a.pending, None} /\ b.local = x.local
<1>1. Ready(b) /\ Alike(x, b, {"commands"}) /\ (GoodFocus(b) <=> GoodFocus(x))
  BY ClearedFacts DEF MessageResult
<1>2. /\ b.sessions = x.sessions /\ b.local = x.local /\ b.pending = x.pending
      /\ b.settings = x.settings /\ b.intents = x.intents /\ b.revision = x.revision
  BY <1>1 DEF Alike, AppFields
<1>3. QED
  BY <1>1, <1>2 DEF MessageResult

LEMMA ReceivedAck ==
    ASSUME NEW a, Ready(a), NEW m, m.type = "applied", m.revision \in Nat,
           NEW x, x = ApplyServerMessage(a, m),
           NEW b, b = Cleared(x)
    PROVE  /\ x.commands = <<>> /\ x.local = a.local
           /\ Ready(b) /\ b.local = a.local /\ b.sessions = a.sessions
           /\ b.settings = a.settings /\ b.pending = a.pending
           /\ (GoodFocus(a) => GoodFocus(b))
           /\ b.revision = IF m.revision > a.revision THEN m.revision ELSE a.revision
           /\ \A t \in SettingTypes : b.intents[t] = <<>>
                 \/ (b.intents[t] = a.intents[t] /\ b.intents[t][1] # m.id)
<1>1. /\ Ready(x) /\ x.local = a.local /\ x.sessions = a.sessions
      /\ x.settings = a.settings /\ x.pending = a.pending
      /\ (GoodFocus(a) => GoodFocus(x))
      /\ x.revision = IF m.revision > a.revision THEN m.revision ELSE a.revision
      /\ \A t \in SettingTypes : x.intents[t] = <<>>
            \/ (x.intents[t] = a.intents[t] /\ x.intents[t][1] # m.id)
  BY AppliedFacts
<1>2. Ready(b) /\ Alike(x, b, {"commands"}) /\ (GoodFocus(b) <=> GoodFocus(x))
  BY <1>1, ClearedFacts DEF Ready
<1>3. /\ b.sessions = x.sessions /\ b.local = x.local /\ b.pending = x.pending
      /\ b.settings = x.settings /\ b.intents = x.intents /\ b.revision = x.revision
  BY <1>2 DEF Alike, AppFields
<1>4. QED
  BY <1>1, <1>2, <1>3 DEF Ready

(* The other messages, a rename of the sidebar's own session among them.    *)
LEMMA ReceivedResult ==
    ASSUME NEW c \in Sidebars, Ready(app[c]), NEW m, NEW s, Honest(m, s),
           m.type \in Plain
    PROVE  MessageResult(app[c], Received(c, m))
<1> DEFINE a == app[c]
<1>1. CASE m.type = "re-identify"
  <2>1. m.new # None
    BY <1>1 DEF Honest
  <2>2. Received(c, m) = IdentifyPane(a, m.new) \/ Received(c, m) = a
    BY <1>1 DEF Received, ApplyServerMessage
  <2>3. MessageResult(a, IdentifyPane(a, m.new))
    BY <2>1, YourSessionResult
  <2>4. Alike(a, a, {"lastActivated", "modal"}) /\ SoundModal(a.modal)
    BY DEF Alike, Ready, Sound
  <2>5. MessageResult(a, a)
    BY <2>4, DressedMessage
  <2>6. QED
    BY <2>2, <2>3, <2>5
<1>2. CASE m.type = "your-session"
  <2>1. m.name # None
    BY <1>2 DEF Honest
  <2>2. Received(c, m) = ConfirmLocalSession(a, m.name)
    BY <1>2 DEF Received, ApplyServerMessage
  <2>3. QED
    BY <2>1, <2>2, YourSessionResult
<1>3. CASE m.type = "activate"
  <2>1. Received(c, m) = ApplyActivation(a, m.name, m.source)
    BY <1>3 DEF Received, ApplyServerMessage
  <2>2. QED
    BY <2>1, ActivationResult
<1>4. CASE m.type = "windows"
  <2>1. Received(c, m) = ApplyWindowList(a, m.session, m.windows)
    BY <1>4 DEF Received, ApplyServerMessage
  <2>2. QED
    BY <2>1, WindowListResult
<1>5. QED
  BY <1>1, <1>2, <1>3, <1>4 DEF Plain, ServerMessages

LEMMA ClientReceivesKeeps ==
    ASSUME IInv, NEW c \in Sidebars, ClientReceives(c)
    PROVE  IInv'
<1> DEFINE a == app[c]
           m == Head(conn[c].down)
           x == Received(c, m)
           b == app'[c]
           q == conn[c]
           r == conn'[c]
           h == held'[c]
           up == SentAfter(c, x.commands)
           moved == x.local # a.local
           sn == seen[c]
           tn == seen'[c]
<1>1. q.down # <<>> /\ UNCHANGED <<home, server, due, built>>
  BY DEF ClientReceives
<1>2. /\ conn' = [d \in Sidebars |-> conn'[d]] /\ held' = [d \in Sidebars |-> held'[d]]
      /\ app' = [d \in Sidebars |-> app'[d]] /\ seen' = [d \in Sidebars |-> seen'[d]]
      /\ b = Cleared(x) /\ h = HeldAfter(c, x.commands)
      /\ r = [q EXCEPT !.down = Tail(@), !.up = up]
      /\ tn = Reads(sn, m, moved)
      /\ \A d \in Sidebars : d # c =>
            /\ app'[d] = app[d] /\ held'[d] = held[d]
            /\ conn'[d] = conn[d] /\ seen'[d] = seen[d]
  BY Here DEF ClientReceives, Becomes, Functions, Cleared
<1>3. Connected(q, held[c], server) /\ ConnFields \subseteq DOMAIN q /\ SoundServer(server)
  BY Here
<1>4. SoundSidebar(c) /\ (c \in Alive => Follows(c))
  BY DEF IInv, Typed
<1>5. Ready(a) /\ Sound(a) /\ {"current", "revision"} \subseteq DOMAIN sn
  BY <1>4 DEF SoundSidebar, Ready
<1>6. /\ IsSeq(q.down) /\ m \in ToSet(q.down) /\ Honest(m, server) /\ m.type \in ServerMessages
  BY <1>1, <1>3, SeqFacts DEF Connected, AllHonest
<1>7. m.type \in Revised => m.revision \in Nat
  BY <1>6 DEF Honest
<1>8. /\ m.type = "state" => x = ApplyState(a, m)
      /\ m.type = "applied" => x = ApplyServerMessage(a, m)
  BY DEF Received, ApplyServerMessage
<1>9. /\ m.type = "state" =>
           /\ x.commands = <<>> /\ x.local = a.local
           /\ Ready(b) /\ GoodFocus(b) /\ Updated(a, b, m)
           /\ b.pending # None =>
                Known(b, b.pending) /\ (m.current = b.pending => b.pending = b.local)
      /\ m.type = "applied" =>
           /\ x.commands = <<>> /\ x.local = a.local
           /\ Ready(b) /\ b.local = a.local /\ b.sessions = a.sessions
           /\ b.settings = a.settings /\ b.pending = a.pending
           /\ (GoodFocus(a) => GoodFocus(b))
           /\ b.revision = IF m.revision > a.revision THEN m.revision ELSE a.revision
           /\ \A t \in SettingTypes : b.intents[t] = <<>>
                 \/ (b.intents[t] = a.intents[t] /\ b.intents[t][1] # m.id)
  <2> HIDE DEF a, b, m, x
  <2>1. CASE m.type = "state"
    BY <1>2, <1>5, <1>7, <1>8, <2>1, ReceivedState DEF Revised
  <2>2. CASE m.type = "applied"
    BY <1>2, <1>5, <1>7, <1>8, <2>2, ReceivedAck DEF Revised
  <2>3. QED
    BY <2>1, <2>2
<1>10. m.type \in Plain => MessageResult(a, x)
  BY <1>5, <1>6, ReceivedResult
<1> HIDE DEF a, b, m, x
<1>11. m.type \in Plain =>
         /\ Ready(b) /\ (GoodFocus(a) => GoodFocus(b)) /\ b.sessions = a.sessions
         /\ b.settings = a.settings /\ b.intents = a.intents /\ b.revision = a.revision
         /\ b.pending \in {a.pending, None} /\ b.local = x.local
  BY <1>2, <1>10, ReceivedOther
<1>12. m.type \in Plain \cup {"state", "applied"}
  BY <1>6 DEF Plain
<1>13. Ready(b)
  BY <1>9, <1>11, <1>12
<1>14. Sendable(x.commands) /\ ~IsWidth(x.commands)
  BY <1>9, <1>10, <1>12, SendableNone DEF MessageResult
<1>15. /\ AllHonest(up, server) /\ (h = NoCommand \/ h.type = "width")
  BY <1>2, <1>3, <1>14, SendsFacts DEF q
<1> HIDE DEF q, r, h, up, sn, tn
<1>16. /\ ConnFields \subseteq DOMAIN r /\ r.up = up /\ r.down = Tail(q.down)
       /\ r.queue = q.queue /\ r.pending = q.pending /\ r.out = q.out
       /\ r.switching = q.switching /\ r.again = q.again /\ r.renaming = q.renaming
  BY <1>2, <1>3 DEF ConnFields
<1>17. Took(q, r)
  BY <1>1, <1>16 DEF Took
<1>18. Connected(r, h, server)
  <2>1. AllHonest(r.down, server) /\ \A n \in ToSet(r.down) : n.type \in ServerMessages
    BY <1>3, <1>17, TookFacts
  <2>2. QED
    BY <1>3, <1>15, <1>16, <2>1 DEF Connected
<1>19. Keeps(q, held[c], r, h)
  <2>1. r.up = SentAfter(c, x.commands) /\ Connected(conn[c], held[c], server)
    BY <1>3, <1>16 DEF up, q
  <2>2. Keeps(conn[c], held[c], r, HeldAfter(c, x.commands))
    BY <1>14, <2>1, SendsNothing
  <2>3. QED
    BY <1>2, <2>2 DEF q
<1>20. /\ {"current", "revision"} \subseteq DOMAIN tn
       /\ m.type = "state" =>
            /\ tn.current = m.current
            /\ tn.revision = IF m.revision > sn.revision THEN m.revision ELSE sn.revision
       /\ m.type # "state" =>
            /\ tn.current = IF moved THEN None ELSE sn.current
            /\ tn.revision = sn.revision
  BY <1>2, <1>5 DEF Reads
<1>21. SoundSidebar(c)'
  BY <1>1, <1>13, <1>18, <1>20 DEF SoundSidebar, Ready, b, r, h, tn
<1>22. ASSUME c \in Alive PROVE Follows(c)'
  <2>1. /\ FocusFollows(a, q) /\ Agrees(a, q, held[c], sn, server)
        /\ SwitchFollows(a, q, sn) \/ Refreshing
    BY <1>4, <1>22 DEF Follows, a, q, sn
  <2>2. m = Head(q.down)
    BY DEF m, q
  <2>3. /\ FocusFollows(b, r) /\ Agrees(b, r, h, tn, server)
        /\ SwitchFollows(a, q, sn) => SwitchFollows(b, r, tn)
    <3>1. CASE m.type = "state"
      BY <1>3, <1>5, <1>9, <1>17, <1>19, <1>20, <2>1, <2>2, <3>1, StateFollows
    <3>2. CASE m.type = "applied"
      <4>1. tn.current = sn.current /\ tn.revision = sn.revision
        BY <1>9, <1>20, <3>2
      <4>2. QED
        BY <1>3, <1>5, <1>9, <1>17, <1>19, <2>1, <2>2, <3>2, <4>1, AppliedFollows
    <3>3. CASE m.type \in Plain
      <4>1. /\ tn.current = IF b.local # a.local THEN None ELSE sn.current
            /\ tn.revision = sn.revision
        BY <1>11, <1>20, <3>3 DEF Plain
      <4>2. m.type \notin {"applied", "state"}
        BY <3>3 DEF Plain
      <4>3. QED
        BY <1>3, <1>11, <1>17, <1>19, <2>1, <2>2, <3>3, <4>1, <4>2, MessageFollows
    <3>4. QED
      BY <1>12, <3>1, <3>2, <3>3
  <2>4. QED
    BY <1>1, <2>1, <2>3 DEF Follows, Refreshing, b, r, h, tn
<1>23. Functions'
  BY <1>1, <1>2, Here DEF Functions
<1>24. QED
  BY <1>1, <1>2, <1>21, <1>22, <1>23, OwnStep

------------------------------------------------------------------------------
(* The beginning, every step, and what follows when nothing is on its way.   *)

LEMMA OpenedFacts ==
    ASSUME NEW s, SoundServer(s), NEW c, NEW n, n # None,
           NEW a, a = SetPaneIdentity(FromState(Snapshot(s)), c, n)
    PROVE  /\ Ready(a) /\ GoodFocus(a) /\ a.pending = None
           /\ a.settings = s.settings /\ a.revision = s.revision
           /\ \A t \in SettingTypes : a.intents[t] = <<>>
<1> DEFINE st == Snapshot(s)
           x == FromState(st)
           y == ConfirmLocalSession(x, n)
<1>1. st.settings = s.settings /\ st.revision = s.revision
  BY SnapshotFacts
<1> HIDE DEF st
<1>2. /\ AppFields \subseteq DOMAIN x /\ x.settings = s.settings /\ x.revision = s.revision
      /\ x.intents = [t \in DOMAIN s.settings |-> <<>>] /\ x.pending = None
      /\ x.modal = NoModal /\ x.commands = <<>>
  BY <1>1 DEF FromState, AppFields
<1> HIDE DEF x
<1>3. /\ Alike(x, y, Dressing \cup {"local", "lastActivated", "pending"})
      /\ y.local = n /\ y.pending = IF x.pending = n THEN None ELSE x.pending
      /\ GoodFocus(y)
  BY <1>2, ConfirmFacts
<1>4. a = [y EXCEPT !.pane = c, !.identity = n]
  BY DEF SetPaneIdentity, x, st
<1> HIDE DEF y
<1>5. /\ AppFields \subseteq DOMAIN y /\ y.settings = s.settings /\ y.revision = s.revision
      /\ y.intents = [t \in DOMAIN s.settings |-> <<>>] /\ y.pending = None
      /\ y.modal = NoModal /\ y.commands = <<>>
  BY <1>2, <1>3 DEF Alike, AppFields, Dressing
<1>6. /\ AppFields \subseteq DOMAIN a /\ a.settings = s.settings /\ a.revision = s.revision
      /\ a.intents = [t \in DOMAIN s.settings |-> <<>>] /\ a.pending = None
      /\ a.modal = NoModal /\ a.commands = <<>> /\ a.local = n
      /\ a.sessions = y.sessions /\ a.filter = y.filter /\ a.collapsed = y.collapsed
      /\ a.focus = y.focus /\ a.local = y.local
  BY <1>3, <1>4, <1>5 DEF AppFields
<1>7. SoundModal(NoModal)
  BY DEF SoundModal, NoModal
<1>8. DOMAIN s.settings = SettingTypes /\ s.revision \in Nat
  BY DEF SoundServer
<1>9. Ready(a)
  BY <1>6, <1>7, <1>8 DEF Ready, Sound
<1>10. GoodFocus(a)
  BY <1>3, <1>6, ListFacts
<1>11. QED
  BY <1>6, <1>8, <1>9, <1>10

LEMMA Begins == Init => IInv
<1> SUFFICES ASSUME Init PROVE IInv
  OBVIOUS
<1>1. /\ server.settings = Settings0 /\ server.revision = 0
      /\ ServerFields \subseteq DOMAIN server
  BY DEF Init, ServerFields
<1>2. SoundServer(server)
  BY <1>1 DEF SoundServer, Settings0, SettingTypes
<1>3. Functions /\ due \subseteq Tasks
  BY SidebarsAssumption DEF Init, Functions, SidebarsAssumption
<1>4. ASSUME NEW t \in Tasks PROVE SoundTask(t)
  BY SeqNone DEF Init, SoundTask, AllHonest
<1>5. ASSUME NEW c \in Sidebars PROVE SoundSidebar(c) /\ Follows(c)
  <2> DEFINE a == app[c]
             q == conn[c]
             sn == seen[c]
  <2>1. /\ a = SetPaneIdentity(FromState(Snapshot(server)), c, HomeOf[c])
        /\ held[c] = NoCommand /\ q = IdleConn
        /\ sn = [current |-> None, revision |-> server.revision]
    BY DEF Init, Opened
  <2>2. HomeOf[c] # None
    BY SidebarsAssumption, ValuesAssumption DEF SidebarsAssumption, ValuesAssumption
  <2> HIDE DEF a, q, sn
  <2>3. /\ Ready(a) /\ GoodFocus(a) /\ a.pending = None
        /\ a.settings = server.settings /\ a.revision = server.revision
        /\ \A t \in SettingTypes : a.intents[t] = <<>>
    BY <1>2, <2>1, <2>2, OpenedFacts
  <2>4. Connected(q, NoCommand, server) /\ q.out = <<>> /\ q.down = <<>>
    BY <2>1, IdleFacts DEF IdleConn
  <2>5. {"current", "revision"} \subseteq DOMAIN sn /\ sn.revision = server.revision
    BY <2>1
  <2>6. SoundSidebar(c)
    BY <2>1, <2>3, <2>4, <2>5 DEF SoundSidebar, Ready, a, q, sn
  <2>7. FocusFollows(a, q) /\ SwitchFollows(a, q, sn)
    BY <2>3 DEF FocusFollows, SwitchFollows, Settled
  <2>8. IntentsFollow(a, q, NoCommand) /\ Current(a, q, NoCommand, sn, server)
    BY <2>3 DEF IntentsFollow, Current, Waits
  <2>9. AcksLead(a, q, sn, server)
    <3>1. Acks(q.out) = {} /\ Acks(q.down) = {}
      BY <2>4, SeqNone DEF Acks
    <3>2. Ordered(q.down)
      <4>1. Len(<<>>) = 0
        BY EmptySeq
      <4>2. QED
        BY <2>4, <4>1 DEF Ordered
    <3>3. server.revision \in Nat
      BY <1>2 DEF SoundServer
    <3>4. QED
      BY <2>3, <2>5, <3>1, <3>2, <3>3 DEF AcksLead
  <2>10. QED
    BY <2>1, <2>6, <2>7, <2>8, <2>9 DEF Follows, Agrees, a, q, sn
<1>6. QED
  BY <1>2, <1>3, <1>4, <1>5 DEF IInv, Typed, Alive

LEMMA Stutters == IInv /\ UNCHANGED vars => IInv'
<1> SUFFICES ASSUME IInv, UNCHANGED vars PROVE IInv'
  OBVIOUS
<1>1. due \subseteq due' /\ due' \subseteq Tasks
  BY Here DEF vars
<1>2. UNCHANGED <<home, server, app, held, conn, built, seen>>
  BY DEF vars
<1>3. QED
  BY <1>1, <1>2, QuietlyKeep

LEMMA Steps == IInv /\ Next => IInv'
<1> SUFFICES ASSUME IInv, Next PROVE IInv'
  OBVIOUS
<1>1. ASSUME NEW c \in Sidebars, ClientStep(c) PROVE IInv'
  BY <1>1, KeyPressKeeps, FlushWidthKeeps, ClientReceivesKeeps DEF ClientStep
<1>2. ASSUME NEW c \in Sidebars,
             \/ ServerHandles(c) \/ ServerRefreshes(c) \/ ServerPublishes(c)
             \/ ServerIdentifies(c) \/ ServerListsWindows(c) \/ ServerAnnouncesSwitch(c)
             \/ ServerSwitches(c) \/ ServerKillsSession(c)
      PROVE  IInv'
  BY <1>2, HandlesKeep, RefreshesKeep, PublishesKeep, IdentifiesKeep, ListsWindowsKeep,
     AnnouncesSwitchKeeps, SwitchesKeep, KillsKeep
<1>3. ASSUME NEW c \in Sidebars,
             \/ ServerChangesWindows(c) \/ ServerHandlesAgent(c) \/ ServerRenamesSession(c)
             \/ ServerRenamesReferences(c) \/ ServerQuits(c) \/ ServerSnapshots(c)
             \/ ServerForwards(c) \/ ServerFlushes(c)
      PROVE  IInv'
  BY <1>3, ChangesWindowsKeep, HandlesAgentKeeps, RenamesKeep, RenamesReferencesKeeps,
     QuitsKeep, SnapshotsKeep, ForwardsKeep, FlushesKeep
<1>4. ASSUME NEW t \in Tasks, TaskBuilds(t) \/ TaskPublishes(t) PROVE IInv'
  BY <1>4, TaskBuildsKeep, TaskPublishesKeep
<1>5. ASSUME NEW i, HookArrives(i) PROVE IInv'
  BY <1>5, HookKeeps
<1>6. ASSUME NEW n, UserSwitches(n) \/ SessionCloses(n) \/ AgentReports(n) PROVE IInv'
  BY <1>6, UserKeeps, ClosesKeep
<1>7. ASSUME NEW n, NEW id \in Windows, UserSelectsWindow(n, id) PROVE IInv'
  BY <1>7, UserKeeps
<1>8. QED
  BY <1>1, <1>2, <1>3, <1>4, <1>5, <1>6, <1>7 DEF Next

(* The promises of every connection hold in every state.                    *)
THEOREM Inductive == Spec => []IInv
<1>1. IInv /\ [Next]_vars => IInv'
  BY Steps, Stutters
<1>2. QED
  BY <1>1, Begins, PTL DEF Spec

LEMMA NothingOnItsWay ==
    ASSUME Quiet, NEW c \in Sidebars
    PROVE  /\ held[c] = NoCommand /\ conn[c].switching = None /\ ~Coming(conn[c])
           /\ \A types : ~Has(conn[c].up, types) /\ ~Has(conn[c].out, types)
           /\ ~Asks(conn[c].up) /\ ~Refreshing
           /\ \A t \in SettingTypes : \A id : ~Asked(conn[c], held[c], t, id)
           /\ \A id : ~Answered(conn[c], id)
<1> DEFINE q == conn[c]
<1>1. /\ held[c] = NoCommand /\ q.up = <<>> /\ q.queue = <<>> /\ q.pending = <<>>
      /\ q.down = <<>> /\ q.out = <<>> /\ q.switching = None
      /\ due = {} /\ built["refresher"] = <<>>
  BY SidebarsAssumption DEF Quiet, Idle, SidebarsAssumption
<1> HIDE DEF q
<1>2. ToSet(<<>>) = {}
  BY SeqNone
<1>3. ~Coming(q) /\ ~Asks(q.up) /\ \A types : ~Has(q.up, types) /\ ~Has(q.out, types)
  BY <1>1, <1>2 DEF Coming, Has, Asks
<1>4. ~Refreshing
  BY <1>1 DEF Refreshing
<1>5. ASSUME NEW t \in SettingTypes, NEW id PROVE ~Asked(q, held[c], t, id)
  BY <1>1, <1>2 DEF Asked, NoCommand, SettingTypes
<1>6. ASSUME NEW id PROVE ~Answered(q, id)
  BY <1>1, <1>2 DEF Answered, Acks
<1>7. QED
  BY <1>1, <1>3, <1>4, <1>5, <1>6 DEF q

(* Whatever is hidden, ended, renamed or filtered away, every focus is on a *)
(* displayed row, or its own session's, once everything has arrived.        *)
THEOREM FocusReturns == Spec => []FocusIsDisplayed
<1>1. IInv => FocusIsDisplayed
  <2> SUFFICES ASSUME IInv, Quiet, NEW c \in Alive PROVE GoodFocus(app[c])
    BY DEF FocusIsDisplayed, GoodFocus
  <2>1. c \in Sidebars
    BY DEF Alive
  <2>2. FocusFollows(app[c], conn[c])
    BY DEF IInv, Follows
  <2>3. QED
    BY <2>1, <2>2, NothingOnItsWay DEF FocusFollows
<1>2. QED
  BY <1>1, Inductive, PTL

(* No sidebar goes on waiting for a switch that it has seen made, or to a  *)
(* session it does not list.                                                *)
THEOREM SwitchesSettle == Spec => []SettledSwitchIsCleared
<1>1. IInv => SettledSwitchIsCleared
  <2> SUFFICES ASSUME IInv, Quiet, NEW c \in Alive PROVE Settled(app[c], seen[c])
    BY DEF SettledSwitchIsCleared, Settled
  <2>1. c \in Sidebars
    BY DEF Alive
  <2>2. SwitchFollows(app[c], conn[c], seen[c]) \/ Refreshing
    BY DEF IInv, Follows
  <2>3. QED
    BY <2>1, <2>2, NothingOnItsWay DEF SwitchFollows
<1>2. QED
  BY <1>1, Inductive, PTL

(* No acknowledgement and no late snapshot leaves a sidebar that has read   *)
(* the last revision with another setting, or waiting for an answer.        *)
THEOREM SettingsAreReconciled == Spec => []SettingsSettle
<1>1. IInv => SettingsSettle
  <2> SUFFICES ASSUME IInv, Quiet, NEW c \in Alive
               PROVE  /\ \A t \in SettingTypes : app[c].intents[t] = <<>>
                      /\ seen[c].revision = server.revision =>
                           \A t \in SettingTypes \ {"theme"} :
                               app[c].settings[t] = server.settings[t]
    BY DEF SettingsSettle
  <2>1. c \in Sidebars
    BY DEF Alive
  <2>2. /\ IntentsFollow(app[c], conn[c], held[c])
        /\ Current(app[c], conn[c], held[c], seen[c], server)
    BY DEF IInv, Follows, Agrees
  <2>3. \A t \in SettingTypes : ~Waits(app[c], t)
    BY <2>1, <2>2, NothingOnItsWay DEF IntentsFollow
  <2>4. seen[c].revision = server.revision =>
          \A t \in SettingTypes : t # "theme" => app[c].settings[t] = server.settings[t]
    BY <2>2, <2>3 DEF Current
  <2>5. QED
    BY <2>3, <2>4 DEF Waits
<1>2. QED
  BY <1>1, Inductive, PTL
=============================================================================
