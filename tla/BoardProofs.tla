---------------------------- MODULE BoardProofs ----------------------------
(***************************************************************************)
(* The main loop's settings implement Durable, for all configurations,     *)
(* schedules and zones and any number of failed saves.                     *)
(*                                                                         *)
(* The argument is about what is left to do, `todo`: a value is saved      *)
(* before it is shown, and nothing else is saved in between.  That is kept *)
(* when the first step is done, and holds of the steps of every message.   *)
(***************************************************************************)
EXTENDS Board, TLAPS, SequenceTheorems

Keys == {"cfg", "plan", "zone", "usage"}

Kept(key) ==
  CASE key = "cfg" -> Configs
    [] key = "plan" -> Plans
    [] key = "zone" -> Zones \cup {NoZone}
    [] key = "usage" -> Nat

AnyValue == Configs \cup Plans \cup Zones \cup {NoZone} \cup Nat

Stored == {f \in [Keys -> AnyValue] : \A key \in Keys : f[key] \in Kept(key)}

Steps == {x \in [op : {"save", "show", "use", "time", "reboot"}, key : Keys, value : AnyValue] :
            /\ x.value \in Kept(x.key)
            /\ x.op = "show" => x.key \in Shown
            /\ x.op = "use" => x.key = "plan"}

Is(s, i, op, key) == i \in DOMAIN s /\ s[i].op = op /\ s[i].key = key

\* A key is shown once, after its saves, and as they save it.
ShowsLast(s) ==
  \A key \in Shown : \A i \in DOMAIN s : Is(s, i, "show", key) =>
    \A j \in DOMAIN s :
      /\ Is(s, j, "show", key) => j = i
      /\ Is(s, j, "save", key) => j < i /\ s[j].value = s[i].value
      /\ s[j].op # "reboot"

\* A key that is saved is shown, or the board restarts.
SavesShown(s) ==
  \A key \in Shown : \A i \in DOMAIN s : Is(s, i, "save", key) =>
    \E j \in DOMAIN s : s[j].op = "reboot" \/ Is(s, j, "show", key)

\* What is shown is still to be saved, or is already.
ShowsSaved(s, f) ==
  \A key \in Shown : \A i \in DOMAIN s : Is(s, i, "show", key) =>
    \/ \E j \in DOMAIN s : Is(s, j, "save", key)
    \/ f[key] = s[i].value

Tidy(s) == s \in Seq(Steps) /\ ShowsLast(s) /\ SavesShown(s)

\* The inductive invariant.
BoardInv ==
  /\ ram \in Stored
  /\ flash \in Stored
  /\ shown = [key \in Shown |-> shown[key]]
  /\ faults \in Nat
  /\ Tidy(todo)
  /\ faults = 0 => ShowsSaved(todo, flash)

-----------------------------------------------------------------------------
(***************************************************************************)
(* Doing the first step.                                                   *)
(***************************************************************************)

\* The steps after the first, each one place further to the front.
LEMMA TailIndex ==
  ASSUME NEW s \in Seq(Steps), s # <<>>
  PROVE  /\ Tail(s) \in Seq(Steps)
         /\ 1 \in DOMAIN s /\ Head(s) = s[1]
         /\ DOMAIN s \subseteq Int
         /\ \A i \in DOMAIN Tail(s) : i + 1 \in DOMAIN s /\ i + 1 # 1 /\ Tail(s)[i] = s[i + 1]
         /\ \A j \in DOMAIN s : j # 1 =>
              \E i \in DOMAIN Tail(s) : j = i + 1 /\ Tail(s)[i] = s[j]
<1>1. /\ Tail(s) \in Seq(Steps)
      /\ Len(s) \in Nat /\ Len(s) # 0
      /\ Len(Tail(s)) = Len(s) - 1
      /\ \A i \in 1..Len(Tail(s)) : Tail(s)[i] = s[i + 1]
  BY HeadTailProperties, EmptySeq, LenProperties
<1>2. DOMAIN s = 1..Len(s) /\ DOMAIN Tail(s) = 1..Len(s) - 1
  BY <1>1, LenProperties
<1>3. Head(s) = s[1]
  OBVIOUS
<1>4. ASSUME NEW j \in DOMAIN s, j # 1
      PROVE  \E i \in DOMAIN Tail(s) : j = i + 1 /\ Tail(s)[i] = s[j]
  <2>1. j - 1 \in DOMAIN Tail(s) /\ j = (j - 1) + 1
    BY <1>1, <1>2, <1>4
  <2>2. QED
    BY <1>1, <1>2, <2>1
<1>5. QED
  BY <1>1, <1>2, <1>3, <1>4

\* What is left to do stays tidy.
LEMMA TailTidy ==
  ASSUME NEW s, Tidy(s), s # <<>>, Head(s).op # "reboot"
  PROVE  Tidy(Tail(s))
<1>1. s \in Seq(Steps)
  BY DEF Tidy
<1>2. ShowsLast(Tail(s))
  <2> SUFFICES ASSUME NEW key \in Shown,
                      NEW i \in DOMAIN Tail(s), Is(Tail(s), i, "show", key),
                      NEW j \in DOMAIN Tail(s)
               PROVE  /\ Is(Tail(s), j, "show", key) => j = i
                      /\ Is(Tail(s), j, "save", key) => j < i /\ Tail(s)[j].value = Tail(s)[i].value
                      /\ Tail(s)[j].op # "reboot"
    BY DEF ShowsLast
  <2>1. /\ Is(s, i + 1, "show", key)
        /\ Is(Tail(s), j, "show", key) => Is(s, j + 1, "show", key)
        /\ Is(Tail(s), j, "save", key) => Is(s, j + 1, "save", key)
    BY <1>1, TailIndex DEF Is
  <2>2. i \in Int /\ j \in Int
    BY <1>1, LenProperties
  <2>3. /\ Is(s, j + 1, "show", key) => j + 1 = i + 1
        /\ Is(s, j + 1, "save", key) => j + 1 < i + 1 /\ s[j + 1].value = s[i + 1].value
        /\ s[j + 1].op # "reboot"
    BY <1>1, <2>1, TailIndex DEF Tidy, ShowsLast, Is
  <2>4. QED
    BY <1>1, <2>1, <2>2, <2>3, TailIndex
<1>3. SavesShown(Tail(s))
  <2> SUFFICES ASSUME NEW key \in Shown,
                      NEW i \in DOMAIN Tail(s), Is(Tail(s), i, "save", key)
               PROVE  \E j \in DOMAIN Tail(s) :
                        Tail(s)[j].op = "reboot" \/ Is(Tail(s), j, "show", key)
    BY DEF SavesShown
  <2>1. i + 1 \in DOMAIN s /\ Is(s, i + 1, "save", key) /\ i + 1 > 1
    <3>1. i \in 1..Len(Tail(s))
      BY <1>1, TailIndex, LenProperties
    <3>2. QED
      BY <1>1, <3>1, TailIndex DEF Is
  <2>2. PICK j \in DOMAIN s : s[j].op = "reboot" \/ Is(s, j, "show", key)
    BY <2>1 DEF Tidy, SavesShown
  <2>3. j # 1
    <3>1. CASE s[j].op = "reboot"
      BY <1>1, <3>1, TailIndex
    <3>2. CASE Is(s, j, "show", key)
      <4>1. i + 1 < j
        BY <2>1, <3>2 DEF Tidy, ShowsLast
      <4>2. QED
        BY <2>1, <4>1, <1>1, TailIndex
    <3>3. QED
      BY <2>2, <3>1, <3>2
  <2>4. PICK k \in DOMAIN Tail(s) : j = k + 1 /\ Tail(s)[k] = s[j]
    BY <1>1, <2>3, TailIndex
  <2>5. QED
    BY <2>2, <2>4 DEF Is
<1>4. QED
  BY <1>1, <1>2, <1>3, TailIndex DEF Tidy

\* What is shown stays saved, or still to be saved: the step that saves it is
\* before it, and saves the value that is shown.
LEMMA TailSaved ==
  ASSUME NEW s, Tidy(s), s # <<>>, NEW f, NEW g, ShowsSaved(s, f),
         \A key \in Shown :
            g[key] = IF Is(s, 1, "save", key) THEN s[1].value ELSE f[key]
  PROVE  ShowsSaved(Tail(s), g)
<1>1. s \in Seq(Steps)
  BY DEF Tidy
<1> SUFFICES ASSUME NEW key \in Shown,
                    NEW i \in DOMAIN Tail(s), Is(Tail(s), i, "show", key)
             PROVE  \/ \E j \in DOMAIN Tail(s) : Is(Tail(s), j, "save", key)
                    \/ g[key] = Tail(s)[i].value
  BY DEF ShowsSaved
<1>2. i + 1 \in DOMAIN s /\ Is(s, i + 1, "show", key) /\ Tail(s)[i] = s[i + 1]
  BY <1>1, TailIndex DEF Is
<1>3. CASE Is(s, 1, "save", key)
  <2>1. s[1].value = s[i + 1].value
    BY <1>1, <1>2, <1>3, TailIndex DEF Tidy, ShowsLast
  <2>2. QED
    BY <1>2, <1>3, <2>1
<1>4. CASE ~Is(s, 1, "save", key)
  <2>1. CASE f[key] = s[i + 1].value
    BY <1>2, <1>4, <2>1
  <2>2. CASE \E j \in DOMAIN s : Is(s, j, "save", key)
    <3>1. PICK j \in DOMAIN s : Is(s, j, "save", key)
      BY <2>2
    <3>2. PICK k \in DOMAIN Tail(s) : j = k + 1 /\ Tail(s)[k] = s[j]
      BY <1>1, <1>4, <3>1, TailIndex
    <3>3. QED
      BY <3>1, <3>2 DEF Is
  <2>3. QED
    BY <1>2, <2>1, <2>2 DEF ShowsSaved
<1>5. QED
  BY <1>3, <1>4

-----------------------------------------------------------------------------
(***************************************************************************)
(* The steps of every message are tidy, and save all that they show.       *)
(***************************************************************************)
Ready(s) ==
  /\ Tidy(s)
  /\ \A key \in Shown : \A i \in DOMAIN s : Is(s, i, "show", key) =>
       \E j \in DOMAIN s : Is(s, j, "save", key)

\* Steps that are ready save before they show.
LEMMA ReadySaved ==
  ASSUME NEW s, Ready(s), NEW f
  PROVE  Tidy(s) /\ ShowsSaved(s, f)
  BY DEF Ready, ShowsSaved

\* Steps that change nothing a client is shown.
Aside(x) == x.op \in {"use", "time"} \/ (x.op = "save" /\ x.key \notin Shown)

Neutral(s) == s \in Seq(Steps) /\ \A i \in DOMAIN s : Aside(s[i])

\* Other steps before or after them change nothing.
LEMMA ReadyShifted ==
  ASSUME NEW s, Ready(s), NEW t \in Seq(Steps), NEW n \in Int,
         \A i \in DOMAIN s : i + n \in DOMAIN t /\ t[i + n] = s[i],
         \A k \in DOMAIN t : Aside(t[k]) \/ \E i \in DOMAIN s : k = i + n
  PROVE  Ready(t)
<1>1. s \in Seq(Steps) /\ DOMAIN s \subseteq Int
  BY LenProperties DEF Ready, Tidy
<1>2. ASSUME NEW k \in DOMAIN t, NEW key \in Shown, NEW op \in {"show", "save"}, Is(t, k, op, key)
      PROVE  \E i \in DOMAIN s : k = i + n /\ Is(s, i, op, key)
  BY <1>2 DEF Is, Aside
<1>3. ShowsLast(t)
  <2> SUFFICES ASSUME NEW key \in Shown,
                      NEW i \in DOMAIN t, Is(t, i, "show", key),
                      NEW j \in DOMAIN t
               PROVE  /\ Is(t, j, "show", key) => j = i
                      /\ Is(t, j, "save", key) => j < i /\ t[j].value = t[i].value
                      /\ t[j].op # "reboot"
    BY DEF ShowsLast
  <2>1. PICK a \in DOMAIN s : i = a + n /\ Is(s, a, "show", key)
    BY <1>2
  <2>2. Is(t, j, "show", key) => j = i
    <3>1. SUFFICES ASSUME Is(t, j, "show", key) PROVE j = i
      OBVIOUS
    <3>2. PICK b \in DOMAIN s : j = b + n /\ Is(s, b, "show", key)
      BY <1>2, <3>1
    <3>3. QED
      BY <2>1, <3>2 DEF Ready, Tidy, ShowsLast
  <2>3. Is(t, j, "save", key) => j < i /\ t[j].value = t[i].value
    <3>1. SUFFICES ASSUME Is(t, j, "save", key) PROVE j < i /\ t[j].value = t[i].value
      OBVIOUS
    <3>2. PICK b \in DOMAIN s : j = b + n /\ Is(s, b, "save", key)
      BY <1>2, <3>1
    <3>3. b < a /\ s[b].value = s[a].value
      BY <2>1, <3>2 DEF Ready, Tidy, ShowsLast
    <3>4. QED
      BY <1>1, <2>1, <3>2, <3>3
  <2>4. t[j].op # "reboot"
    <3>1. SUFFICES ASSUME t[j].op = "reboot" PROVE FALSE
      OBVIOUS
    <3>2. PICK b \in DOMAIN s : j = b + n
      BY <3>1 DEF Aside
    <3>3. s[b].op # "reboot"
      BY <2>1 DEF Ready, Tidy, ShowsLast
    <3>4. QED
      BY <3>1, <3>2, <3>3
  <2>5. QED
    BY <2>2, <2>3, <2>4
<1>4. SavesShown(t)
  <2> SUFFICES ASSUME NEW key \in Shown, NEW i \in DOMAIN t, Is(t, i, "save", key)
               PROVE  \E j \in DOMAIN t : t[j].op = "reboot" \/ Is(t, j, "show", key)
    BY DEF SavesShown
  <2>1. PICK a \in DOMAIN s : i = a + n /\ Is(s, a, "save", key)
    BY <1>2
  <2>2. PICK b \in DOMAIN s : s[b].op = "reboot" \/ Is(s, b, "show", key)
    BY <2>1 DEF Ready, Tidy, SavesShown
  <2>3. QED
    BY <2>2 DEF Is
<1>5. ASSUME NEW key \in Shown, NEW i \in DOMAIN t, Is(t, i, "show", key)
      PROVE  \E j \in DOMAIN t : Is(t, j, "save", key)
  <2>1. PICK a \in DOMAIN s : i = a + n /\ Is(s, a, "show", key)
    BY <1>2, <1>5
  <2>2. PICK b \in DOMAIN s : Is(s, b, "save", key)
    BY <2>1 DEF Ready
  <2>3. QED
    BY <2>2 DEF Is
<1>6. QED
  BY <1>3, <1>4, <1>5 DEF Ready, Tidy

\* Steps that show nothing may come before others.
LEMMA NeutralBefore ==
  ASSUME NEW a, Neutral(a), NEW s, Ready(s)
  PROVE  Ready(a \o s)
<1>1. a \in Seq(Steps) /\ s \in Seq(Steps)
  BY DEF Neutral, Ready, Tidy
<1>2. /\ a \o s \in Seq(Steps)
      /\ Len(a) \in Nat /\ Len(s) \in Nat /\ Len(a \o s) = Len(a) + Len(s)
      /\ DOMAIN a = 1..Len(a) /\ DOMAIN s = 1..Len(s) /\ DOMAIN (a \o s) = 1..Len(a) + Len(s)
  BY <1>1, ConcatProperties, LenProperties
<1>3. \A k \in 1..Len(a) + Len(s) :
        (a \o s)[k] = IF k <= Len(a) THEN a[k] ELSE s[k - Len(a)]
  BY <1>1, ConcatProperties
<1>4. \A i \in DOMAIN s : i + Len(a) \in DOMAIN (a \o s) /\ (a \o s)[i + Len(a)] = s[i]
  BY <1>2, <1>3
<1>5. ASSUME NEW k \in DOMAIN (a \o s)
      PROVE  Aside((a \o s)[k]) \/ \E i \in DOMAIN s : k = i + Len(a)
  <2>1. CASE k <= Len(a)
    <3>1. k \in DOMAIN a /\ (a \o s)[k] = a[k]
      BY <1>2, <1>3, <2>1
    <3>2. QED
      BY <3>1 DEF Neutral
  <2>2. CASE ~(k <= Len(a))
    <3>1. k - Len(a) \in DOMAIN s /\ k = (k - Len(a)) + Len(a)
      BY <1>2, <2>2
    <3>2. QED
      BY <3>1
  <2>3. QED
    BY <2>1, <2>2
<1>6. \A k \in DOMAIN (a \o s) : Aside((a \o s)[k]) \/ \E i \in DOMAIN s : k = i + Len(a)
  BY <1>5
<1>7. Len(a) \in Int
  BY <1>2
<1>8. QED
  BY <1>2, <1>4, <1>6, <1>7, ReadyShifted

\* Steps that show nothing may come after others.
LEMMA NeutralAfter ==
  ASSUME NEW a, Neutral(a), NEW s, Ready(s)
  PROVE  Ready(s \o a)
<1>1. a \in Seq(Steps) /\ s \in Seq(Steps)
  BY DEF Neutral, Ready, Tidy
<1>2. /\ s \o a \in Seq(Steps)
      /\ Len(a) \in Nat /\ Len(s) \in Nat /\ Len(s \o a) = Len(s) + Len(a)
      /\ DOMAIN a = 1..Len(a) /\ DOMAIN s = 1..Len(s) /\ DOMAIN (s \o a) = 1..Len(s) + Len(a)
  BY <1>1, ConcatProperties, LenProperties
<1>3. \A k \in 1..Len(s) + Len(a) :
        (s \o a)[k] = IF k <= Len(s) THEN s[k] ELSE a[k - Len(s)]
  BY <1>1, ConcatProperties
<1> PICK n \in Int : n = 0
  OBVIOUS
<1>4. \A i \in DOMAIN s : i + n \in DOMAIN (s \o a) /\ (s \o a)[i + n] = s[i]
  BY <1>2, <1>3
<1>5. ASSUME NEW k \in DOMAIN (s \o a)
      PROVE  Aside((s \o a)[k]) \/ \E i \in DOMAIN s : k = i + n
  <2>1. CASE k <= Len(s)
    BY <1>2, <2>1
  <2>2. CASE ~(k <= Len(s))
    <3>1. k - Len(s) \in DOMAIN a /\ (s \o a)[k] = a[k - Len(s)]
      BY <1>2, <1>3, <2>2
    <3>2. QED
      BY <3>1 DEF Neutral
  <2>3. QED
    BY <2>1, <2>2
<1>6. \A k \in DOMAIN (s \o a) : Aside((s \o a)[k]) \/ \E i \in DOMAIN s : k = i + n
  BY <1>5
<1>7. QED
  BY <1>2, <1>4, <1>6, ReadyShifted

\* Steps that show nothing are ready by themselves.
LEMMA NeutralReady ==
  ASSUME NEW a, Neutral(a)
  PROVE  Ready(a)
  BY DEF Neutral, Aside, Ready, Tidy, ShowsLast, SavesShown, Is

\* Saves of usage or zone and the first valid time show nothing.
LEMMA NeutralSteps ==
  /\ Neutral(<<>>)
  /\ Neutral(<<SeeTime>>)
  /\ \A u \in Nat : Neutral(<<Save("usage", u)>>)
  /\ \A z \in Zones : Neutral(<<Save("zone", z)>>)
<1>1. \A x \in Steps : Aside(x) => Neutral(<<x>>)
  BY DEF Neutral
<1>2. SeeTime \in Steps /\ Aside(SeeTime)
  BY DEF SeeTime, Steps, Keys, AnyValue, Kept, Aside
<1>3. \A u \in Nat : Save("usage", u) \in Steps /\ Aside(Save("usage", u))
  BY DEF Save, Steps, Keys, AnyValue, Kept, Aside, Shown
<1>4. \A z \in Zones : Save("zone", z) \in Steps /\ Aside(Save("zone", z))
  BY DEF Save, Steps, Keys, AnyValue, Kept, Aside, Shown
<1>5. QED
  BY <1>1, <1>2, <1>3, <1>4 DEF Neutral

\* A setting is saved and then published.
LEMMA SettingReady ==
  ASSUME NEW c \in Configs
  PROVE  Ready(SettingSteps(c))
<1> DEFINE s == SettingSteps(c)
<1>1. s \in Seq(Steps)
  BY DEF SettingSteps, Save, Show, Steps, Keys, AnyValue, Kept, Shown
<1>2. DOMAIN s = {1, 2} /\ s[1] = Save("cfg", c) /\ s[2] = Show("cfg", c)
  BY DEF SettingSteps
<1> HIDE DEF s
<1>3. Ready(s)
  BY <1>1, <1>2 DEF Ready, Tidy, ShowsLast, SavesShown, Is, Save, Show, Shown
<1>4. QED
  BY <1>3 DEF s

\* A schedule is saved, used and then published.
LEMMA PlanReady ==
  ASSUME NEW p \in Plans
  PROVE  Ready(<<Save("plan", p), Use("plan", p), Show("plan", p)>>)
<1> DEFINE s == <<Save("plan", p), Use("plan", p), Show("plan", p)>>
<1>1. s \in Seq(Steps)
  BY DEF Save, Use, Show, Steps, Keys, AnyValue, Kept, Shown
<1>2. DOMAIN s = {1, 2, 3} /\ s[1] = Save("plan", p) /\ s[2] = Use("plan", p) /\ s[3] = Show("plan", p)
  OBVIOUS
<1> HIDE DEF s
<1>3. Ready(s)
  BY <1>1, <1>2 DEF Ready, Tidy, ShowsLast, SavesShown, Is, Save, Use, Show, Shown
<1>4. QED
  BY <1>3 DEF s

\* A factory reset saves all defaults and restarts, so nothing is shown of them.
LEMMA ResetReady ==
  Ready(<<Save("cfg", DefaultConfig), Save("plan", NoPlan), Save("zone", NoZone), Reboot>>)
<1> DEFINE s == <<Save("cfg", DefaultConfig), Save("plan", NoPlan), Save("zone", NoZone), Reboot>>
<1>1. s \in Seq(Steps)
  BY BoardAssumption DEF Save, Reboot, Steps, Keys, AnyValue, Kept
<1>2. /\ DOMAIN s = {1, 2, 3, 4}
      /\ s[1] = Save("cfg", DefaultConfig)
      /\ s[2] = Save("plan", NoPlan)
      /\ s[3] = Save("zone", NoZone)
      /\ s[4] = Reboot
  OBVIOUS
<1> HIDE DEF s
<1>3. Ready(s)
  BY <1>1, <1>2 DEF Ready, Tidy, ShowsLast, SavesShown, Is, Save, Reboot, Shown
<1>4. QED
  BY <1>3 DEF s

\* Whatever a message does, its steps are ready and nothing was left to do.
LEMMA HandleReady ==
  ASSUME NEW steps, NEW is, NEW periodic, NEW usage \in Nat, NEW rest,
         Handle(steps, is, periodic, usage, rest),
         \/ Ready(steps) /\ rest = <<>>
         \/ Neutral(steps) /\ Ready(rest)
  PROVE  todo = <<>> /\ Ready(todo')
<1> DEFINE U == IF UsageDue(periodic, on, is) THEN <<Save("usage", usage)>> ELSE <<>>
<1>1. todo = <<>> /\ todo' = steps \o U \o rest
  BY DEF Handle
<1>2. Neutral(U)
  BY NeutralSteps
<1> HIDE DEF U
<1>3. CASE Ready(steps) /\ rest = <<>>
  <2>1. Ready(steps \o U)
    BY <1>2, <1>3, NeutralAfter
  <2>2. Ready((steps \o U) \o <<>>)
    BY <2>1, NeutralAfter, NeutralSteps
  <2>3. QED
    BY <1>1, <1>3, <2>2
<1>4. CASE Neutral(steps) /\ Ready(rest)
  <2>1. Ready(U \o rest)
    BY <1>2, <1>4, NeutralBefore
  <2>2. Ready(steps \o (U \o rest))
    BY <1>4, <2>1, NeutralBefore
  <2>3. (steps \o U) \o rest = steps \o (U \o rest)
    BY <1>2, <1>4, ConcatAssociative DEF Neutral, Ready, Tidy
  <2>4. QED
    BY <1>1, <2>2, <2>3
<1>5. QED
  BY <1>1, <1>3, <1>4

\* The save of a time zone that changed shows nothing.
LEMMA ZoneReady ==
  ASSUME NEW z \in Zones \cup {NoZone}
  PROVE  Neutral(ZoneSteps(z))
  BY NeutralSteps DEF ZoneSteps, ZoneChanges

\* The end of a rain hold is saved and published like a setting.
LEMMA HoldReady ==
  ASSUME NEW c \in Configs
  PROVE  Ready(HoldSteps(c)) /\ HoldSteps(c) \in Seq(Steps)
<1>1. Ready(HoldSteps(c))
  BY SettingReady, NeutralReady, NeutralSteps DEF HoldSteps
<1>2. QED
  BY <1>1 DEF Ready, Tidy

\* Each message queues steps that are ready.
LEMMA MessageReady ==
  ASSUME BoardInv, Message
  PROVE  /\ todo = <<>> /\ Ready(todo')
         /\ ram' \in Stored
         /\ UNCHANGED <<flash, shown, faults>>
<1>1. ram \in Stored /\ ram.usage \in Nat /\ ram.cfg \in Configs
  BY DEF BoardInv, Stored, Keys, Kept
<1>2. ASSUME NEW c \in Configs, NEW is \in BOOLEAN, Setting(c, is)
      PROVE  /\ todo = <<>> /\ Ready(todo')
             /\ ram' \in Stored
             /\ UNCHANGED <<flash, shown, faults>>
  <2>1. todo = <<>> /\ Ready(todo')
    BY <1>1, <1>2, HandleReady, SettingReady DEF Setting
  <2>2. ram' \in Stored
    BY <1>1, <1>2 DEF Setting, Stored, Keys, Kept, AnyValue
  <2>3. QED
    BY <1>2, <2>1, <2>2 DEF Setting
<1>3. ASSUME NEW c \in Configs, NEW is \in BOOLEAN, Tick(c, is)
      PROVE  /\ todo = <<>> /\ Ready(todo')
             /\ ram' \in Stored
             /\ UNCHANGED <<flash, shown, faults>>
  <2> DEFINE onTime == ram.usage + (IF on THEN 1 ELSE 0)
             rest == HoldSteps(c)
  <2>1. onTime \in Nat
    BY <1>1
  <2>2. Ready(rest)
    BY HoldReady
  <2>3. /\ Handle(<<SeeTime>>, is, ticks' % Period = 0, onTime, rest)
        /\ ram' = [ram EXCEPT !.usage = onTime, !.cfg = c]
    BY <1>3 DEF Tick
  <2> HIDE DEF onTime, rest
  <2>4. todo = <<>> /\ Ready(todo')
    BY <2>1, <2>2, <2>3, HandleReady, NeutralSteps
  <2>5. ram' \in Stored
    BY <1>1, <2>1, <2>3 DEF Stored, Keys, Kept, AnyValue
  <2>6. QED
    BY <1>3, <2>4, <2>5 DEF Tick
<1>4. ASSUME NEW p \in Plans, NEW is \in BOOLEAN, SetSchedule(p, is)
      PROVE  /\ todo = <<>> /\ Ready(todo')
             /\ ram' \in Stored
             /\ UNCHANGED <<flash, shown, faults>>
  <2>1. Tz(p) \in Zones \cup {NoZone}
    BY BoardAssumption
  <2>2. Ready(PlanSteps(p))
    BY <2>1, ZoneReady, PlanReady, NeutralBefore DEF PlanSteps
  <2>3. todo = <<>> /\ Ready(todo')
    BY <1>1, <1>4, <2>2, HandleReady DEF SetSchedule
  <2>4. ram' \in Stored
    BY <1>1, <1>4, <2>1 DEF SetSchedule, ZoneAfter, Stored, Keys, Kept, AnyValue
  <2>5. QED
    BY <1>4, <2>3, <2>4 DEF SetSchedule
<1>5. ASSUME NEW z \in Zones \cup {NoZone}, NEW is \in BOOLEAN, HaTime(z, is)
      PROVE  /\ todo = <<>> /\ Ready(todo')
             /\ ram' \in Stored
             /\ UNCHANGED <<flash, shown, faults>>
  <2>1. todo = <<>> /\ Ready(todo')
    BY <1>1, <1>5, ZoneReady, NeutralReady, HandleReady DEF HaTime
  <2>2. ram' \in Stored
    BY <1>1, <1>5 DEF HaTime, ZoneAfter, Stored, Keys, Kept, AnyValue
  <2>3. QED
    BY <1>5, <2>1, <2>2 DEF HaTime
<1>6. ASSUME NEW c \in Configs, NEW is \in BOOLEAN, Switch(c, is)
      PROVE  /\ todo = <<>> /\ Ready(todo')
             /\ ram' \in Stored
             /\ UNCHANGED <<flash, shown, faults>>
  <2>1. todo = <<>> /\ Ready(todo')
    BY <1>1, <1>6, NeutralSteps, HoldReady, HandleReady DEF Switch
  <2>2. ram' \in Stored
    BY <1>1, <1>6 DEF Switch, Stored, Keys, Kept, AnyValue
  <2>3. QED
    BY <1>6, <2>1, <2>2 DEF Switch
<1>7. ASSUME FactoryReset
      PROVE  /\ todo = <<>> /\ Ready(todo')
             /\ ram' \in Stored
             /\ UNCHANGED <<flash, shown, faults>>
  <2>1. todo = <<>> /\ Ready(todo')
    BY <1>1, <1>7, ResetReady, HandleReady DEF FactoryReset
  <2>2. QED
    BY <1>1, <1>7, <2>1 DEF FactoryReset
<1>8. QED
  BY <1>2, <1>3, <1>4, <1>5, <1>6, <1>7 DEF Message

-----------------------------------------------------------------------------
(***************************************************************************)
(* The invariant is inductive.                                             *)
(***************************************************************************)

\* A boot takes up values of the right kind.
LEMMA LoadedType ==
  ASSUME NEW f \in Stored
  PROVE  Loaded(f) \in Stored
<1>1. f \in [Keys -> AnyValue] /\ f.plan \in Plans /\ f.zone \in Zones \cup {NoZone}
  BY DEF Stored, Keys, Kept
<1>2. BootZone(f) \in Zones \cup {NoZone}
  BY <1>1, BoardAssumption DEF BootZone
<1>3. QED
  BY <1>2 DEF Loaded, Stored, Keys, Kept, AnyValue

\* What the board starts with.
LEMMA InitInv ==
  ASSUME Init
  PROVE  BoardInv
<1>1. flash \in Stored
  BY BoardAssumption DEF Init, Stored, Keys, Kept, AnyValue
<1>2. ram \in Stored
  BY <1>1, LoadedType DEF Init
<1>3. shown = [key \in Shown |-> shown[key]]
  BY DEF Init
<1>4. Tidy(todo) /\ ShowsSaved(todo, flash)
  BY NeutralSteps, NeutralReady, ReadySaved DEF Init
<1>5. QED
  BY <1>1, <1>2, <1>3, <1>4 DEF Init, BoardInv

\* The first step of what is left to do is well-typed.
LEMMA HeadType ==
  ASSUME BoardInv, todo # <<>>
  PROVE  /\ Head(todo) = todo[1]
         /\ 1 \in DOMAIN todo
         /\ Head(todo).key \in Keys
         /\ Head(todo).value \in Kept(Head(todo).key)
         /\ Head(todo).value \in AnyValue
         /\ Head(todo).op = "show" => Head(todo).key \in Shown
         /\ Head(todo).op = "use" => Head(todo).key = "plan"
  BY TailIndex DEF BoardInv, Tidy, Steps

\* A step that is not a save.
LEMMA OtherStepInv ==
  ASSUME BoardInv, todo # <<>>, todo' = Tail(todo),
         Head(todo).op \notin {"save", "reboot"},
         ram' \in Stored, shown' = [key \in Shown |-> shown'[key]],
         UNCHANGED <<flash, faults>>
  PROVE  BoardInv'
<1>1. Tidy(todo')
  BY TailTidy DEF BoardInv
<1>2. ASSUME faults = 0
      PROVE  ShowsSaved(todo', flash')
  <2>1. \A key \in Shown : flash[key] = IF Is(todo, 1, "save", key) THEN todo[1].value ELSE flash[key]
    BY HeadType DEF Is
  <2>2. ShowsSaved(todo, flash) /\ Tidy(todo)
    BY <1>2 DEF BoardInv
  <2>3. ShowsSaved(Tail(todo), flash)
    BY <2>1, <2>2, TailSaved
  <2>4. QED
    BY <2>3
<1>3. QED
  BY <1>1, <1>2 DEF BoardInv

\* A save, whether it fails or not, keeps the invariant.
LEMMA SaveInv ==
  ASSUME BoardInv, DoSave
  PROVE  BoardInv'
<1>1. todo # <<>> /\ Head(todo).op = "save" /\ todo' = Tail(todo)
  BY DEF DoSave, Doing
<1>2. Tidy(todo')
  BY <1>1, TailTidy DEF BoardInv
<1>3. CASE flash' = [flash EXCEPT ![Head(todo).key] = Head(todo).value] /\ UNCHANGED faults
  <2>1. flash' \in Stored
    BY <1>1, <1>3, HeadType DEF BoardInv, Stored
  <2>2. ASSUME faults = 0
        PROVE  ShowsSaved(todo', flash')
    <3>1. \A key \in Shown : flash'[key] = IF Is(todo, 1, "save", key) THEN todo[1].value ELSE flash[key]
      BY <1>1, <1>3, HeadType DEF BoardInv, Stored, Is, Shown, Keys
    <3>2. ShowsSaved(todo, flash) /\ Tidy(todo)
      BY <2>2 DEF BoardInv
    <3>3. QED
      BY <1>1, <3>1, <3>2, TailSaved
  <2>3. QED
    BY <1>2, <1>3, <2>1, <2>2 DEF BoardInv, DoSave
<1>4. CASE faults' = faults + 1 /\ UNCHANGED flash
  BY <1>2, <1>4 DEF BoardInv, DoSave
<1>5. QED
  BY <1>3, <1>4 DEF DoSave

\* Every step keeps the invariant.
LEMMA StepInv ==
  ASSUME BoardInv, [Next]_vars
  PROVE  BoardInv'
<1>1. CASE Message
  <2>1. /\ ram' \in Stored
        /\ UNCHANGED <<flash, shown, faults>>
        /\ Tidy(todo') /\ ShowsSaved(todo', flash')
    BY <1>1, MessageReady, ReadySaved
  <2>2. QED
    BY <2>1 DEF BoardInv
<1>2. CASE DoSave
  BY <1>2, SaveInv
<1>3. CASE DoShow
  <2>1. shown' = [key \in Shown |-> shown'[key]]
    BY <1>3 DEF DoShow, BoardInv
  <2>2. QED
    BY <1>3, <2>1, OtherStepInv DEF DoShow, Doing, BoardInv
<1>4. CASE DoUse
  <2>1. ram' \in Stored
    BY <1>4, HeadType DEF DoUse, Doing, BoardInv, Stored
  <2>2. QED
    BY <1>4, <2>1, OtherStepInv DEF DoUse, Doing, BoardInv
<1>5. CASE DoSeeTime
  BY <1>5, OtherStepInv DEF DoSeeTime, Doing, BoardInv
<1>6. CASE SntpSync
  BY <1>6 DEF SntpSync, BoardInv
<1>7. CASE Restart
  <2>1. ram' \in Stored
    BY <1>7, LoadedType DEF Restart, BoardInv
  <2>2. Tidy(todo') /\ ShowsSaved(todo', flash')
    BY <1>7, NeutralSteps, NeutralReady, ReadySaved DEF Restart
  <2>3. QED
    BY <1>7, <2>1, <2>2 DEF Restart, BoardInv
<1>8. CASE UNCHANGED vars
  BY <1>8 DEF vars, time, BoardInv
<1>9. QED
  BY <1>1, <1>2, <1>3, <1>4, <1>5, <1>6, <1>7, <1>8 DEF Next

\* The states of the board keep the shape above: what is used and saved has its
\* type, and the steps left to do save a value before they show it.
THEOREM BoardInvariant == Spec => []BoardInv
<1>1. Init => BoardInv
  BY InitInv
<1>2. BoardInv /\ [Next]_vars => BoardInv'
  BY StepInv
<1>3. QED
  BY <1>1, <1>2, PTL DEF Spec

-----------------------------------------------------------------------------
(***************************************************************************)
(* Every step of the board is a step of Durable, or changes nothing of it. *)
(***************************************************************************)
Saved == [key \in Shown |-> flash[key]]

Due == {key \in Shown : Resetting \/ Pending("show", key)}

Failed == faults > 0

\* With no steps left nothing is due to be shown.
LEMMA NothingDue ==
  ASSUME todo = <<>>
  PROVE  Due = {}
  BY DEF Due, Resetting, Pending

\* A step that shows nothing leaves due what was due.
LEMMA DueKept ==
  ASSUME BoardInv, todo # <<>>, todo' = Tail(todo), Head(todo).op \notin {"show", "reboot"}
  PROVE  Due' = Due
<1>1. todo \in Seq(Steps)
  BY DEF BoardInv, Tidy
<1>2. Resetting' <=> Resetting
  <2>1. ASSUME NEW i \in DOMAIN todo', todo'[i].op = "reboot"
        PROVE  Resetting
    BY <1>1, <2>1, TailIndex DEF Resetting
  <2>2. ASSUME NEW j \in DOMAIN todo, todo[j].op = "reboot"
        PROVE  Resetting'
    BY <1>1, <2>2, TailIndex DEF Resetting
  <2>3. QED
    BY <2>1, <2>2 DEF Resetting
<1>3. ASSUME NEW key \in Shown
      PROVE  Pending("show", key)' <=> Pending("show", key)
  <2>1. ASSUME NEW i \in DOMAIN todo', todo'[i].op = "show", todo'[i].key = key
        PROVE  Pending("show", key)
    BY <1>1, <2>1, TailIndex DEF Pending
  <2>2. ASSUME NEW j \in DOMAIN todo, todo[j].op = "show", todo[j].key = key
        PROVE  Pending("show", key)'
    BY <1>1, <2>2, TailIndex DEF Pending
  <2>3. QED
    BY <2>1, <2>2 DEF Pending
<1>4. QED
  BY <1>2, <1>3 DEF Due

\* A step that shows a key settles that one and no other.
LEMMA DueShown ==
  ASSUME BoardInv, todo # <<>>, todo' = Tail(todo), Head(todo).op = "show", Head(todo).key \in Shown
  PROVE  /\ Head(todo).key \in Due
         /\ Due' = Due \ {Head(todo).key}
<1> DEFINE shownKey == Head(todo).key
<1>1. todo \in Seq(Steps) /\ Is(todo, 1, "show", shownKey) /\ ShowsLast(todo)
  BY HeadType DEF BoardInv, Tidy, Is
<1>2. shownKey \in Due
  BY <1>1 DEF Due, Pending, Is
<1>3. ~Resetting /\ ~Resetting'
  <2>1. ~Resetting
    BY <1>1 DEF ShowsLast, Resetting
  <2>2. ASSUME NEW i \in DOMAIN todo', todo'[i].op = "reboot"
        PROVE  Resetting
    BY <1>1, <2>2, TailIndex DEF Resetting
  <2>3. QED
    BY <2>1, <2>2 DEF Resetting
<1>4. ASSUME NEW key \in Shown
      PROVE  Pending("show", key)' <=> Pending("show", key) /\ key # shownKey
  <2>1. ASSUME NEW i \in DOMAIN todo', todo'[i].op = "show", todo'[i].key = key
        PROVE  Pending("show", key) /\ key # shownKey
    <3>1. i + 1 \in DOMAIN todo /\ i + 1 # 1 /\ todo[i + 1] = todo'[i]
      BY <1>1, TailIndex
    <3>2. Is(todo, i + 1, "show", key)
      BY <2>1, <3>1 DEF Is
    <3>3. key # shownKey
      BY <1>1, <3>1, <3>2 DEF ShowsLast
    <3>4. QED
      BY <2>1, <3>1, <3>3 DEF Pending
  <2>2. ASSUME NEW j \in DOMAIN todo, todo[j].op = "show", todo[j].key = key, key # shownKey
        PROVE  Pending("show", key)'
    <3>1. j # 1
      BY <1>1, <2>2 DEF Is
    <3>2. QED
      BY <1>1, <2>2, <3>1, TailIndex DEF Pending
  <2>3. QED
    BY <2>1, <2>2 DEF Pending
<1>5. QED
  BY <1>2, <1>3, <1>4 DEF Due

\* The board starts as the register does.
LEMMA InitDurable ==
  ASSUME Init
  PROVE  SavedThenShown!Init
<1>1. Saved \in [Shown -> Configs \cup Plans]
  BY BoardAssumption DEF Init, Saved, Shown
<1>2. shown = Saved /\ Due = {} /\ Failed = FALSE
  BY NothingDue DEF Init, Saved, Failed
<1>3. QED
  BY <1>1, <1>2 DEF SavedThenShown!Init, Saved, Due, Failed

\* A save is a step of the register, or changes nothing it sees.
LEMMA SaveDurable ==
  ASSUME BoardInv, DoSave
  PROVE  [SavedThenShown!Next]_(SavedThenShown!vars)
<1> DEFINE head == Head(todo)
<1>1. todo # <<>> /\ head.op = "save" /\ todo' = Tail(todo) /\ UNCHANGED shown
  BY DEF DoSave, Doing
<1>2. Due' = Due
  BY <1>1, DueKept
<1>3. head.key \in Keys /\ head.value \in Kept(head.key) /\ flash \in [Keys -> AnyValue] /\ faults \in Nat
  BY <1>1, HeadType DEF BoardInv, Stored
<1> HIDE DEF head
<1>4. CASE flash' = [flash EXCEPT ![head.key] = head.value] /\ UNCHANGED faults /\ head.key \in Shown
  <2>1. head.key \in Due
    <3>1. Is(todo, 1, "save", head.key) /\ SavesShown(todo)
      BY <1>1, HeadType DEF BoardInv, Tidy, Is, head
    <3>2. QED
      BY <1>4, <3>1 DEF SavesShown, Due, Resetting, Pending, Is
  <2>2. head.value \in Configs \cup Plans
    BY <1>3, <1>4 DEF Shown, Kept
  <2>3. Saved' = [Saved EXCEPT ![head.key] = head.value]
    BY <1>3, <1>4 DEF Saved, Shown, Keys
  <2>4. Failed' = Failed
    BY <1>4 DEF Failed
  <2>5. SavedThenShown!Store(head.key, head.value)
    BY <1>1, <1>2, <2>1, <2>3, <2>4 DEF SavedThenShown!Store, Saved, Due, Failed
  <2>6. head.key \in Shown
    BY <1>4
  <2>7. \E key \in Shown, value \in Configs \cup Plans : SavedThenShown!Store(key, value)
    BY <2>2, <2>5, <2>6 DEF SavedThenShown!Store
  <2>8. QED
    BY <2>7 DEF SavedThenShown!Next
<1>5. CASE flash' = [flash EXCEPT ![head.key] = head.value] /\ UNCHANGED faults /\ head.key \notin Shown
  <2>1. Saved' = Saved /\ Failed' = Failed
    BY <1>3, <1>5 DEF Saved, Shown, Keys, Failed
  <2>2. QED
    BY <1>1, <1>2, <2>1 DEF SavedThenShown!vars, Saved, Due, Failed
<1>6. CASE faults' = faults + 1 /\ UNCHANGED flash
  <2>1. Failed' = TRUE /\ Saved' = Saved
    BY <1>3, <1>6 DEF Failed, Saved
  <2>2. SavedThenShown!StoreFails
    BY <1>1, <1>2, <2>1 DEF SavedThenShown!StoreFails, Saved, Due, Failed
  <2>3. QED
    BY <2>2 DEF SavedThenShown!Next
<1>7. QED
  BY <1>4, <1>5, <1>6 DEF DoSave, head

\* What is published is what the register was waiting to show.
LEMMA ShowDurable ==
  ASSUME BoardInv, DoShow
  PROVE  [SavedThenShown!Next]_(SavedThenShown!vars)
<1> DEFINE head == Head(todo)
<1>1. /\ todo # <<>> /\ head.op = "show" /\ todo' = Tail(todo)
      /\ shown' = [shown EXCEPT ![head.key] = head.value]
      /\ UNCHANGED <<flash, faults>>
  BY DEF DoShow, Doing
<1>2. head.key \in Keys /\ head.value \in Kept(head.key) /\ faults \in Nat
  BY <1>1, HeadType DEF BoardInv
<1>3. UNCHANGED <<Saved, Failed>>
  BY <1>1 DEF Saved, Failed
<1>4. head.key \in Shown
  BY <1>1, HeadType
<1>5. head.key \in Due /\ Due' = Due \ {head.key}
  BY <1>1, <1>4, DueShown
<1>6. Failed \/ head.value = Saved[head.key]
  <2>1. SUFFICES ASSUME ~Failed PROVE head.value = flash[head.key]
    BY <1>4 DEF Saved
  <2>2. ShowsSaved(todo, flash) /\ ShowsLast(todo) /\ todo \in Seq(Steps)
    BY <1>2, <2>1 DEF Failed, BoardInv, Tidy
  <2>3. Is(todo, 1, "show", head.key) /\ head = todo[1]
    BY <1>1, HeadType DEF Is
  <2>4. ASSUME NEW j \in DOMAIN todo, Is(todo, j, "save", head.key)
        PROVE  FALSE
    <3>1. j < 1
      BY <1>4, <2>2, <2>3, <2>4 DEF ShowsLast, Is
    <3>2. j \in 1..Len(todo)
      BY <2>2, <2>4, LenProperties
    <3>3. QED
      BY <3>1, <3>2, <2>2, LenProperties
  <2>5. QED
    BY <1>4, <2>2, <2>3, <2>4 DEF ShowsSaved, Is
<1>7. head.value \in Configs \cup Plans
  BY <1>2, <1>4 DEF Shown, Kept
<1> HIDE DEF head
<1>8. SavedThenShown!Show(head.key, head.value)
  BY <1>1, <1>3, <1>5, <1>6 DEF SavedThenShown!Show, Saved, Due, Failed
<1>9. QED
  BY <1>4, <1>7, <1>8 DEF SavedThenShown!Next

\* Every step of the board is one of the register, or none.
LEMMA NextDurable ==
  ASSUME BoardInv, [Next]_vars
  PROVE  [SavedThenShown!Next]_(SavedThenShown!vars)
<1>1. CASE Message
  <2>1. todo = <<>> /\ UNCHANGED <<flash, shown, faults>>
    BY <1>1, MessageReady
  <2>2. Due = {} /\ Due' \in SUBSET Shown /\ UNCHANGED <<Saved, Failed>>
    BY <2>1, NothingDue DEF Due, Saved, Failed
  <2>3. SavedThenShown!Request(Due')
    BY <2>1, <2>2 DEF SavedThenShown!Request, Saved, Due, Failed
  <2>4. QED
    BY <2>2, <2>3 DEF SavedThenShown!Next
<1>2. CASE DoSave
  BY <1>2, SaveDurable
<1>3. CASE DoShow
  BY <1>3, ShowDurable
<1>4. CASE DoUse \/ DoSeeTime
  <2>1. UNCHANGED <<flash, shown, faults>> /\ Due' = Due
    BY <1>4, DueKept DEF DoUse, DoSeeTime, Doing
  <2>2. UNCHANGED <<Saved, Failed>>
    BY <2>1 DEF Saved, Failed
  <2>3. QED
    BY <2>1, <2>2 DEF SavedThenShown!vars, Saved, Due, Failed
<1>5. CASE SntpSync \/ UNCHANGED vars
  <2>1. UNCHANGED <<flash, shown, faults, todo>>
    BY <1>5 DEF SntpSync, vars, time
  <2>2. UNCHANGED <<Saved, Due, Failed>>
    BY <2>1 DEF Saved, Due, Failed, Resetting, Pending
  <2>3. QED
    BY <2>1, <2>2 DEF SavedThenShown!vars, Saved, Due, Failed
<1>6. CASE Restart
  <2>1. todo' = <<>> /\ shown' = Saved /\ UNCHANGED <<flash, faults>>
    BY <1>6 DEF Restart, Saved
  <2>2. UNCHANGED <<Saved, Failed>> /\ Due' = {}
    BY <2>1 DEF Saved, Failed, Due, Resetting, Pending
  <2>3. SavedThenShown!Restart
    BY <2>1, <2>2 DEF SavedThenShown!Restart, Saved, Due, Failed
  <2>4. QED
    BY <2>3 DEF SavedThenShown!Next
<1>7. QED
  BY <1>1, <1>2, <1>3, <1>4, <1>5, <1>6 DEF Next

\* The board implements Durable: it shows a setting only when a restart would
\* bring it back, and shows whatever it saves, with a power cut between any two
\* steps of any message and until a save fails.
THEOREM BoardDurably == Spec => Durably
<1>1. Init => SavedThenShown!Init
  BY InitDurable
<1>2. BoardInv /\ [Next]_vars => [SavedThenShown!Next]_(SavedThenShown!vars)
  BY NextDurable
<1>3. QED
  BY <1>1, <1>2, BoardInvariant, PTL DEF Spec, Durably, SavedThenShown!Spec

-----------------------------------------------------------------------------
(***************************************************************************)
(* A power cut loses at most Period ticks of on-time.  While a save of the *)
(* counters is left to do it saves what is counted; otherwise what is not  *)
(* saved was counted since the last multiple of Period.                    *)
(***************************************************************************)
Counts(s) == \E i \in DOMAIN s : Is(s, i, "save", "usage")

CountsAs(s, usage) == \A i \in DOMAIN s : Is(s, i, "save", "usage") => s[i].value = usage

UsageInv ==
  /\ ticks \in Nat
  /\ on \in BOOLEAN
  /\ faults = 0 =>
       /\ CountsAs(todo, ram.usage)
       /\ ram.usage - flash.usage <=
            IF Counts(todo) THEN Period ELSE IF on THEN ticks % Period ELSE 0

\* Steps count ticks when one of their parts does.
LEMMA CountsConcat ==
  ASSUME NEW a \in Seq(Steps), NEW b \in Seq(Steps)
  PROVE  /\ Counts(a \o b) <=> Counts(a) \/ Counts(b)
         /\ \A u : CountsAs(a, u) /\ CountsAs(b, u) => CountsAs(a \o b, u)
<1>1. /\ Len(a) \in Nat /\ Len(b) \in Nat
      /\ DOMAIN a = 1..Len(a) /\ DOMAIN b = 1..Len(b) /\ DOMAIN (a \o b) = 1..Len(a) + Len(b)
  BY ConcatProperties, LenProperties
<1>2. \A k \in 1..Len(a) + Len(b) :
        (a \o b)[k] = IF k <= Len(a) THEN a[k] ELSE b[k - Len(a)]
  BY ConcatProperties
<1>3. ASSUME NEW i \in DOMAIN a
      PROVE  i \in DOMAIN (a \o b) /\ (a \o b)[i] = a[i]
  BY <1>1, <1>2
<1>4. ASSUME NEW i \in DOMAIN b
      PROVE  i + Len(a) \in DOMAIN (a \o b) /\ (a \o b)[i + Len(a)] = b[i]
  BY <1>1, <1>2
<1>5. ASSUME NEW k \in DOMAIN (a \o b)
      PROVE  \/ k \in DOMAIN a /\ (a \o b)[k] = a[k]
             \/ k - Len(a) \in DOMAIN b /\ (a \o b)[k] = b[k - Len(a)]
  BY <1>1, <1>2
<1>6. Counts(a \o b) => Counts(a) \/ Counts(b)
  BY <1>5 DEF Counts, Is
<1>7. Counts(a) \/ Counts(b) => Counts(a \o b)
  BY <1>3, <1>4 DEF Counts, Is
<1>8. ASSUME NEW u, CountsAs(a, u), CountsAs(b, u)
      PROVE  CountsAs(a \o b, u)
  BY <1>5, <1>8 DEF CountsAs, Is
<1>9. QED
  BY <1>6, <1>7, <1>8

\* The counters are saved once, where Handle puts them.
LEMMA HandleCounts ==
  ASSUME NEW steps \in Seq(Steps), NEW is, NEW periodic, NEW usage \in Nat, NEW rest \in Seq(Steps),
         Handle(steps, is, periodic, usage, rest), ~Counts(steps), ~Counts(rest)
  PROVE  /\ CountsAs(todo', usage)
         /\ Counts(todo') <=> UsageDue(periodic, on, is)
         /\ on' = is
<1> DEFINE U == IF UsageDue(periodic, on, is) THEN <<Save("usage", usage)>> ELSE <<>>
<1>1. todo' = (steps \o U) \o rest /\ on' = is
  BY DEF Handle
<1>2. U \in Seq(Steps)
  BY NeutralSteps DEF Neutral
<1>3. CountsAs(U, usage) /\ (Counts(U) <=> UsageDue(periodic, on, is))
  BY DEF CountsAs, Counts, Is, Save
<1> HIDE DEF U
<1>4. CountsAs(steps, usage) /\ CountsAs(rest, usage)
  BY DEF Counts, CountsAs
<1>5. steps \o U \in Seq(Steps)
  BY <1>2, ConcatProperties
<1>6. QED
  BY <1>1, <1>2, <1>3, <1>4, <1>5, CountsConcat

\* No other step of a message saves the counters.
LEMMA OnlyHandleCounts ==
  /\ ~Counts(<<>>) /\ ~Counts(<<SeeTime>>)
  /\ \A c \in Configs : ~Counts(SettingSteps(c))
  /\ \A z \in Zones \cup {NoZone} : ~Counts(ZoneSteps(z))
  /\ \A p \in Plans : ~Counts(PlanSteps(p))
  /\ ~Counts(<<Save("cfg", DefaultConfig), Save("plan", NoPlan), Save("zone", NoZone), Reboot>>)
<1>1. ~Counts(<<>>) /\ ~Counts(<<SeeTime>>)
  BY DEF Counts, Is, SeeTime
<1>2. \A c \in Configs : ~Counts(SettingSteps(c))
  BY DEF Counts, Is, SettingSteps, Save, Show
<1>3. \A z \in Zones \cup {NoZone} : ~Counts(ZoneSteps(z))
  BY DEF Counts, Is, ZoneSteps, Save
<1>4. ASSUME NEW p \in Plans
      PROVE  ~Counts(PlanSteps(p))
  <2>1. ~Counts(<<Save("plan", p), Use("plan", p), Show("plan", p)>>)
    BY DEF Counts, Is, Save, Use, Show
  <2>2. ~Counts(ZoneSteps(Tz(p))) /\ ZoneSteps(Tz(p)) \in Seq(Steps)
    BY <1>3, ZoneReady, BoardAssumption DEF Neutral
  <2>3. <<Save("plan", p), Use("plan", p), Show("plan", p)>> \in Seq(Steps)
    BY PlanReady DEF Ready, Tidy
  <2>4. QED
    BY <2>1, <2>2, <2>3, CountsConcat DEF PlanSteps
<1>5. ~Counts(<<Save("cfg", DefaultConfig), Save("plan", NoPlan), Save("zone", NoZone), Reboot>>)
  BY DEF Counts, Is, Save, Reboot
<1>6. QED
  BY <1>1, <1>2, <1>3, <1>4, <1>5

\* A message that counts nothing: what was unsaved stays so if a relay stays on,
\* and is saved if the relay goes off.
LEMMA StillUsageInv ==
  ASSUME BoardInv, UsageInv, todo = <<>>,
         NEW is \in BOOLEAN, NEW steps \in Seq(Steps), ~Counts(steps),
         NEW rest \in Seq(Steps), ~Counts(rest),
         Handle(steps, is, FALSE, ram.usage, rest),
         ram'.usage = ram.usage, UNCHANGED <<flash, ticks, faults>>
  PROVE  UsageInv'
<1>1. ram.usage \in Nat /\ flash.usage \in Nat /\ ticks \in Nat
  BY DEF BoardInv, Stored, Keys, Kept, UsageInv
<1>2. ticks % Period \in 0..Period - 1 /\ Period \in Nat
  BY <1>1, BoardAssumption
<1>3. /\ CountsAs(todo', ram.usage)
      /\ Counts(todo') <=> UsageDue(FALSE, on, is)
      /\ on' = is
  BY <1>1, HandleCounts
<1>4. ASSUME faults = 0
      PROVE  ram.usage - flash.usage <=
               IF UsageDue(FALSE, on, is) THEN Period ELSE IF is THEN ticks % Period ELSE 0
  <2>1. ram.usage - flash.usage <= IF on THEN ticks % Period ELSE 0
    BY <1>1, <1>4, OnlyHandleCounts DEF UsageInv
  <2>2. QED
    BY <1>1, <1>2, <2>1 DEF UsageDue
<1>5. QED
  BY <1>1, <1>3, <1>4 DEF UsageInv

\* The remainder of the next tick is one more, unless a period is over.
LEMMA NextTick ==
  ASSUME NEW t \in Nat
  PROVE  (t + 1) % Period = 0 \/ (t + 1) % Period = (t % Period) + 1
<1> DEFINE q == t \div Period
           r == t % Period
<1>1. q \in Nat /\ r \in Nat /\ r < Period /\ Period \in Nat \ {0}
  BY BoardAssumption
<1>2. r = t - Period * q
  BY <1>1
<1> HIDE DEF q, r
<1>3. t = Period * q + r
  BY <1>1, <1>2
<1>4. (t + 1) % Period = 0 \/ (t + 1) % Period = r + 1
  BY <1>1, <1>3
<1>5. QED
  BY <1>4 DEF r

\* A tick counts one more, and saves when Period divides the ticks.
LEMMA TickUsageInv ==
  ASSUME BoardInv, UsageInv, NEW c \in Configs, NEW is \in BOOLEAN, Tick(c, is)
  PROVE  UsageInv'
<1> DEFINE onTime == ram.usage + (IF on THEN 1 ELSE 0)
           rest == HoldSteps(c)
           due == UsageDue(ticks' % Period = 0, on, is)
<1>1. /\ ram \in [Keys -> AnyValue] /\ ram.usage \in Nat /\ flash.usage \in Nat
      /\ ticks \in Nat /\ on \in BOOLEAN
  BY DEF BoardInv, Stored, Keys, Kept, UsageInv
<1>2. onTime \in Nat
  BY <1>1
<1>3. /\ todo = <<>> /\ ticks' = ticks + 1 /\ UNCHANGED <<flash, faults>>
      /\ ram' = [ram EXCEPT !.usage = onTime, !.cfg = c]
      /\ Handle(<<SeeTime>>, is, ticks' % Period = 0, onTime, rest)
  BY DEF Tick, Handle
<1>4. ram'.usage = onTime
  BY <1>1, <1>3 DEF Keys
<1>5. rest \in Seq(Steps) /\ ~Counts(rest)
  BY HoldReady, NeutralSteps, OnlyHandleCounts DEF HoldSteps
<1>6. <<SeeTime>> \in Seq(Steps) /\ ~Counts(<<SeeTime>>)
  BY NeutralSteps, OnlyHandleCounts DEF Neutral
<1>7. /\ CountsAs(todo', onTime)
      /\ Counts(todo') <=> due
      /\ on' = is
  <2> HIDE DEF onTime, rest
  <2>1. QED
    BY <1>2, <1>3, <1>5, <1>6, HandleCounts
<1>8. ASSUME faults = 0
      PROVE  onTime - flash.usage <= IF due THEN Period ELSE IF is THEN ticks' % Period ELSE 0
  <2>1. ram.usage - flash.usage <= IF on THEN ticks % Period ELSE 0
    BY <1>3, <1>8, OnlyHandleCounts DEF UsageInv
  <2>2. Period \in Nat /\ Period > 0 /\ ticks % Period \in 0..Period - 1 /\ ticks' % Period \in 0..Period - 1
    BY <1>1, <1>3, BoardAssumption
  <2>3. ticks' % Period = 0 \/ ticks' % Period = (ticks % Period) + 1
    BY <1>1, <1>3, NextTick
  <2>4. QED
    BY <1>1, <2>1, <2>2, <2>3 DEF UsageDue
<1>9. QED
  BY <1>1, <1>3, <1>4, <1>7, <1>8 DEF UsageInv

\* A message that counts on-time saves it when a period is over or the relay goes off.
LEMMA MessageUsageInv ==
  ASSUME BoardInv, UsageInv, Message
  PROVE  UsageInv'
<1>1. /\ ram \in [Keys -> AnyValue] /\ "usage" \in Keys
      /\ todo = <<>> /\ UNCHANGED <<flash, faults>>
      /\ <<>> \in Seq(Steps) /\ ~Counts(<<>>)
  BY MessageReady, NeutralSteps, OnlyHandleCounts DEF BoardInv, Stored, Keys, Neutral
<1>2. ASSUME NEW c \in Configs, NEW is \in BOOLEAN, Setting(c, is)
      PROVE  UsageInv'
  <2>1. SettingSteps(c) \in Seq(Steps) /\ ~Counts(SettingSteps(c))
    BY SettingReady, OnlyHandleCounts DEF Ready, Tidy
  <2>2. ram'.usage = ram.usage
    BY <1>1, <1>2 DEF Setting
  <2>3. QED
    BY <1>1, <1>2, <2>1, <2>2, StillUsageInv DEF Setting
<1>3. ASSUME NEW c \in Configs, NEW is \in BOOLEAN, Tick(c, is)
      PROVE  UsageInv'
  BY <1>3, TickUsageInv
<1>4. ASSUME NEW p \in Plans, NEW is \in BOOLEAN, SetSchedule(p, is)
      PROVE  UsageInv'
  <2>1. Ready(PlanSteps(p))
    BY ZoneReady, PlanReady, NeutralBefore, BoardAssumption DEF PlanSteps
  <2>2. PlanSteps(p) \in Seq(Steps) /\ ~Counts(PlanSteps(p))
    BY <2>1, OnlyHandleCounts DEF Ready, Tidy
  <2>3. ram'.usage = ram.usage
    BY <1>1, <1>4 DEF SetSchedule
  <2>4. QED
    BY <1>1, <1>4, <2>2, <2>3, StillUsageInv DEF SetSchedule
<1>5. ASSUME NEW z \in Zones \cup {NoZone}, NEW is \in BOOLEAN, HaTime(z, is)
      PROVE  UsageInv'
  <2>1. ZoneSteps(z) \in Seq(Steps) /\ ~Counts(ZoneSteps(z))
    BY ZoneReady, OnlyHandleCounts DEF Neutral
  <2>2. ram'.usage = ram.usage
    BY <1>1, <1>5 DEF HaTime
  <2>3. QED
    BY <1>1, <1>5, <2>1, <2>2, StillUsageInv DEF HaTime
<1>6. ASSUME NEW c \in Configs, NEW is \in BOOLEAN, Switch(c, is)
      PROVE  UsageInv'
  <2>1. HoldSteps(c) \in Seq(Steps) /\ ~Counts(HoldSteps(c))
    BY <1>1, HoldReady, OnlyHandleCounts DEF HoldSteps
  <2>2. ram'.usage = ram.usage
    BY <1>1, <1>6 DEF Switch
  <2>3. QED
    BY <1>1, <1>6, <2>1, <2>2, StillUsageInv DEF Switch
<1>7. ASSUME FactoryReset
      PROVE  UsageInv'
  <2> DEFINE steps == <<Save("cfg", DefaultConfig), Save("plan", NoPlan), Save("zone", NoZone), Reboot>>
  <2>1. steps \in Seq(Steps) /\ ~Counts(steps)
    BY ResetReady, OnlyHandleCounts DEF Ready, Tidy
  <2>2. on \in BOOLEAN /\ Handle(steps, on, FALSE, ram.usage, <<>>)
    BY <1>7 DEF FactoryReset, UsageInv
  <2> HIDE DEF steps
  <2>3. QED
    BY <1>1, <1>7, <2>1, <2>2, StillUsageInv DEF FactoryReset
<1>8. QED
  BY <1>2, <1>3, <1>4, <1>5, <1>6, <1>7 DEF Message

\* Doing the first step.
LEMMA TailCounts ==
  ASSUME BoardInv, todo # <<>>
  PROVE  /\ \A u : CountsAs(todo, u) => CountsAs(Tail(todo), u)
         /\ ~Is(todo, 1, "save", "usage") => (Counts(Tail(todo)) <=> Counts(todo))
<1>1. todo \in Seq(Steps)
  BY DEF BoardInv, Tidy
<1>2. ASSUME NEW i \in DOMAIN Tail(todo), Is(Tail(todo), i, "save", "usage")
      PROVE  Is(todo, i + 1, "save", "usage") /\ i + 1 \in DOMAIN todo /\ todo[i + 1] = Tail(todo)[i]
  BY <1>1, <1>2, TailIndex DEF Is
<1>3. ASSUME NEW j \in DOMAIN todo, j # 1, Is(todo, j, "save", "usage")
      PROVE  Counts(Tail(todo))
  BY <1>1, <1>3, TailIndex DEF Is, Counts
<1>4. QED
  BY <1>2, <1>3 DEF Counts, CountsAs

\* Every step keeps the on-time that is not saved within a period.
LEMMA StepUsageInv ==
  ASSUME BoardInv, BoardInv', UsageInv, [Next]_vars
  PROVE  UsageInv'
<1>1. /\ ram \in [Keys -> AnyValue] /\ flash \in [Keys -> AnyValue] /\ "usage" \in Keys
      /\ ram.usage \in Nat /\ flash.usage \in Nat /\ ticks \in Nat /\ on \in BOOLEAN /\ faults \in Nat
  BY DEF BoardInv, Stored, Keys, Kept, UsageInv
<1>2. Period \in Nat /\ \A t \in Nat : t % Period \in 0..Period - 1
  BY BoardAssumption
<1>3. CASE Message
  BY <1>3, MessageUsageInv
<1>4. CASE DoSave
  <2>1. todo # <<>> /\ todo' = Tail(todo) /\ Head(todo).op = "save" /\ UNCHANGED <<ram, on, ticks>>
    BY <1>4 DEF DoSave, Doing
  <2>2. CASE faults' = faults + 1
    BY <1>1, <2>1, <2>2 DEF UsageInv
  <2>3. CASE flash' = [flash EXCEPT ![Head(todo).key] = Head(todo).value] /\ UNCHANGED faults
    <3>1. CASE Head(todo).key = "usage"
      <4>1. Is(todo, 1, "save", "usage") /\ 1 \in DOMAIN todo /\ Head(todo) = todo[1]
        BY <2>1, <3>1, HeadType DEF Is
      <4>2. faults = 0 => flash'.usage = ram.usage /\ CountsAs(todo', ram.usage)
        BY <1>1, <2>1, <2>3, <3>1, <4>1, TailCounts DEF UsageInv, CountsAs
      <4>3. faults = 0 => ram.usage - flash'.usage = 0
        BY <1>1, <4>2
      <4>4. 0 <= Period /\ 0 <= IF on THEN ticks % Period ELSE 0
        BY <1>1, <1>2
      <4>5. QED
        BY <1>1, <2>1, <2>3, <4>2, <4>3, <4>4 DEF UsageInv
    <3>2. CASE Head(todo).key # "usage"
      <4>1. ~Is(todo, 1, "save", "usage")
        BY <2>1, <3>2, HeadType DEF Is
      <4>2. flash'.usage = flash.usage
        BY <1>1, <2>3, <3>2
      <4>3. QED
        BY <2>1, <2>3, <4>1, <4>2, TailCounts DEF UsageInv
    <3>3. QED
      BY <3>1, <3>2
  <2>4. QED
    BY <1>4, <2>2, <2>3 DEF DoSave
<1>5. CASE DoShow \/ DoUse \/ DoSeeTime
  <2>1. todo # <<>> /\ todo' = Tail(todo) /\ Head(todo).op # "save" /\ UNCHANGED <<flash, on, ticks, faults>>
    BY <1>5 DEF DoShow, DoUse, DoSeeTime, Doing
  <2>2. ram'.usage = ram.usage
    BY <1>1, <1>5, HeadType DEF DoShow, DoUse, DoSeeTime, Doing
  <2>3. ~Is(todo, 1, "save", "usage")
    BY <2>1, HeadType DEF Is
  <2>4. QED
    BY <2>1, <2>2, <2>3, TailCounts DEF UsageInv
<1>6. CASE SntpSync \/ UNCHANGED vars
  BY <1>6 DEF SntpSync, vars, UsageInv
<1>7. CASE Restart
  <2>1. todo' = <<>> /\ ticks' = 0 /\ on' \in BOOLEAN /\ ram' = Loaded(flash) /\ UNCHANGED <<flash, faults>>
    BY <1>7 DEF Restart
  <2>2. ram'.usage = flash.usage
    BY <1>1, <2>1 DEF Loaded
  <2>3. ~Counts(todo') /\ CountsAs(todo', ram'.usage)
    BY <2>1 DEF Counts, CountsAs
  <2>4. ram'.usage - flash'.usage = 0
    BY <1>1, <2>1, <2>2
  <2>5. 0 <= IF on' THEN ticks' % Period ELSE 0
    BY <1>2, <2>1
  <2>6. QED
    BY <2>1, <2>3, <2>4, <2>5 DEF UsageInv
<1>8. QED
  BY <1>3, <1>4, <1>5, <1>6, <1>7 DEF Next

\* A power cut loses at most Period ticks of a relay's daily on-time, for every
\* Period and however relays are switched, unless a save failed.
THEOREM UsageLoss == Spec => []UsageLossBounded
<1>1. Init => UsageInv
  <2> SUFFICES ASSUME Init PROVE UsageInv
    OBVIOUS
  <2>1. ram.usage = 0 /\ flash.usage = 0 /\ todo = <<>> /\ ticks = 0 /\ on \in BOOLEAN
    BY DEF Init, Loaded
  <2>2. ~Counts(todo) /\ CountsAs(todo, ram.usage)
    BY <2>1 DEF Counts, CountsAs
  <2>3. 0 <= IF on THEN ticks % Period ELSE 0
    BY <2>1, BoardAssumption
  <2>4. QED
    BY <2>1, <2>2, <2>3 DEF UsageInv
<1>2. BoardInv /\ BoardInv' /\ UsageInv /\ [Next]_vars => UsageInv'
  BY StepUsageInv
<1>3. BoardInv /\ UsageInv => UsageLossBounded
  <2> SUFFICES ASSUME BoardInv, UsageInv, faults = 0
               PROVE  ram.usage - flash.usage <= Period
    BY DEF UsageLossBounded
  <2>1. ram.usage \in Nat /\ flash.usage \in Nat /\ ticks % Period \in 0..Period - 1 /\ Period \in Nat
    BY BoardAssumption DEF BoardInv, Stored, Keys, Kept, UsageInv
  <2>2. QED
    BY <2>1 DEF UsageInv
<1>4. QED
  BY <1>1, <1>2, <1>3, BoardInvariant, PTL DEF Spec

-----------------------------------------------------------------------------
(***************************************************************************)
(* A restart between messages changes nothing that is in use.  The time    *)
(* zone makes this hard: it comes from two keys, is set by two messages,   *)
(* and a factory reset removes both.  The argument is again about what is  *)
(* left to do: it saves what is in use (Lasting), and a zone is saved      *)
(* before the schedule that brought it and removed after it (Zoned).       *)
(***************************************************************************)

Saves(s, key) == \E i \in DOMAIN s : Is(s, i, "save", key)

Uses(s) == \E j \in DOMAIN s : Is(s, j, "use", "plan")

\* What is in use is in flash or is still to be saved; a schedule is taken into use
\* after it is saved.
Lasting(s, f, r) ==
  /\ \A key \in {"cfg", "zone"} :
       /\ \A i \in DOMAIN s : Is(s, i, "save", key) => s[i].value = r[key]
       /\ Saves(s, key) \/ f[key] = r[key]
  /\ \A j \in DOMAIN s : Is(s, j, "use", "plan") =>
       /\ \A i \in DOMAIN s : Is(s, i, "save", "plan") => i < j /\ s[i].value = s[j].value
       /\ Saves(s, "plan") \/ f["plan"] = s[j].value
  /\ Uses(s) \/ (~Saves(s, "plan") /\ f["plan"] = r["plan"])

\* A schedule with a zone is in flash only with a zone beside it.
Zoned(s, f) ==
  /\ Tz(f["plan"]) # NoZone => f["zone"] # NoZone
  /\ \A i \in DOMAIN s : Is(s, i, "save", "plan") /\ Tz(s[i].value) # NoZone =>
       /\ f["zone"] # NoZone \/ \E j \in DOMAIN s : j < i /\ Is(s, j, "save", "zone")
       /\ \A j \in DOMAIN s : Is(s, j, "save", "zone") => s[j].value # NoZone
  /\ \A i \in DOMAIN s : Is(s, i, "save", "zone") /\ s[i].value = NoZone =>
       Tz(f["plan"]) = NoZone \/ \E j \in DOMAIN s : j < i /\ Is(s, j, "save", "plan")

Reboots(s) == \E i \in DOMAIN s : s[i].op = "reboot"

Keeps(s, f, r) == Zoned(s, f) /\ (Reboots(s) \/ Lasting(s, f, r))

\* The inductive invariant, beside BoardInv.
RestartInv == faults = 0 => Keeps(todo, flash, ram)

-----------------------------------------------------------------------------
(***************************************************************************)
(* Doing the first step.                                                   *)
(***************************************************************************)

\* The steps left after the first, in the words of Is.
LEMMA TailIs ==
  ASSUME NEW s \in Seq(Steps), s # <<>>
  PROVE  /\ \A i \in DOMAIN Tail(s) : i + 1 \in DOMAIN s /\ Tail(s)[i] = s[i + 1] /\ i \in Int
         /\ \A i \in DOMAIN Tail(s) : \A op, key : Is(Tail(s), i, op, key) <=> Is(s, i + 1, op, key)
         /\ \A j \in DOMAIN s : j # 1 => \E i \in DOMAIN Tail(s) : j = i + 1
<1>1. /\ \A i \in DOMAIN Tail(s) : i + 1 \in DOMAIN s /\ Tail(s)[i] = s[i + 1]
      /\ \A j \in DOMAIN s : j # 1 => \E i \in DOMAIN Tail(s) : j = i + 1
      /\ Tail(s) \in Seq(Steps)
  BY TailIndex
<1>2. DOMAIN Tail(s) \subseteq Int
  BY <1>1, LenProperties
<1>3. QED
  BY <1>1, <1>2 DEF Is

\* A restart that is due stays due.
LEMMA TailReboots ==
  ASSUME NEW s \in Seq(Steps), s # <<>>, Head(s).op # "reboot", Reboots(s)
  PROVE  Reboots(Tail(s))
  BY TailIs, TailIndex DEF Reboots

\* f after the first step of s, if it is a save; r after it, if it is a use.
Saved1(s, f, g) == \A key \in Keys : g[key] = IF Is(s, 1, "save", key) THEN s[1].value ELSE f[key]
Used1(s, r, q) ==
  \A key \in {"cfg", "zone", "plan"} : q[key] = IF Is(s, 1, "use", key) THEN s[1].value ELSE r[key]

\* Doing the first step leaves a plan with a zone only beside a zone.
LEMMA TailZoned ==
  ASSUME NEW s \in Seq(Steps), s # <<>>, NEW f, NEW g, Zoned(s, f), Saved1(s, f, g)
  PROVE  Zoned(Tail(s), g)
<1> DEFINE t == Tail(s)
<1>1. 1 \in DOMAIN s /\ DOMAIN s \subseteq Int
  BY TailIndex
<1>2. /\ g["plan"] = IF Is(s, 1, "save", "plan") THEN s[1].value ELSE f["plan"]
      /\ g["zone"] = IF Is(s, 1, "save", "zone") THEN s[1].value ELSE f["zone"]
      /\ ~(Is(s, 1, "save", "plan") /\ Is(s, 1, "save", "zone"))
  BY DEF Saved1, Keys, Is
<1>3. \A j \in DOMAIN s : ~(j < 1)
  BY LenProperties
<1>4. Tz(g["plan"]) # NoZone => g["zone"] # NoZone
  <2>1. CASE Is(s, 1, "save", "plan")
    BY <1>1, <1>2, <1>3, <2>1 DEF Zoned
  <2>2. CASE Is(s, 1, "save", "zone")
    BY <1>1, <1>2, <1>3, <2>2 DEF Zoned
  <2>3. CASE ~Is(s, 1, "save", "plan") /\ ~Is(s, 1, "save", "zone")
    BY <1>2, <2>3 DEF Zoned
  <2>4. QED
    BY <2>1, <2>2, <2>3
<1>5. ASSUME NEW i \in DOMAIN t, Is(t, i, "save", "plan"), Tz(t[i].value) # NoZone
      PROVE  /\ g["zone"] # NoZone \/ \E j \in DOMAIN t : j < i /\ Is(t, j, "save", "zone")
             /\ \A j \in DOMAIN t : Is(t, j, "save", "zone") => t[j].value # NoZone
  <2>1. i \in Int /\ i + 1 \in DOMAIN s /\ Is(s, i + 1, "save", "plan") /\ Tz(s[i + 1].value) # NoZone
    BY <1>5, TailIs
  <2>2. /\ f["zone"] # NoZone \/ \E j \in DOMAIN s : j < i + 1 /\ Is(s, j, "save", "zone")
        /\ \A j \in DOMAIN s : Is(s, j, "save", "zone") => s[j].value # NoZone
    BY <2>1 DEF Zoned
  <2>3. \A j \in DOMAIN t : Is(t, j, "save", "zone") => t[j].value # NoZone
    BY <2>2, TailIs
  <2>4. CASE Is(s, 1, "save", "zone")
    BY <1>1, <1>2, <2>2, <2>3, <2>4
  <2>5. CASE ~Is(s, 1, "save", "zone") /\ f["zone"] # NoZone
    BY <1>2, <2>3, <2>5
  <2>6. CASE ~Is(s, 1, "save", "zone") /\ \E j \in DOMAIN s : j < i + 1 /\ Is(s, j, "save", "zone")
    <3>1. PICK j \in DOMAIN s : j < i + 1 /\ Is(s, j, "save", "zone")
      BY <2>6
    <3>2. PICK k \in DOMAIN t : j = k + 1
      BY <2>6, <3>1, TailIs
    <3>3. k \in Int /\ Is(t, k, "save", "zone") /\ k < i
      <4>1. k \in Int /\ Is(t, k, "save", "zone")
        BY <3>1, <3>2, TailIs
      <4>2. QED
        BY <2>1, <3>1, <3>2, <4>1
    <3>4. QED
      BY <2>3, <3>3
  <2>7. QED
    BY <2>2, <2>4, <2>5, <2>6
<1>6. ASSUME NEW i \in DOMAIN t, Is(t, i, "save", "zone"), t[i].value = NoZone
      PROVE  Tz(g["plan"]) = NoZone \/ \E j \in DOMAIN t : j < i /\ Is(t, j, "save", "plan")
  <2>1. i \in Int /\ i + 1 \in DOMAIN s /\ Is(s, i + 1, "save", "zone") /\ s[i + 1].value = NoZone
    BY <1>6, TailIs
  <2>2. Tz(f["plan"]) = NoZone \/ \E j \in DOMAIN s : j < i + 1 /\ Is(s, j, "save", "plan")
    BY <2>1 DEF Zoned
  <2>3. CASE Is(s, 1, "save", "plan")
    BY <1>1, <1>2, <2>1, <2>3 DEF Zoned
  <2>4. CASE ~Is(s, 1, "save", "plan") /\ Tz(f["plan"]) = NoZone
    BY <1>2, <2>4
  <2>5. CASE ~Is(s, 1, "save", "plan") /\ \E j \in DOMAIN s : j < i + 1 /\ Is(s, j, "save", "plan")
    <3>1. PICK j \in DOMAIN s : j < i + 1 /\ Is(s, j, "save", "plan")
      BY <2>5
    <3>2. PICK k \in DOMAIN t : j = k + 1
      BY <2>5, <3>1, TailIs
    <3>3. k \in Int /\ Is(t, k, "save", "plan")
      BY <3>1, <3>2, TailIs
    <3>4. k < i
      BY <2>1, <3>1, <3>2, <3>3
    <3>5. QED
      BY <3>3, <3>4
  <2>6. QED
    BY <2>2, <2>3, <2>4, <2>5
<1>7. QED
  BY <1>4, <1>5, <1>6 DEF Zoned

\* What is in use stays in flash or still to be saved.
LEMMA TailKey ==
  ASSUME NEW s \in Seq(Steps), s # <<>>, NEW f, NEW g, NEW r, NEW q,
         Saved1(s, f, g), NEW key \in {"cfg", "zone"}, q[key] = r[key],
         \A i \in DOMAIN s : Is(s, i, "save", key) => s[i].value = r[key],
         Saves(s, key) \/ f[key] = r[key]
  PROVE  /\ \A i \in DOMAIN Tail(s) : Is(Tail(s), i, "save", key) => Tail(s)[i].value = q[key]
         /\ Saves(Tail(s), key) \/ g[key] = q[key]
<1>1. \A i \in DOMAIN Tail(s) : Is(Tail(s), i, "save", key) => Tail(s)[i].value = q[key]
  BY TailIs
<1>2. g[key] = IF Is(s, 1, "save", key) THEN s[1].value ELSE f[key]
  BY DEF Saved1, Keys
<1>3. CASE Is(s, 1, "save", key)
  BY <1>1, <1>2, <1>3, TailIndex
<1>4. CASE ~Is(s, 1, "save", key)
  BY <1>1, <1>2, <1>4, TailIs DEF Saves
<1>5. QED
  BY <1>3, <1>4

\* Taking a step leaves those that bring flash and memory together.
LEMMA TailLasting ==
  ASSUME NEW s \in Seq(Steps), s # <<>>, NEW f, NEW g, NEW r, NEW q,
         Lasting(s, f, r), Saved1(s, f, g), Used1(s, r, q)
  PROVE  Lasting(Tail(s), g, q)
<1> DEFINE t == Tail(s)
<1>1. \A x \in Steps : x.op = "use" => x.key = "plan"
  BY DEF Steps
<1>2. s[1] \in Steps /\ 1 \in DOMAIN s
  BY TailIndex, ElementOfSeq, LenProperties
<1>3. /\ q["cfg"] = r["cfg"]
      /\ q["zone"] = r["zone"]
      /\ q["plan"] = IF Is(s, 1, "use", "plan") THEN s[1].value ELSE r["plan"]
      /\ g["plan"] = IF Is(s, 1, "save", "plan") THEN s[1].value ELSE f["plan"]
  BY <1>1, <1>2 DEF Used1, Saved1, Is, Keys
<1>4. \A key \in {"cfg", "zone"} :
        /\ \A i \in DOMAIN t : Is(t, i, "save", key) => t[i].value = q[key]
        /\ Saves(t, key) \/ g[key] = q[key]
  <2>1. \A key \in {"cfg", "zone"} : q[key] = r[key]
    BY <1>3
  <2>2. QED
    BY <2>1, TailKey DEF Lasting
<1>5. ASSUME NEW j \in DOMAIN t, Is(t, j, "use", "plan")
      PROVE  /\ \A i \in DOMAIN t : Is(t, i, "save", "plan") => i < j /\ t[i].value = t[j].value
             /\ Saves(t, "plan") \/ g["plan"] = t[j].value
  <2>1. j \in Int /\ j + 1 \in DOMAIN s /\ Is(s, j + 1, "use", "plan") /\ t[j] = s[j + 1]
    BY <1>5, TailIs
  <2>2. /\ \A i \in DOMAIN s : Is(s, i, "save", "plan") => i < j + 1 /\ s[i].value = s[j + 1].value
        /\ Saves(s, "plan") \/ f["plan"] = s[j + 1].value
    BY <2>1 DEF Lasting
  <2>3. ASSUME NEW i \in DOMAIN t, Is(t, i, "save", "plan")
        PROVE  i < j /\ t[i].value = t[j].value
    <3>1. i \in Int /\ i + 1 \in DOMAIN s /\ Is(s, i + 1, "save", "plan") /\ t[i] = s[i + 1]
      BY <2>3, TailIs
    <3>2. i + 1 < j + 1 /\ s[i + 1].value = s[j + 1].value
      BY <2>2, <3>1
    <3>3. QED
      BY <2>1, <3>1, <3>2
  <2>4. Saves(t, "plan") \/ g["plan"] = t[j].value
    <3>1. CASE Is(s, 1, "save", "plan")
      BY <1>2, <1>3, <2>1, <2>2, <3>1
    <3>2. CASE ~Is(s, 1, "save", "plan")
      BY <1>3, <2>1, <2>2, <3>2, TailIs DEF Saves
    <3>3. QED
      BY <3>1, <3>2
  <2>5. QED
    BY <2>3, <2>4
<1>6. Uses(t) \/ (~Saves(t, "plan") /\ g["plan"] = q["plan"])
  <2>1. Saves(t, "plan") => Saves(s, "plan")
    BY TailIs DEF Saves
  <2>2. CASE Is(s, 1, "use", "plan")
    <3>1. ~Saves(s, "plan")
      BY <1>2, <2>2, LenProperties DEF Lasting, Saves
    <3>2. f["plan"] = s[1].value
      BY <1>2, <2>2, <3>1 DEF Lasting
    <3>3. QED
      BY <1>3, <2>1, <2>2, <3>1, <3>2 DEF Is
  <2>3. CASE ~Is(s, 1, "use", "plan") /\ Uses(s)
    BY <2>3, TailIs DEF Uses
  <2>4. CASE ~Is(s, 1, "use", "plan") /\ ~Uses(s)
    <3>1. ~Saves(s, "plan") /\ f["plan"] = r["plan"]
      BY <2>4 DEF Lasting
    <3>2. QED
      BY <1>2, <1>3, <2>1, <2>4, <3>1 DEF Saves
  <2>5. QED
    BY <2>2, <2>3, <2>4
<1>7. QED
  BY <1>4, <1>5, <1>6 DEF Lasting

-----------------------------------------------------------------------------
(***************************************************************************)
(* The steps of a message among others that neither save a setting nor use *)
(* a schedule: t is s with such steps before and after, n places later.    *)
(***************************************************************************)
Idle(x) == ~(x.op = "save" /\ x.key \in {"cfg", "zone", "plan"}) /\ x.op \notin {"use", "reboot"}

Within(s, t, n) ==
  /\ DOMAIN s \subseteq Int /\ DOMAIN t \subseteq Int
  /\ \A i \in DOMAIN s : i + n \in DOMAIN t /\ t[i + n] = s[i]
  /\ \A k \in DOMAIN t : Idle(t[k]) \/ \E i \in DOMAIN s : k = i + n

\* Steps that are within others are found there, and nothing else of their keys.
LEMMA WithinIs ==
  ASSUME NEW s, NEW t, NEW n \in Int, Within(s, t, n),
         NEW op, NEW key, <<op, key>> \in {<<"save", "cfg">>, <<"save", "zone">>,
                                           <<"save", "plan">>, <<"use", "plan">>}
  PROVE  /\ \A i \in DOMAIN s : Is(s, i, op, key) => Is(t, i + n, op, key)
         /\ \A k \in DOMAIN t : Is(t, k, op, key) => \E i \in DOMAIN s : k = i + n /\ Is(s, i, op, key)
<1>1. \A i \in DOMAIN s : Is(s, i, op, key) => Is(t, i + n, op, key)
  BY DEF Within, Is
<1>2. op \in {"save", "use"} /\ key \in {"cfg", "zone", "plan"}
  OBVIOUS
<1>3. \A x : Idle(x) => ~(x.op = op /\ x.key = key)
  BY <1>2 DEF Idle
<1>4. \A k \in DOMAIN t : Is(t, k, op, key) => \E i \in DOMAIN s : k = i + n /\ Is(s, i, op, key)
  BY <1>3 DEF Within, Is
<1>5. QED
  BY <1>1, <1>4

\* Zone and plan stay in order within other steps.
LEMMA WithinZoned ==
  ASSUME NEW s, NEW t, NEW n \in Int, Within(s, t, n), NEW f, Zoned(s, f)
  PROVE  Zoned(t, f)
<1>1. ASSUME NEW k \in DOMAIN t, Is(t, k, "save", "plan"), Tz(t[k].value) # NoZone
      PROVE  /\ f["zone"] # NoZone \/ \E j \in DOMAIN t : j < k /\ Is(t, j, "save", "zone")
             /\ \A j \in DOMAIN t : Is(t, j, "save", "zone") => t[j].value # NoZone
  <2>1. PICK i \in DOMAIN s : k = i + n /\ Is(s, i, "save", "plan")
    BY <1>1, WithinIs
  <2>2. /\ f["zone"] # NoZone \/ \E j \in DOMAIN s : j < i /\ Is(s, j, "save", "zone")
        /\ \A j \in DOMAIN s : Is(s, j, "save", "zone") => s[j].value # NoZone
    BY <1>1, <2>1 DEF Zoned, Within
  <2>3. \A j \in DOMAIN t : Is(t, j, "save", "zone") => t[j].value # NoZone
    <3>1. \A j \in DOMAIN t : Is(t, j, "save", "zone") =>
            \E m \in DOMAIN s : j = m + n /\ Is(s, m, "save", "zone")
      BY WithinIs
    <3>2. QED
      BY <2>2, <3>1 DEF Within
  <2>4. ASSUME NEW j \in DOMAIN s, j < i, Is(s, j, "save", "zone")
        PROVE  j + n \in DOMAIN t /\ j + n < k /\ Is(t, j + n, "save", "zone")
    <3>1. i \in Int /\ j \in Int /\ j + n \in DOMAIN t
      BY DEF Within
    <3>2. Is(t, j + n, "save", "zone")
      BY <2>4, WithinIs
    <3>3. QED
      BY <2>1, <2>4, <3>1, <3>2
  <2>5. QED
    BY <2>2, <2>3, <2>4
<1>2. ASSUME NEW k \in DOMAIN t, Is(t, k, "save", "zone"), t[k].value = NoZone
      PROVE  Tz(f["plan"]) = NoZone \/ \E j \in DOMAIN t : j < k /\ Is(t, j, "save", "plan")
  <2>1. PICK i \in DOMAIN s : k = i + n /\ Is(s, i, "save", "zone")
    BY <1>2, WithinIs
  <2>2. Tz(f["plan"]) = NoZone \/ \E j \in DOMAIN s : j < i /\ Is(s, j, "save", "plan")
    BY <1>2, <2>1 DEF Zoned, Within
  <2>3. ASSUME NEW j \in DOMAIN s, j < i, Is(s, j, "save", "plan")
        PROVE  j + n \in DOMAIN t /\ j + n < k /\ Is(t, j + n, "save", "plan")
    <3>1. i \in Int /\ j \in Int /\ j + n \in DOMAIN t
      BY DEF Within
    <3>2. Is(t, j + n, "save", "plan")
      BY <2>3, WithinIs
    <3>3. QED
      BY <2>1, <2>3, <3>1, <3>2
  <2>4. QED
    BY <2>2, <2>3
<1>3. QED
  BY <1>1, <1>2 DEF Zoned

\* What is brought together stays so within other steps.
LEMMA WithinLasting ==
  ASSUME NEW s, NEW t, NEW n \in Int, Within(s, t, n), NEW f, NEW r, Lasting(s, f, r)
  PROVE  Lasting(t, f, r)
<1>1. \A key \in {"cfg", "zone"} :
        /\ \A k \in DOMAIN t : Is(t, k, "save", key) => t[k].value = r[key]
        /\ Saves(t, key) \/ f[key] = r[key]
  <2> SUFFICES ASSUME NEW key \in {"cfg", "zone"}
               PROVE  /\ \A k \in DOMAIN t : Is(t, k, "save", key) => t[k].value = r[key]
                      /\ Saves(t, key) \/ f[key] = r[key]
    OBVIOUS
  <2>1. \A k \in DOMAIN t : Is(t, k, "save", key) => \E i \in DOMAIN s : k = i + n /\ Is(s, i, "save", key)
    BY WithinIs
  <2>2. Saves(s, key) => Saves(t, key)
    <3>1. \A i \in DOMAIN s : Is(s, i, "save", key) => Is(t, i + n, "save", key)
      BY WithinIs
    <3>2. QED
      BY <3>1 DEF Saves, Within
  <2>3. QED
    BY <2>1, <2>2 DEF Lasting, Within
<1>2. Saves(s, "plan") <=> Saves(t, "plan")
  BY WithinIs DEF Saves, Within
<1>3. Uses(s) => Uses(t)
  BY WithinIs DEF Uses, Within
<1>4. ASSUME NEW k \in DOMAIN t, Is(t, k, "use", "plan")
      PROVE  /\ \A m \in DOMAIN t : Is(t, m, "save", "plan") => m < k /\ t[m].value = t[k].value
             /\ Saves(t, "plan") \/ f["plan"] = t[k].value
  <2>1. PICK j \in DOMAIN s : k = j + n /\ Is(s, j, "use", "plan")
    BY <1>4, WithinIs
  <2>2. t[k] = s[j] /\ j \in Int
    BY <2>1 DEF Within
  <2>3. /\ \A i \in DOMAIN s : Is(s, i, "save", "plan") => i < j /\ s[i].value = s[j].value
        /\ Saves(s, "plan") \/ f["plan"] = s[j].value
    BY <2>1 DEF Lasting
  <2>4. ASSUME NEW m \in DOMAIN t, Is(t, m, "save", "plan")
        PROVE  m < k /\ t[m].value = t[k].value
    <3>1. PICK i \in DOMAIN s : m = i + n /\ Is(s, i, "save", "plan")
      BY <2>4, WithinIs
    <3>2. t[m] = s[i] /\ i \in Int
      BY <3>1 DEF Within
    <3>3. i < j /\ s[i].value = s[j].value
      BY <2>3, <3>1
    <3>4. QED
      BY <2>1, <2>2, <3>1, <3>2, <3>3
  <2>5. QED
    BY <1>2, <2>2, <2>3, <2>4
<1>5. QED
  BY <1>1, <1>2, <1>3, <1>4 DEF Lasting

\* A restart that is due is due within other steps.
LEMMA WithinReboots ==
  ASSUME NEW s, NEW t, NEW n \in Int, Within(s, t, n), Reboots(s)
  PROVE  Reboots(t)
  BY DEF Within, Reboots

\* What the steps keep they keep within others.
LEMMA WithinKeeps ==
  ASSUME NEW s, NEW t, NEW n \in Int, Within(s, t, n), NEW f, NEW r, Keeps(s, f, r)
  PROVE  Keeps(t, f, r)
  BY WithinZoned, WithinLasting, WithinReboots DEF Keeps

AllIdle(a) == a \in Seq(Steps) /\ \A i \in DOMAIN a : Idle(a[i])

\* Steps without a setting may come before.
LEMMA KeepsBefore ==
  ASSUME NEW a, AllIdle(a), NEW s \in Seq(Steps), NEW f, NEW r, Keeps(s, f, r)
  PROVE  Keeps(a \o s, f, r)
<1>1. a \in Seq(Steps)
  BY DEF AllIdle
<1>2. /\ Len(a) \in Nat /\ Len(s) \in Nat
      /\ DOMAIN a = 1..Len(a) /\ DOMAIN s = 1..Len(s) /\ DOMAIN (a \o s) = 1..Len(a) + Len(s)
  BY <1>1, ConcatProperties, LenProperties
<1>3. \A k \in 1..Len(a) + Len(s) :
        (a \o s)[k] = IF k <= Len(a) THEN a[k] ELSE s[k - Len(a)]
  BY <1>1, ConcatProperties
<1>4. \A i \in DOMAIN s : i + Len(a) \in DOMAIN (a \o s) /\ (a \o s)[i + Len(a)] = s[i]
  BY <1>2, <1>3
<1>5. ASSUME NEW k \in DOMAIN (a \o s)
      PROVE  Idle((a \o s)[k]) \/ \E i \in DOMAIN s : k = i + Len(a)
  <2>1. CASE k <= Len(a)
    <3>1. k \in DOMAIN a /\ (a \o s)[k] = a[k]
      BY <1>2, <1>3, <2>1
    <3>2. QED
      BY <3>1 DEF AllIdle
  <2>2. CASE ~(k <= Len(a))
    <3>1. k - Len(a) \in DOMAIN s /\ k = (k - Len(a)) + Len(a)
      BY <1>2, <2>2
    <3>2. QED
      BY <3>1
  <2>3. QED
    BY <2>1, <2>2
<1>6. DOMAIN s \subseteq Int /\ DOMAIN (a \o s) \subseteq Int /\ Len(a) \in Int
  BY <1>2
<1>7. Within(s, a \o s, Len(a))
  BY <1>4, <1>5, <1>6 DEF Within
<1>8. QED
  BY <1>6, <1>7, WithinKeeps

\* Steps without a setting may come after.
LEMMA KeepsAfter ==
  ASSUME NEW a, AllIdle(a), NEW s \in Seq(Steps), NEW f, NEW r, Keeps(s, f, r)
  PROVE  Keeps(s \o a, f, r)
<1>1. a \in Seq(Steps)
  BY DEF AllIdle
<1>2. /\ Len(a) \in Nat /\ Len(s) \in Nat
      /\ DOMAIN a = 1..Len(a) /\ DOMAIN s = 1..Len(s) /\ DOMAIN (s \o a) = 1..Len(s) + Len(a)
  BY <1>1, ConcatProperties, LenProperties
<1>3. \A k \in 1..Len(s) + Len(a) :
        (s \o a)[k] = IF k <= Len(s) THEN s[k] ELSE a[k - Len(s)]
  BY <1>1, ConcatProperties
<1> PICK n \in Int : n = 0
  OBVIOUS
<1>4. \A i \in DOMAIN s : i + n \in DOMAIN (s \o a) /\ (s \o a)[i + n] = s[i]
  BY <1>2, <1>3
<1>5. ASSUME NEW k \in DOMAIN (s \o a)
      PROVE  Idle((s \o a)[k]) \/ \E i \in DOMAIN s : k = i + n
  <2>1. CASE k <= Len(s)
    BY <1>2, <2>1
  <2>2. CASE ~(k <= Len(s))
    <3>1. k - Len(s) \in DOMAIN a /\ (s \o a)[k] = a[k - Len(s)]
      BY <1>2, <1>3, <2>2
    <3>2. QED
      BY <3>1 DEF AllIdle
  <2>3. QED
    BY <2>1, <2>2
<1>6. DOMAIN s \subseteq Int /\ DOMAIN (s \o a) \subseteq Int
  BY <1>2
<1>7. Within(s, s \o a, n)
  BY <1>4, <1>5, <1>6 DEF Within
<1>8. QED
  BY <1>7, WithinKeeps

\* Saves of usage and the first valid time touch no setting.
LEMMA IdleSteps ==
  AllIdle(<<>>) /\ AllIdle(<<SeeTime>>) /\ \A u \in Nat : AllIdle(<<Save("usage", u)>>)
<1>1. /\ <<>> \in Seq(Steps) /\ <<SeeTime>> \in Seq(Steps)
      /\ \A u \in Nat : <<Save("usage", u)>> \in Seq(Steps)
  BY NeutralSteps DEF Neutral
<1>2. Idle(SeeTime) /\ \A u \in Nat : Idle(Save("usage", u))
  BY DEF Idle, SeeTime, Save
<1>3. QED
  BY <1>1, <1>2 DEF AllIdle

\* The counters between the steps of a message change nothing.
LEMMA HandleKeeps ==
  ASSUME NEW steps \in Seq(Steps), NEW is, NEW periodic, NEW usage \in Nat,
         NEW rest \in Seq(Steps), Handle(steps, is, periodic, usage, rest),
         NEW f, NEW r,
         \/ Keeps(steps, f, r) /\ rest = <<>>
         \/ AllIdle(steps) /\ Keeps(rest, f, r)
  PROVE  Keeps(todo', f, r)
<1> DEFINE U == IF UsageDue(periodic, on, is) THEN <<Save("usage", usage)>> ELSE <<>>
<1>1. todo' = (steps \o U) \o rest
  BY DEF Handle
<1>2. AllIdle(U)
  BY IdleSteps
<1> HIDE DEF U
<1>3. U \in Seq(Steps)
  BY <1>2 DEF AllIdle
<1>4. CASE Keeps(steps, f, r) /\ rest = <<>>
  <2>1. Keeps(steps \o U, f, r) /\ steps \o U \in Seq(Steps)
    BY <1>2, <1>3, <1>4, KeepsAfter, ConcatProperties
  <2>2. Keeps((steps \o U) \o <<>>, f, r)
    BY <2>1, KeepsAfter, IdleSteps
  <2>3. QED
    BY <1>1, <1>4, <2>2
<1>5. CASE AllIdle(steps) /\ Keeps(rest, f, r)
  <2>1. Keeps(U \o rest, f, r) /\ U \o rest \in Seq(Steps)
    BY <1>2, <1>3, <1>5, KeepsBefore, ConcatProperties
  <2>2. Keeps(steps \o (U \o rest), f, r)
    BY <1>5, <2>1, KeepsBefore
  <2>3. (steps \o U) \o rest = steps \o (U \o rest)
    BY <1>3, ConcatAssociative
  <2>4. QED
    BY <1>1, <2>2, <2>3
<1>6. QED
  BY <1>4, <1>5

-----------------------------------------------------------------------------
(***************************************************************************)
(* The steps of every message, when what is in use is in flash.            *)
(***************************************************************************)
LEMMA NothingKeeps ==
  ASSUME NEW f, NEW r, f["cfg"] = r["cfg"], f["zone"] = r["zone"], f["plan"] = r["plan"],
         Tz(f["plan"]) # NoZone => f["zone"] # NoZone
  PROVE  Keeps(<<>>, f, r)
<1>1. \A i \in DOMAIN <<>> : FALSE
  OBVIOUS
<1>2. QED
  BY <1>1 DEF Keeps, Zoned, Lasting, Saves, Uses

\* A setting whose steps are left is kept.
LEMMA SettingKeeps ==
  ASSUME NEW c \in Configs, NEW f, NEW r, r["cfg"] = c, f["zone"] = r["zone"], f["plan"] = r["plan"],
         Tz(f["plan"]) # NoZone => f["zone"] # NoZone
  PROVE  Keeps(SettingSteps(c), f, r)
<1> DEFINE s == SettingSteps(c)
<1>1. DOMAIN s = {1, 2} /\ s[1] = Save("cfg", c) /\ s[2] = Show("cfg", c)
  BY DEF SettingSteps
<1> HIDE DEF s
<1>2. Is(s, 1, "save", "cfg") /\ s[1].value = c
  BY <1>1 DEF Is, Save
<1>3. \A i \in DOMAIN s :
        /\ ~Is(s, i, "save", "zone") /\ ~Is(s, i, "save", "plan")
        /\ ~Is(s, i, "use", "plan")
        /\ Is(s, i, "save", "cfg") => s[i].value = c
  BY <1>1 DEF Is, Save, Show
<1>4. Keeps(s, f, r)
  BY <1>1, <1>2, <1>3 DEF Keeps, Zoned, Lasting, Saves, Uses
<1>5. QED
  BY <1>4 DEF s

\* A zone whose save is left is kept.
LEMMA ZoneKeeps ==
  ASSUME NEW z \in Zones, NEW f, NEW r, r["zone"] = z, f["cfg"] = r["cfg"], f["plan"] = r["plan"],
         Tz(f["plan"]) # NoZone => f["zone"] # NoZone
  PROVE  Keeps(<<Save("zone", z)>>, f, r)
<1> DEFINE s == <<Save("zone", z)>>
<1>1. DOMAIN s = {1} /\ s[1] = Save("zone", z)
  OBVIOUS
<1> HIDE DEF s
<1>2. z # NoZone
  BY BoardAssumption
<1>3. Is(s, 1, "save", "zone") /\ s[1].value = z
  BY <1>1 DEF Is, Save
<1>4. \A i \in DOMAIN s :
        /\ ~Is(s, i, "save", "cfg") /\ ~Is(s, i, "save", "plan")
        /\ ~Is(s, i, "use", "plan")
        /\ s[i].value = z
  BY <1>1 DEF Is, Save
<1>5. Keeps(s, f, r)
  BY <1>1, <1>2, <1>3, <1>4 DEF Keeps, Zoned, Lasting, Saves, Uses
<1>6. QED
  BY <1>5 DEF s

\* A schedule whose zone, if it has one, is in use already.
LEMMA PlanKeeps ==
  ASSUME NEW p \in Plans, NEW f, NEW r, f["cfg"] = r["cfg"], f["zone"] = r["zone"],
         Tz(f["plan"]) # NoZone => f["zone"] # NoZone,
         Tz(p) # NoZone => f["zone"] # NoZone
  PROVE  Keeps(<<Save("plan", p), Use("plan", p), Show("plan", p)>>, f, r)
<1> DEFINE s == <<Save("plan", p), Use("plan", p), Show("plan", p)>>
<1>1. DOMAIN s = {1, 2, 3} /\ s[1] = Save("plan", p) /\ s[2] = Use("plan", p) /\ s[3] = Show("plan", p)
  OBVIOUS
<1> HIDE DEF s
<1>2. Is(s, 1, "save", "plan") /\ Is(s, 2, "use", "plan") /\ \A i \in DOMAIN s : s[i].value = p
  BY <1>1 DEF Is, Save, Use, Show
<1>3. \A i \in DOMAIN s :
        /\ ~Is(s, i, "save", "cfg") /\ ~Is(s, i, "save", "zone")
        /\ Is(s, i, "save", "plan") => i = 1
        /\ Is(s, i, "use", "plan") => i = 2
  BY <1>1 DEF Is, Save, Use, Show
<1>4. Zoned(s, f)
  BY <1>2, <1>3 DEF Zoned
<1>5. Lasting(s, f, r)
  <2>1. Saves(s, "plan") /\ Uses(s) /\ ~Saves(s, "cfg") /\ ~Saves(s, "zone")
    BY <1>1, <1>2, <1>3 DEF Saves, Uses
  <2>2. \A i, j \in DOMAIN s : Is(s, i, "save", "plan") /\ Is(s, j, "use", "plan") => i < j
    BY <1>3
  <2>3. QED
    BY <1>2, <1>3, <2>1, <2>2 DEF Lasting
<1>6. QED
  BY <1>4, <1>5 DEF Keeps, s

\* A schedule that brings a zone: the zone is saved before it.
LEMMA ZonePlanKeeps ==
  ASSUME NEW p \in Plans, NEW f, NEW r, f["cfg"] = r["cfg"], r["zone"] = Tz(p), Tz(p) # NoZone,
         Tz(f["plan"]) # NoZone => f["zone"] # NoZone
  PROVE  Keeps(<<Save("zone", Tz(p))>> \o <<Save("plan", p), Use("plan", p), Show("plan", p)>>, f, r)
<1> DEFINE s == <<Save("zone", Tz(p)), Save("plan", p), Use("plan", p), Show("plan", p)>>
<1>1. /\ DOMAIN s = {1, 2, 3, 4} /\ s[1] = Save("zone", Tz(p)) /\ s[2] = Save("plan", p)
      /\ s[3] = Use("plan", p) /\ s[4] = Show("plan", p)
  OBVIOUS
<1>2. s = <<Save("zone", Tz(p))>> \o <<Save("plan", p), Use("plan", p), Show("plan", p)>>
  OBVIOUS
<1> HIDE DEF s
<1>3. /\ Is(s, 1, "save", "zone") /\ Is(s, 2, "save", "plan") /\ Is(s, 3, "use", "plan")
      /\ s[1].value = Tz(p) /\ s[2].value = p /\ s[3].value = p
  BY <1>1 DEF Is, Save, Use
<1>4. \A i \in DOMAIN s :
        /\ ~Is(s, i, "save", "cfg")
        /\ Is(s, i, "save", "zone") => i = 1
        /\ Is(s, i, "save", "plan") => i = 2
        /\ Is(s, i, "use", "plan") => i = 3
  BY <1>1 DEF Is, Save, Use, Show
<1>5. Zoned(s, f)
  <2>1. \A i \in DOMAIN s : Is(s, i, "save", "plan") => \E j \in DOMAIN s : j < i /\ Is(s, j, "save", "zone")
    BY <1>1, <1>3, <1>4
  <2>2. \A j \in DOMAIN s : Is(s, j, "save", "zone") => s[j].value # NoZone
    BY <1>3, <1>4
  <2>3. QED
    BY <2>1, <2>2 DEF Zoned
<1>6. Lasting(s, f, r)
  <2>1. Saves(s, "plan") /\ Uses(s) /\ ~Saves(s, "cfg") /\ Saves(s, "zone")
    BY <1>1, <1>3, <1>4 DEF Saves, Uses
  <2>2. \A i, j \in DOMAIN s : Is(s, i, "save", "plan") /\ Is(s, j, "use", "plan") =>
          i < j /\ s[i].value = s[j].value
    BY <1>3, <1>4
  <2>3. \A i \in DOMAIN s : Is(s, i, "save", "zone") => s[i].value = r["zone"]
    BY <1>3, <1>4
  <2>4. QED
    BY <1>4, <2>1, <2>2, <2>3 DEF Lasting
<1>7. QED
  BY <1>2, <1>5, <1>6 DEF Keeps

\* A reset removes the zone after the schedule.
LEMMA ResetKeeps ==
  ASSUME NEW f, NEW r, Tz(f["plan"]) # NoZone => f["zone"] # NoZone
  PROVE  Keeps(<<Save("cfg", DefaultConfig), Save("plan", NoPlan), Save("zone", NoZone), Reboot>>, f, r)
<1> DEFINE s == <<Save("cfg", DefaultConfig), Save("plan", NoPlan), Save("zone", NoZone), Reboot>>
<1>1. /\ DOMAIN s = {1, 2, 3, 4}
      /\ s[1] = Save("cfg", DefaultConfig) /\ s[2] = Save("plan", NoPlan)
      /\ s[3] = Save("zone", NoZone) /\ s[4] = Reboot
  OBVIOUS
<1> HIDE DEF s
<1>2. Is(s, 2, "save", "plan") /\ s[2].value = NoPlan /\ Reboots(s)
  BY <1>1 DEF Is, Save, Reboot, Reboots
<1>3. \A i \in DOMAIN s :
        /\ Is(s, i, "save", "zone") => i = 3
        /\ Is(s, i, "save", "plan") => i = 2
  BY <1>1 DEF Is, Save, Reboot
<1>4. Zoned(s, f)
  <2>1. \A i \in DOMAIN s : Is(s, i, "save", "plan") => Tz(s[i].value) = NoZone
    BY <1>2, <1>3, BoardAssumption
  <2>2. \A i \in DOMAIN s : Is(s, i, "save", "zone") => \E j \in DOMAIN s : j < i /\ Is(s, j, "save", "plan")
    BY <1>1, <1>2, <1>3
  <2>3. QED
    BY <2>1, <2>2 DEF Zoned
<1>5. QED
  BY <1>2, <1>4 DEF Keeps, s

-----------------------------------------------------------------------------
(***************************************************************************)
(* The invariant is inductive.                                             *)
(***************************************************************************)

\* Between messages what is in use is in flash.
LEMMA BetweenMessages ==
  ASSUME BoardInv, todo = <<>>, Keeps(todo, flash, ram)
  PROVE  /\ flash["cfg"] = ram["cfg"] /\ flash["zone"] = ram["zone"] /\ flash["plan"] = ram["plan"]
         /\ Tz(flash["plan"]) # NoZone => flash["zone"] # NoZone
<1>1. \A i \in DOMAIN todo : FALSE
  OBVIOUS
<1>2. Lasting(todo, flash, ram)
  BY <1>1 DEF Keeps, Reboots
<1>3. \A key \in {"cfg", "zone"} : flash[key] = ram[key]
  BY <1>1, <1>2 DEF Lasting, Saves
<1>4. QED
  BY <1>1, <1>2, <1>3 DEF Keeps, Zoned, Lasting, Uses

\* Each message queues the steps that keep what it changed.
LEMMA MessageKeeps ==
  ASSUME BoardInv, Message, Keeps(todo, flash, ram)
  PROVE  Keeps(todo', flash, ram')
<1>1. todo = <<>>
  BY MessageReady
<1>2. /\ flash["cfg"] = ram["cfg"] /\ flash["zone"] = ram["zone"] /\ flash["plan"] = ram["plan"]
      /\ Tz(flash["plan"]) # NoZone => flash["zone"] # NoZone
  BY <1>1, BetweenMessages
<1>3. /\ ram \in [Keys -> AnyValue] /\ ram.usage \in Nat
      /\ "cfg" \in Keys /\ "zone" \in Keys /\ "plan" \in Keys
  BY DEF BoardInv, Stored, Keys, Kept
<1>4. <<>> \in Seq(Steps) /\ <<SeeTime>> \in Seq(Steps)
  BY NeutralSteps DEF Neutral
<1>5. ASSUME NEW c \in Configs, NEW is \in BOOLEAN, Setting(c, is)
      PROVE  Keeps(todo', flash, ram')
  <2>1. ram'["cfg"] = c /\ ram'["zone"] = ram["zone"] /\ ram'["plan"] = ram["plan"]
    BY <1>3, <1>5 DEF Setting
  <2>2. Keeps(SettingSteps(c), flash, ram')
    BY <1>2, <2>1, SettingKeeps
  <2>3. SettingSteps(c) \in Seq(Steps)
    BY SettingReady DEF Ready, Tidy
  <2>4. Handle(SettingSteps(c), is, FALSE, ram.usage, <<>>)
    BY <1>5 DEF Setting
  <2>5. QED
    BY <1>3, <1>4, <2>2, <2>3, <2>4, HandleKeeps
<1>6. ASSUME NEW c \in Configs, NEW is \in BOOLEAN, Tick(c, is)
      PROVE  Keeps(todo', flash, ram')
  <2> DEFINE onTime == ram.usage + (IF on THEN 1 ELSE 0)
             rest == HoldSteps(c)
  <2>1. onTime \in Nat
    BY <1>3
  <2>2. /\ Handle(<<SeeTime>>, is, ticks' % Period = 0, onTime, rest)
        /\ ram' = [ram EXCEPT !.usage = onTime, !.cfg = c]
    BY <1>6 DEF Tick
  <2>3. ram'["cfg"] = c /\ ram'["zone"] = ram["zone"] /\ ram'["plan"] = ram["plan"]
    BY <1>3, <2>2
  <2>4. rest \in Seq(Steps)
    BY HoldReady
  <2>5. Keeps(rest, flash, ram')
    BY <1>2, <2>3, SettingKeeps, NothingKeeps DEF HoldSteps
  <2> HIDE DEF onTime, rest
  <2>6. QED
    BY <1>4, <2>1, <2>2, <2>4, <2>5, HandleKeeps, IdleSteps
<1>7. ASSUME NEW p \in Plans, NEW is \in BOOLEAN, SetSchedule(p, is)
      PROVE  Keeps(todo', flash, ram')
  <2> DEFINE q == <<Save("plan", p), Use("plan", p), Show("plan", p)>>
  <2>1. /\ ram'["cfg"] = ram["cfg"] /\ ram'["zone"] = ZoneAfter(Tz(p)) /\ ram'["plan"] = ram["plan"]
        /\ Tz(p) \in Zones \cup {NoZone}
    BY <1>3, <1>7, BoardAssumption DEF SetSchedule
  <2>2. PlanSteps(p) \in Seq(Steps)
    BY <2>1, ZoneReady, PlanReady, NeutralBefore DEF PlanSteps, Ready, Tidy
  <2>3. CASE ZoneChanges(Tz(p))
    <3>1. PlanSteps(p) = <<Save("zone", Tz(p))>> \o q
      BY <2>3 DEF PlanSteps, ZoneSteps
    <3>2. Keeps(PlanSteps(p), flash, ram')
      BY <1>2, <2>1, <2>3, <3>1, ZonePlanKeeps DEF ZoneAfter, ZoneChanges
    <3>3. QED
      BY <1>3, <1>4, <1>7, <2>2, <3>2, HandleKeeps DEF SetSchedule
  <2>4. CASE ~ZoneChanges(Tz(p))
    <3>1. PlanSteps(p) = q
      BY <2>4, PlanReady DEF PlanSteps, ZoneSteps, Ready, Tidy
    <3>2. Tz(p) = NoZone \/ Tz(p) = ram["zone"]
      BY <2>4 DEF ZoneChanges
    <3>3. Keeps(PlanSteps(p), flash, ram')
      BY <1>2, <2>1, <2>4, <3>1, <3>2, PlanKeeps DEF ZoneAfter
    <3>4. QED
      BY <1>3, <1>4, <1>7, <2>2, <3>3, HandleKeeps DEF SetSchedule
  <2>5. QED
    BY <2>3, <2>4
<1>8. ASSUME NEW z \in Zones \cup {NoZone}, NEW is \in BOOLEAN, HaTime(z, is)
      PROVE  Keeps(todo', flash, ram')
  <2>1. ram'["cfg"] = ram["cfg"] /\ ram'["zone"] = ZoneAfter(z) /\ ram'["plan"] = ram["plan"]
    BY <1>3, <1>8 DEF HaTime
  <2>2. Keeps(ZoneSteps(z), flash, ram')
    <3>1. CASE ZoneChanges(z)
      BY <1>2, <2>1, <3>1, ZoneKeeps DEF ZoneSteps, ZoneAfter, ZoneChanges
    <3>2. CASE ~ZoneChanges(z)
      BY <1>2, <2>1, <3>2, NothingKeeps DEF ZoneSteps, ZoneAfter
    <3>3. QED
      BY <3>1, <3>2
  <2>3. ZoneSteps(z) \in Seq(Steps)
    BY ZoneReady DEF Neutral
  <2>4. QED
    BY <1>3, <1>4, <1>8, <2>2, <2>3, HandleKeeps DEF HaTime
<1>9. ASSUME NEW c \in Configs, NEW is \in BOOLEAN, Switch(c, is)
      PROVE  Keeps(todo', flash, ram')
  <2>1. Handle(<<>>, is, FALSE, ram.usage, HoldSteps(c)) /\ ram' = [ram EXCEPT !.cfg = c]
    BY <1>9 DEF Switch
  <2>2. ram'["cfg"] = c /\ ram'["zone"] = ram["zone"] /\ ram'["plan"] = ram["plan"]
    BY <1>3, <2>1
  <2>3. Keeps(HoldSteps(c), flash, ram')
    BY <1>2, <2>2, SettingKeeps, NothingKeeps DEF HoldSteps
  <2>4. QED
    BY <1>3, <1>4, <2>1, <2>3, HoldReady, HandleKeeps, IdleSteps
<1>10. ASSUME FactoryReset
       PROVE  Keeps(todo', flash, ram')
  <2> DEFINE steps == <<Save("cfg", DefaultConfig), Save("plan", NoPlan), Save("zone", NoZone), Reboot>>
  <2>1. Keeps(steps, flash, ram') /\ steps \in Seq(Steps)
    BY <1>2, ResetKeeps, ResetReady DEF Ready, Tidy
  <2>2. Handle(steps, on, FALSE, ram.usage, <<>>)
    BY <1>10 DEF FactoryReset
  <2> HIDE DEF steps
  <2>3. QED
    BY <1>3, <1>4, <2>1, <2>2, HandleKeeps
<1>11. QED
  BY <1>5, <1>6, <1>7, <1>8, <1>9, <1>10 DEF Message

\* Doing a step that changes flash to g, or what is in use to q.
LEMMA TailKeeps ==
  ASSUME NEW s \in Seq(Steps), s # <<>>, Head(s).op # "reboot",
         NEW f, NEW g, NEW r, NEW q, Keeps(s, f, r), Saved1(s, f, g), Used1(s, r, q)
  PROVE  Keeps(Tail(s), g, q)
<1>1. Zoned(Tail(s), g)
  BY TailZoned DEF Keeps
<1>2. CASE Reboots(s)
  BY <1>1, <1>2, TailReboots DEF Keeps
<1>3. CASE Lasting(s, f, r)
  BY <1>1, <1>3, TailLasting DEF Keeps
<1>4. QED
  BY <1>2, <1>3 DEF Keeps

\* Every step keeps that a restart brings the settings back.
LEMMA StepRestartInv ==
  ASSUME BoardInv, RestartInv, [Next]_vars
  PROVE  RestartInv'
<1>1. /\ ram \in [Keys -> AnyValue] /\ flash \in [Keys -> AnyValue] /\ faults \in Nat
      /\ todo \in Seq(Steps)
  BY DEF BoardInv, Stored, Tidy
<1>2. CASE Message
  <2>1. UNCHANGED <<flash, faults>>
    BY <1>2, MessageReady
  <2>2. QED
    BY <1>2, <2>1, MessageKeeps DEF RestartInv
<1>3. CASE DoSave
  <2>1. todo # <<>> /\ todo' = Tail(todo) /\ Head(todo).op = "save" /\ UNCHANGED ram
    BY <1>3 DEF DoSave, Doing
  <2>2. CASE faults' = faults + 1
    BY <1>1, <2>2 DEF RestartInv
  <2>3. CASE flash' = [flash EXCEPT ![Head(todo).key] = Head(todo).value] /\ UNCHANGED faults
    <3>1. Saved1(todo, flash, flash')
      BY <1>1, <2>1, <2>3, HeadType DEF Saved1, Is
    <3>2. Used1(todo, ram, ram')
      BY <2>1, HeadType DEF Used1, Is
    <3>3. QED
      BY <1>1, <2>1, <2>3, <3>1, <3>2, TailKeeps DEF RestartInv
  <2>4. QED
    BY <1>3, <2>2, <2>3 DEF DoSave
<1>4. CASE DoShow \/ DoUse \/ DoSeeTime
  <2>1. /\ todo # <<>> /\ todo' = Tail(todo) /\ Head(todo).op \notin {"save", "reboot"}
        /\ UNCHANGED <<flash, faults>>
    BY <1>4 DEF DoShow, DoUse, DoSeeTime, Doing
  <2>2. Saved1(todo, flash, flash')
    BY <2>1, HeadType DEF Saved1, Is
  <2>3. Used1(todo, ram, ram')
    <3>1. CASE DoUse
      BY <1>1, <2>1, <3>1, HeadType DEF Used1, Is, DoUse, Doing, Keys
    <3>2. CASE DoShow \/ DoSeeTime
      BY <2>1, <3>2, HeadType DEF Used1, Is, DoShow, DoSeeTime, Doing
    <3>3. QED
      BY <1>4, <3>1, <3>2
  <2>4. QED
    BY <1>1, <2>1, <2>2, <2>3, TailKeeps DEF RestartInv
<1>5. CASE SntpSync \/ UNCHANGED vars
  BY <1>5 DEF SntpSync, vars, RestartInv
<1>6. CASE Restart
  <2>1. todo' = <<>> /\ ram' = Loaded(flash) /\ UNCHANGED <<flash, faults>>
    BY <1>6 DEF Restart
  <2>2. SUFFICES ASSUME faults = 0 PROVE Keeps(<<>>, flash, ram')
    BY <2>1 DEF RestartInv
  <2>3. Tz(flash["plan"]) # NoZone => flash["zone"] # NoZone
    BY <2>2 DEF RestartInv, Keeps, Zoned
  <2>4. /\ ram'["cfg"] = flash["cfg"] /\ ram'["plan"] = flash["plan"]
        /\ ram'["zone"] = BootZone(flash)
    BY <1>1, <2>1 DEF Loaded, Keys
  <2>5. BootZone(flash) = flash["zone"]
    BY <2>3 DEF BootZone
  <2>6. QED
    BY <2>3, <2>4, <2>5, NothingKeeps
<1>7. QED
  BY <1>2, <1>3, <1>4, <1>5, <1>6 DEF Next

\* Between messages a restart would bring back the configuration, the schedule and
\* the time zone that are in use, for all values of them, wherever the board was
\* restarted before, unless a save failed.
THEOREM RestartKeeps == Spec => []RestartKeepsSettings
<1>1. Init => RestartInv
  <2> SUFFICES ASSUME Init PROVE RestartInv
    OBVIOUS
  <2>1. /\ flash = [cfg |-> DefaultConfig, plan |-> NoPlan, zone |-> NoZone, usage |-> 0]
        /\ ram = Loaded(flash) /\ todo = <<>>
    BY DEF Init
  <2>2. flash["plan"] = NoPlan /\ flash["zone"] = NoZone /\ Tz(NoPlan) = NoZone
    BY <2>1, BoardAssumption
  <2>3. ram["cfg"] = flash["cfg"] /\ ram["plan"] = flash["plan"] /\ ram["zone"] = flash["zone"]
    BY <2>1, <2>2 DEF Loaded, BootZone
  <2>4. QED
    BY <2>1, <2>2, <2>3, NothingKeeps DEF RestartInv
<1>2. BoardInv /\ RestartInv /\ [Next]_vars => RestartInv'
  BY StepRestartInv
<1>3. BoardInv /\ RestartInv => RestartKeepsSettings
  <2> SUFFICES ASSUME BoardInv, RestartInv, faults = 0, todo = <<>>
               PROVE  /\ Loaded(flash).cfg = ram.cfg
                      /\ Loaded(flash).plan = ram.plan
                      /\ Loaded(flash).zone = ram.zone
    BY DEF RestartKeepsSettings
  <2>1. /\ flash["cfg"] = ram["cfg"] /\ flash["zone"] = ram["zone"] /\ flash["plan"] = ram["plan"]
        /\ Tz(flash["plan"]) # NoZone => flash["zone"] # NoZone
    BY BetweenMessages DEF RestartInv
  <2>2. flash \in [Keys -> AnyValue]
    BY DEF BoardInv, Stored
  <2>3. QED
    BY <2>1, <2>2 DEF Loaded, BootZone, Keys
<1>4. QED
  BY <1>1, <1>2, <1>3, BoardInvariant, PTL DEF Spec
=============================================================================
