--------------------------- MODULE ArbiterProofs ---------------------------
(***************************************************************************)
(* Theorems about the arbiter for every number of relays, every            *)
(* configuration and every order of calls.  The arbiter is written as      *)
(* operators from record to record, so is the argument: each operator      *)
(* keeps the controller `Sound` (lemmas), and each call is a composition   *)
(* of operators.  Three parts: the invariant, the limits, the takeover.    *)
(***************************************************************************)
EXTENDS Arbiter, TLAPS

Exclusive(g, c) == \A ch, other \in c.relays : ~Interlocked(g, ch, other)

Timed(c, t) ==
  \A ch \in Ch : IF ch \in c.relays THEN c.onSince[ch] \in 0..t ELSE c.onSince[ch] = None

Booked(c, t) == c.lastAccount = None \/ c.lastAccount <= t

\* What every operator of the arbiter keeps of the controller record.
Sound(g, c, t) ==
  /\ c \in Controller
  /\ Exclusive(g, c)
  /\ c.relays \cap c.capped = {}
  /\ Timed(c, t)
  /\ Booked(c, t)

\* Local times are well-typed.
LEMMA KnownTime ==
  ASSUME NEW w \in Nat
  PROVE  Local(w) \in LocalTime
<1>1. w \div DayLen \in Nat /\ w % DayLen \in Nat
  BY SizesAssumption
<1>2. (w \div DayLen) % WeekLen \in 0..WeekLen - 1
  BY <1>1, SizesAssumption
<1>3. w # None
  BY RelaysAssumption
<1>4. QED
  BY <1>1, <1>2, <1>3 DEF Local, LocalTime

\* So is the time of a clock that may be unknown.
LEMMA LocalType ==
  ASSUME NEW w \in Nat \cup {None}
  PROVE  Local(w) \in LocalTime \cup {None}
<1>1. CASE w = None
  BY <1>1 DEF Local
<1>2. CASE w # None
  BY <1>2, KnownTime
<1>3. QED
  BY <1>1, <1>2

\* After the switching only channels asked on and not capped are on, and
\* channels that were on and not asked off.
LEMMA RelaysAfterBounds ==
  ASSUME NEW g, NEW c, NEW ons, NEW offs
  PROVE  /\ RelaysAfter(g, c, ons, offs) \subseteq (ons \ c.capped) \cup (c.relays \ offs)
         /\ ons = {} => RelaysAfter(g, c, ons, offs) = c.relays \ offs
  BY DEF RelaysAfter, Rivals

\* Switching keeps the interlock: two channels of a set cannot both be the
\* last one asked on, and what was on gives way to what is asked on.
LEMMA RelaysAfterExclusive ==
  ASSUME NEW g, NEW c, NEW ons \in SUBSET Ch, NEW offs, Exclusive(g, c)
  PROVE  \A ch, other \in RelaysAfter(g, c, ons, offs) : ~Interlocked(g, ch, other)
<1> SUFFICES ASSUME NEW ch \in RelaysAfter(g, c, ons, offs),
                    NEW other \in RelaysAfter(g, c, ons, offs),
                    Interlocked(g, ch, other)
             PROVE  FALSE
  OBVIOUS
<1> DEFINE asked == ons \ c.capped
<1>1. Interlocked(g, other, ch)
  BY DEF Interlocked
<1>2. CASE ch \in asked /\ other \in asked
  <2>1. other < ch /\ ch < other
    BY <1>1, <1>2 DEF RelaysAfter, Rivals
  <2>2. ch \in Nat /\ other \in Nat
    BY <1>2, RelaysAssumption DEF Ch
  <2>3. QED
    BY <2>1, <2>2
<1>3. CASE ch \in asked /\ other \notin asked
  BY <1>1, <1>3 DEF RelaysAfter, Rivals
<1>4. CASE ch \notin asked /\ other \in asked
  BY <1>1, <1>4 DEF RelaysAfter, Rivals
<1>5. CASE ch \notin asked /\ other \notin asked
  BY <1>5 DEF RelaysAfter, Exclusive
<1>6. QED
  BY <1>2, <1>3, <1>4, <1>5

\* SetRelays changes only the relays and their timers.
LEMMA SetRelaysFrame ==
  ASSUME NEW g \in Config, NEW c \in Controller, NEW t \in Nat,
         NEW ons \in SUBSET Ch, NEW offs \in SUBSET Ch
  PROVE  LET d == SetRelays(g, c, t, ons, offs)
         IN /\ d \in Controller
            /\ d.relays = RelaysAfter(g, c, ons, offs)
            /\ d.capped = c.capped
            /\ d.lastAccount = c.lastAccount
            /\ d.link = c.link
            /\ d.schedPrev = c.schedPrev
            /\ d.timeKnown = c.timeKnown
<1> DEFINE after == RelaysAfter(g, c, ons, offs)
           since == SetRelays(g, c, t, ons, offs).onSince
<1>1. after \in SUBSET Ch
  BY RelaysAfterBounds DEF Controller
<1>2. since \in [Ch -> Nat \cup {None}]
  BY <1>1 DEF SetRelays, Controller
<1>3. SetRelays(g, c, t, ons, offs) = [c EXCEPT !.relays = after, !.onSince = since]
  BY DEF SetRelays, Controller
<1>4. QED
  BY <1>1, <1>2, <1>3 DEF Controller

\* SetRelays keeps the timers in step with the relays.
LEMMA SetRelaysTimed ==
  ASSUME NEW g \in Config, NEW c \in Controller, NEW t \in Nat,
         NEW ons \in SUBSET Ch, NEW offs \in SUBSET Ch,
         Timed(c, t)
  PROVE  Timed(SetRelays(g, c, t, ons, offs), t)
  BY DEF SetRelays, Timed, Controller
\* SetRelays keeps the controller sound, also when it starts with capped
\* relays on, provided those are asked off.
LEMMA SetRelaysSound ==
  ASSUME NEW g \in Config, NEW c \in Controller, NEW t \in Nat,
         NEW ons \in SUBSET Ch, NEW offs \in SUBSET Ch,
         Exclusive(g, c), (c.relays \ offs) \cap c.capped = {}, Timed(c, t), Booked(c, t)
  PROVE  LET d == SetRelays(g, c, t, ons, offs)
         IN /\ Sound(g, d, t)
            /\ d.relays = RelaysAfter(g, c, ons, offs)
            /\ d.link = c.link
            /\ d.timeKnown = c.timeKnown
<1> DEFINE d == SetRelays(g, c, t, ons, offs)
<1>1. /\ d \in Controller
      /\ d.relays = RelaysAfter(g, c, ons, offs)
      /\ d.capped = c.capped
      /\ d.lastAccount = c.lastAccount
      /\ d.link = c.link
      /\ d.timeKnown = c.timeKnown
  BY SetRelaysFrame
<1>2. Exclusive(g, d)
  BY <1>1, RelaysAfterExclusive DEF Exclusive
<1>3. d.relays \cap d.capped = {}
  BY <1>1, RelaysAfterBounds
<1>4. Timed(d, t)
  BY SetRelaysTimed
<1>5. Booked(d, t)
  BY <1>1 DEF Booked
<1>6. QED
  BY <1>1, <1>2, <1>3, <1>4, <1>5 DEF Sound

\* So SetRelays keeps a sound controller sound whatever it is asked.
LEMMA SwitchSound ==
  ASSUME NEW g \in Config, NEW c, NEW t \in Nat,
         NEW ons \in SUBSET Ch, NEW offs \in SUBSET Ch, Sound(g, c, t)
  PROVE  LET d == SetRelays(g, c, t, ons, offs)
         IN /\ Sound(g, d, t)
            /\ d.relays = RelaysAfter(g, c, ons, offs)
            /\ d.link = c.link
<1>1. c \in Controller /\ Exclusive(g, c) /\ Timed(c, t) /\ Booked(c, t)
  BY DEF Sound
<1>2. (c.relays \ offs) \cap c.capped = {}
  BY DEF Sound
<1>3. QED
  BY <1>1, <1>2, SetRelaysSound

\* Switching off only takes relays away.
LEMMA SwitchOffSound ==
  ASSUME NEW g \in Config, NEW c, NEW t \in Nat, NEW offs \in SUBSET Ch,
         Sound(g, c, t)
  PROVE  LET d == SetRelays(g, c, t, {}, offs)
         IN Sound(g, d, t) /\ d.relays = c.relays \ offs
  BY SwitchSound, RelaysAfterBounds

\* The safeguard keeps the controller sound and switches nothing on.
LEMMA PollSafeguardSound ==
  ASSUME NEW g \in Config, NEW c, NEW t \in Nat, Sound(g, c, t)
  PROVE  /\ Sound(g, PollSafeguard(g, c, t), t)
         /\ PollSafeguard(g, c, t).relays \subseteq c.relays
<1>1. Expired(g, c, t) \in SUBSET Ch
  BY DEF Expired
<1>2. QED
  BY <1>1, SwitchOffSound DEF PollSafeguard

\* Accounting keeps the controller sound: what it caps it switches off.
LEMMA AccountSound ==
  ASSUME NEW g \in Config, NEW c, NEW t \in Nat, NEW lt \in LocalTime \cup {None},
         Sound(g, c, t)
  PROVE  /\ Sound(g, Account(g, c, t, lt), t)
         /\ Account(g, c, t, lt).relays \subseteq c.relays
         /\ Account(g, c, t, lt).timeKnown = c.timeKnown
<1> DEFINE rolled == lt # None /\ c.today # None /\ c.today # lt.day
           delta == IF c.lastAccount = None THEN 0 ELSE t - c.lastAccount
           onToday == [ch \in Ch |-> (IF rolled THEN 0 ELSE c.onToday[ch])
                                       + (IF ch \in c.relays THEN delta ELSE 0)]
           reached == {ch \in c.relays : g.maxDaily[ch] > 0 /\ onToday[ch] >= g.maxDaily[ch]}
           prev == [ch \in Ch |-> IF rolled /\ ch \in c.capped THEN "unset" ELSE c.schedPrev[ch]]
           capped == (IF rolled THEN {} ELSE c.capped) \cup reached
           today == IF lt = None THEN c.today ELSE lt.day
           booked == [c EXCEPT !.onToday = onToday, !.schedPrev = prev, !.capped = capped,
                               !.today = today, !.lastAccount = t]
<1>1. c \in Controller /\ Exclusive(g, c) /\ Timed(c, t) /\ c.relays \cap c.capped = {}
  BY DEF Sound
<1>2. delta \in Nat
  BY <1>1 DEF Sound, Booked, Controller
<1>3. onToday \in [Ch -> Nat]
  <2> HIDE DEF delta, rolled
  <2>1. \A ch \in Ch : c.onToday[ch] \in Nat
    BY <1>1 DEF Controller
  <2>2. QED
    BY <1>2, <2>1
<1>4. reached \in SUBSET Ch /\ capped \in SUBSET Ch
  BY <1>1 DEF Controller
<1>5. prev \in [Ch -> Wishes]
  BY <1>1 DEF Controller, Wishes
<1>6. today \in Nat \cup {None}
  BY <1>1 DEF Controller, LocalTime
<1>7. /\ booked \in Controller
      /\ booked.relays = c.relays
      /\ booked.onSince = c.onSince
      /\ booked.capped = capped
      /\ booked.lastAccount = t
      /\ booked.timeKnown = c.timeKnown
  <2> HIDE DEF onToday, prev, capped, today
  <2>1. QED
    BY <1>1, <1>3, <1>4, <1>5, <1>6 DEF Controller
<1>8. Account(g, c, t, lt) = SetRelays(g, booked, t, {}, reached)
  BY DEF Account, Elapsed, CapReached
<1>9. Exclusive(g, booked) /\ Timed(booked, t) /\ Booked(booked, t)
  <2> HIDE DEF booked
  <2>1. QED
    BY <1>1, <1>7 DEF Exclusive, Timed, Booked
<1>10. (booked.relays \ reached) \cap booked.capped = {}
  <2> HIDE DEF booked, reached
  <2>1. QED
    BY <1>1, <1>7
<1> HIDE DEF booked, reached, capped
<1>11. QED
  BY <1>4, <1>7, <1>8, <1>9, <1>10, SetRelaysSound, RelaysAfterBounds

\* Soundness looks only at the relays, their timers, the caps and the time of
\* the last booking, and of the configuration only at the exclusive sets.
LEMMA SoundFields ==
  ASSUME NEW g, NEW h, NEW c, NEW d \in Controller, NEW t,
         Sound(g, c, t), h.exclusiveSet = g.exclusiveSet,
         d.relays = c.relays, d.onSince = c.onSince,
         d.capped \subseteq c.capped, d.lastAccount = c.lastAccount
  PROVE  Sound(h, d, t)
  BY DEF Sound, Exclusive, Interlocked, Timed, Booked

\* Forgetting the noted wishes (sched_prev = [None; CHANNELS]) keeps a controller sound.
LEMMA ForgetSound ==
  ASSUME NEW g, NEW c, NEW t, Sound(g, c, t)
  PROVE  /\ Sound(g, Forget(c), t)
         /\ Forget(c).relays = c.relays
         /\ Forget(c).link = c.link
<1>1. c \in Controller
  BY DEF Sound
<1>2. [ch \in Ch |-> "unset"] \in [Ch -> Wishes]
  BY DEF Wishes
<1>3. /\ Forget(c) \in Controller
      /\ Forget(c).relays = c.relays
      /\ Forget(c).onSince = c.onSince
      /\ Forget(c).capped = c.capped
      /\ Forget(c).lastAccount = c.lastAccount
      /\ Forget(c).link = c.link
  BY <1>1, <1>2 DEF Forget, Controller
<1>4. QED
  BY <1>3, SoundFields

\* Clearing a rain hold that has run out keeps a controller sound.
LEMMA ExpireHoldSound ==
  ASSUME NEW g, NEW c, NEW t, Sound(g, c, t)
  PROVE  /\ Sound(g, ExpireHold(c), t)
         /\ ExpireHold(c).relays = c.relays
         /\ ExpireHold(c).link = c.link
<1> DEFINE d == [c EXCEPT !.holdUntil = 0]
<1>1. c \in Controller
  BY DEF Sound
<1>2. /\ d \in Controller
      /\ d.relays = c.relays
      /\ d.onSince = c.onSince
      /\ d.capped = c.capped
      /\ d.lastAccount = c.lastAccount
      /\ d.link = c.link
  BY <1>1 DEF Controller
<1> HIDE DEF d
<1>3. Sound(g, d, t)
  BY <1>2, SoundFields
<1>4. /\ Sound(g, Forget(d), t)
      /\ Forget(d).relays = c.relays
      /\ Forget(d).link = c.link
  BY <1>2, <1>3, ForgetSound
<1>5. ExpireHold(c) = IF c.holdUntil > 0 /\ ~RainHoldActive(c) THEN Forget(d) ELSE c
  BY DEF ExpireHold, d
<1>6. QED
  BY <1>4, <1>5

\* Following the schedule keeps the controller sound.
LEMMA FollowScheduleSound ==
  ASSUME NEW g \in Config, NEW c, NEW t \in Nat, NEW lt, NEW changed,
         Sound(g, c, t)
  PROVE  /\ Sound(g, FollowSchedule(g, c, t, lt, changed), t)
         /\ FollowSchedule(g, c, t, lt, changed).link = c.link
<1> DEFINE targets == Targets(g, c, lt)
           wish == Wish(targets)
           driven == {ch \in Ch : /\ c.link = "OfflineSchedule"
                                  /\ g.mode = "Auto"
                                  /\ changed \/ c.schedPrev[ch] # wish[ch]}
           noted == [c EXCEPT !.schedPrev = wish]
<1>1. c \in Controller
  BY DEF Sound
<1>2. wish \in [Ch -> Wishes]
  BY DEF Wish, Wishes
<1>3. /\ noted \in Controller
      /\ noted.relays = c.relays
      /\ noted.onSince = c.onSince
      /\ noted.capped = c.capped
      /\ noted.lastAccount = c.lastAccount
      /\ noted.link = c.link
  <2> HIDE DEF wish
  <2>1. QED
    BY <1>1, <1>2 DEF Controller
<1>4. FollowSchedule(g, c, t, lt, changed) =
        IF lt = None THEN c
        ELSE SetRelays(g, noted, t, driven \cap targets, driven \ targets)
  BY DEF FollowSchedule, Driven, ScheduleRules
<1>5. driven \in SUBSET Ch
  OBVIOUS
<1> HIDE DEF noted, driven, targets
<1>6. Sound(g, noted, t)
  BY <1>3, SoundFields
<1>7. Sound(g, SetRelays(g, noted, t, driven \cap targets, driven \ targets), t)
  BY <1>5, <1>6, SwitchSound
<1>8. SetRelays(g, noted, t, driven \cap targets, driven \ targets).link = c.link
  BY <1>3, <1>5, <1>6, SwitchSound
<1>9. QED
  BY <1>4, <1>7, <1>8

\* Entering the unknown-time link state applies the safe and power-up states and keeps
\* a controller sound; the interlock and the caps still decide what goes on.
LEMMA HoldSafeStateSound ==
  ASSUME NEW g \in Config, NEW c, NEW t \in Nat, NEW changed, Sound(g, c, t)
  PROVE  Sound(g, HoldSafeState(g, c, t, changed), t)
<1>1. SafeStates(g) \in SUBSET Ch /\ Ch \ SafeStates(g) \in SUBSET Ch
  BY DEF SafeStates, Config
<1>2. Sound(g, SetRelays(g, c, t, SafeStates(g), Ch \ SafeStates(g)), t)
  BY <1>1, SwitchSound
<1>3. QED
  BY <1>2 DEF HoldSafeState

\* Re-evaluation keeps the controller sound, and in mode Off it switches
\* nothing on.
LEMMA RefreshSound ==
  ASSUME NEW g \in Config, NEW c, NEW t \in Nat, NEW lt \in LocalTime \cup {None},
         Sound(g, c, t)
  PROVE  /\ Sound(g, Refresh(g, c, t, lt), t)
         /\ g.mode = "Off" => Refresh(g, c, t, lt).relays \subseteq c.relays
<1> DEFINE a == Account(g, c, t, lt)
           link == ComputeLink(g, a, t)
           linked == [a EXCEPT !.link = link]
           b == ExpireHold(linked)
           e == Evaluate(g, b, t, lt, link # a.link)
<1>1. Sound(g, a, t) /\ a.relays \subseteq c.relays
  BY AccountSound
<1>2. link \in Links
  BY DEF ComputeLink, Links
<1> HIDE DEF a
<1>3. a \in Controller
  BY <1>1 DEF Sound
<1>4. /\ linked \in Controller
      /\ linked.relays = a.relays
      /\ linked.onSince = a.onSince
      /\ linked.capped = a.capped
      /\ linked.lastAccount = a.lastAccount
  <2> HIDE DEF link
  <2>1. QED
    BY <1>2, <1>3 DEF Controller
<1> HIDE DEF linked
<1>5. Sound(g, linked, t)
  BY <1>1, <1>4, SoundFields
<1>6. Sound(g, b, t) /\ b.relays = a.relays
  BY <1>4, <1>5, ExpireHoldSound
<1> HIDE DEF b
<1>7. Sound(g, e, t)
  <2>1. Sound(g, FollowSchedule(g, b, t, lt, link # a.link), t)
    BY <1>6, FollowScheduleSound
  <2>2. Sound(g, HoldSafeState(g, FollowSchedule(g, b, t, lt, link # a.link), t, link # a.link), t)
    BY <2>1, HoldSafeStateSound
  <2>3. QED
    BY <1>6, <2>2 DEF Evaluate
<1>8. g.mode = "Off" => e = b
  BY DEF Evaluate
<1>9. Refresh(g, c, t, lt) = PollSafeguard(g, e, t)
  BY DEF Refresh, a, linked, b
<1> HIDE DEF e
<1>10. Sound(g, PollSafeguard(g, e, t), t) /\ PollSafeguard(g, e, t).relays \subseteq e.relays
  BY <1>7, PollSafeguardSound
<1>11. QED
  BY <1>1, <1>6, <1>8, <1>9, <1>10

-----------------------------------------------------------------------------
\* The inductive invariant: the invariants of the arbiter, and that the last
\* booking is not in the future, without which the booked on-time, and so the
\* controller, would lose its type.
IInv ==
  /\ TypeOK
  /\ Sound(cfg, ctl, now)
  /\ OffMeansOff

\* A call that leaves a sound controller, with all relays off in mode Off,
\* keeps the invariant.
LEMMA CallKeepsIInv ==
  ASSUME IInv, NEW g \in Config, NEW d, Sound(g, d, now),
         g.mode = "Off" => d.relays = {}, Call(g, d)
  PROVE  IInv'
<1>1. cfg' = g /\ ctl' = d /\ now' = now /\ wall' = wall
  BY DEF Call
<1>2. now \in Nat /\ wall \in Nat \cup {None}
  BY DEF IInv, TypeOK
<1>3. Sound(cfg, ctl, now)'
  BY <1>1 DEF Sound, Exclusive, Interlocked, Timed, Booked
<1>4. TypeOK'
  BY <1>1, <1>2 DEF TypeOK, Sound
<1>5. OffMeansOff'
  BY <1>1 DEF OffMeansOff
<1>6. QED
  BY <1>3, <1>4, <1>5 DEF IInv

\* A call that re-evaluates a sound controller keeps the invariant.
LEMMA RefreshKeepsIInv ==
  ASSUME IInv, NEW g \in Config, NEW c, NEW lt \in LocalTime \cup {None},
         Sound(g, c, now), g.mode = "Off" => c.relays = {},
         Call(g, Refresh(g, c, now, lt))
  PROVE  IInv'
<1>1. now \in Nat
  BY DEF IInv, TypeOK
<1>2. /\ Sound(g, Refresh(g, c, now, lt), now)
      /\ g.mode = "Off" => Refresh(g, c, now, lt).relays \subseteq c.relays
  BY <1>1, RefreshSound
<1>3. QED
  BY <1>2, CallKeepsIInv

\* Sampling the clock keeps the controller sound.
LEMMA SampledSound ==
  ASSUME IInv
  PROVE  /\ Sampled \in Controller
         /\ Sound(cfg, Sampled, now)
         /\ Sampled.relays = ctl.relays
         /\ Sampled.onSince = ctl.onSince
         /\ Sampled.capped = ctl.capped
         /\ Sampled.lastAccount = ctl.lastAccount
<1>1. ctl \in Controller /\ wall \in Nat \cup {None} /\ Sound(cfg, ctl, now)
  BY DEF IInv, TypeOK
<1>2. /\ Sampled \in Controller
      /\ Sampled.relays = ctl.relays
      /\ Sampled.onSince = ctl.onSince
      /\ Sampled.capped = ctl.capped
      /\ Sampled.lastAccount = ctl.lastAccount
  BY <1>1 DEF Sampled, Controller
<1>3. QED
  BY <1>1, <1>2, SoundFields

\* What the board restores is a controller with nothing on and no link yet.
LEMMA RestoredController ==
  ASSUME NEW g \in Config, NEW h \in Nat, NEW u \in Usage \cup {None}
  PROVE  LET c == RestoreUsage(g, [NewController EXCEPT !.holdUntil = h], u)
         IN /\ c \in Controller
            /\ c.relays = {} /\ c.onSince = [ch \in Ch |-> None] /\ c.lastAccount = None
            /\ c.link = None /\ c.connected = FALSE /\ c.timeKnown = FALSE
<1> DEFINE new == [NewController EXCEPT !.holdUntil = h]
           c == RestoreUsage(g, new, u)
<1>1. /\ new \in Controller
      /\ new.relays = {} /\ new.onSince = [ch \in Ch |-> None] /\ new.lastAccount = None
      /\ new.link = None /\ new.connected = FALSE /\ new.timeKnown = FALSE
  <2>1. [ch \in Ch |-> "unset"] \in [Ch -> Wishes]
    BY DEF Wishes
  <2>2. NewController \in Controller
    BY <2>1 DEF NewController, Controller
  <2>3. new \in Controller
    BY <2>2 DEF Controller
  <2>4. QED
    BY <2>3 DEF NewController
<1> HIDE DEF new
<1> DEFINE restored ==
             /\ c \in Controller
             /\ c.relays = {} /\ c.onSince = [ch \in Ch |-> None] /\ c.lastAccount = None
             /\ c.link = None /\ c.connected = FALSE /\ c.timeKnown = FALSE
<1>2. ASSUME u = None PROVE restored
  <2>1. c = new
    BY <1>2 DEF RestoreUsage
  <2>2. QED
    BY <1>1, <2>1
<1>3. ASSUME u # None PROVE restored
  <2>1. u.onToday \in [Ch -> Nat] /\ u.day \in Nat
    BY <1>3 DEF Usage
  <2> DEFINE day == IF u.day = 0 THEN None ELSE u.day
             capped == {ch \in Ch : CapReached(g, ch, u.onToday[ch])}
  <2>2. c = [new EXCEPT !.onToday = u.onToday, !.today = day, !.capped = capped]
    BY <1>3 DEF RestoreUsage
  <2>3. day \in Nat \cup {None} /\ capped \in SUBSET Ch
    BY <2>1
  <2> HIDE DEF c, day, capped
  <2>4. QED
    BY <1>1, <2>1, <2>2, <2>3 DEF Controller
<1>4. QED
  BY <1>2, <1>3 DEF new

\* The board starts in the invariant.
LEMMA InitIInv == Init => IInv
<1> SUFFICES ASSUME Init PROVE IInv
  OBVIOUS
<1>1. PICK u \in InitUsages, h \in InitHolds :
        ctl = Boot(cfg, RestoreUsage(cfg, [NewController EXCEPT !.holdUntil = h], u), 0)
  BY DEF Init
<1>2. cfg \in Config /\ now = 0 /\ wall \in Nat \cup {None}
  BY InputsAssumption DEF Init
<1>3. h \in Nat /\ u \in Usage \cup {None}
  BY <1>1, InputsAssumption
<1> DEFINE c == RestoreUsage(cfg, [NewController EXCEPT !.holdUntil = h], u)
<1>5. c \in Controller /\ c.relays = {} /\ c.onSince = [ch \in Ch |-> None]
        /\ c.lastAccount = None
  BY <1>2, <1>3, RestoredController
<1> HIDE DEF c
<1>6. Sound(cfg, c, 0)
  BY <1>5 DEF Sound, Exclusive, Timed, Booked
<1> DEFINE able == cfg.powerOn \ c.capped
           first == {ch \in able : \A other \in able : Interlocked(cfg, ch, other) => ch < other}
<1>7. first \in SUBSET Ch
  BY <1>2 DEF Config
<1>8. ctl = IF cfg.mode = "Off" THEN c ELSE SetRelays(cfg, c, 0, first, {})
  BY <1>1 DEF Boot, LowestOfSets, c
<1> HIDE DEF first
<1>9. Sound(cfg, SetRelays(cfg, c, 0, first, {}), 0)
  BY <1>2, <1>6, <1>7, SwitchSound
<1>10. Sound(cfg, ctl, now)
  BY <1>2, <1>6, <1>8, <1>9
<1>11. TypeOK
  BY <1>2, <1>10 DEF TypeOK, Sound
<1>12. OffMeansOff
  BY <1>5, <1>8 DEF OffMeansOff
<1>13. QED
  BY <1>10, <1>11, <1>12 DEF IInv

\* A sign of life from Home Assistant (on_ha_seen) starts from a sound controller.
LEMMA SeenSound ==
  ASSUME IInv
  PROVE  Seen \in Controller /\ Sound(cfg, Seen, now) /\ Seen.relays = ctl.relays
<1>1. now \in Nat
  BY DEF IInv, TypeOK
<1>2. /\ Seen \in Controller
      /\ Seen.relays = Sampled.relays
      /\ Seen.onSince = Sampled.onSince
      /\ Seen.capped = Sampled.capped
      /\ Seen.lastAccount = Sampled.lastAccount
  BY <1>1, SampledSound DEF Seen, Controller
<1>3. QED
  BY <1>2, SampledSound, SoundFields

\* Every message about Home Assistant's presence keeps the invariant.
LEMMA HaLinkKeepsIInv == IInv /\ HaLink => IInv'
<1> SUFFICES ASSUME IInv, HaLink PROVE IInv'
  OBVIOUS
<1> USE SampledSound
<1>1. /\ cfg \in Config
      /\ now \in Nat
      /\ Local(wall) \in LocalTime \cup {None}
      /\ cfg.mode = "Off" => ctl.relays = {}
  BY LocalType DEF IInv, TypeOK, OffMeansOff
<1>2. CASE HaConnected
  <2> DEFINE d == [Sampled EXCEPT !.connected = TRUE, !.declaredOffline = FALSE, !.lastSeen = now]
  <2>1. d \in Controller /\ d.relays = ctl.relays /\ d.onSince = ctl.onSince
          /\ d.capped = ctl.capped /\ d.lastAccount = ctl.lastAccount
    BY <1>1 DEF Controller
  <2> HIDE DEF d
  <2>2. Sound(cfg, d, now)
    BY <2>1, SoundFields
  <2>3. QED
    BY <1>1, <1>2, <2>1, <2>2, RefreshKeepsIInv DEF HaConnected, d
<1>3. CASE HaDisconnected
  <2> DEFINE d == [Sampled EXCEPT !.connected = FALSE]
  <2>1. d \in Controller /\ d.relays = ctl.relays /\ d.onSince = ctl.onSince
          /\ d.capped = ctl.capped /\ d.lastAccount = ctl.lastAccount
    BY DEF Controller
  <2> HIDE DEF d
  <2>2. Sound(cfg, d, now)
    BY <2>1, SoundFields
  <2>3. QED
    BY <1>1, <1>3, <2>1, <2>2, RefreshKeepsIInv DEF HaDisconnected, d
<1>4. CASE HaOffline
  <2> DEFINE d == [Sampled EXCEPT !.declaredOffline = TRUE]
  <2>1. d \in Controller /\ d.relays = ctl.relays /\ d.onSince = ctl.onSince
          /\ d.capped = ctl.capped /\ d.lastAccount = ctl.lastAccount
    BY DEF Controller
  <2> HIDE DEF d
  <2>2. Sound(cfg, d, now)
    BY <2>1, SoundFields
  <2>3. QED
    BY <1>1, <1>4, <2>1, <2>2, RefreshKeepsIInv DEF HaOffline, d
<1>5. CASE HaSeen
  BY <1>1, <1>5, SeenSound, RefreshKeepsIInv DEF HaSeen
<1>6. QED
  BY <1>2, <1>3, <1>4, <1>5 DEF HaLink

\* The passing of time and the setting of the clock keep the invariant.
LEMMA ClockKeepsIInv == IInv /\ Clock => IInv'
<1> SUFFICES ASSUME IInv, Clock PROVE IInv'
  OBVIOUS
<1>1. /\ cfg \in Config
      /\ ctl \in Controller
      /\ now \in Nat
      /\ wall \in Nat \cup {None}
      /\ Sound(cfg, ctl, now)
      /\ cfg.mode = "Off" => ctl.relays = {}
  BY DEF IInv, TypeOK, OffMeansOff
<1>2. CASE Advance
  <2>1. cfg' = cfg /\ ctl' = ctl /\ now' = now + 1 /\ wall' \in Nat \cup {None}
    BY <1>1, <1>2 DEF Advance
  <2>2. Timed(ctl, now + 1) /\ Booked(ctl, now + 1)
    BY <1>1 DEF Sound, Timed, Booked, Controller
  <2>3. Sound(cfg, ctl, now)'
    BY <1>1, <2>1, <2>2 DEF Sound, Exclusive, Interlocked, Timed, Booked
  <2>4. QED
    BY <1>1, <2>1, <2>3 DEF IInv, TypeOK, OffMeansOff
<1>3. ASSUME NEW w \in Clocks, SetClock(w) PROVE IInv'
  <2>1. cfg' = cfg /\ ctl' = ctl /\ now' = now /\ wall' \in Nat \cup {None}
    BY <1>3, InputsAssumption DEF SetClock
  <2>2. Sound(cfg, ctl, now)'
    BY <1>1, <2>1 DEF Sound, Exclusive, Interlocked, Timed, Booked
  <2>3. QED
    BY <1>1, <2>1, <2>2 DEF IInv, TypeOK, OffMeansOff
<1> DEFINE known == [Sampled EXCEPT !.timeKnown = TRUE]
<1>4. known \in Controller /\ known.relays = ctl.relays /\ known.onSince = ctl.onSince
        /\ known.capped = ctl.capped /\ known.lastAccount = ctl.lastAccount
  BY SampledSound DEF Controller
<1>5. Sound(cfg, known, now) /\ Sound(cfg, Sampled, now) /\ Sampled.relays = ctl.relays
  <2> HIDE DEF known
  <2>1. QED
    BY <1>1, <1>4, SoundFields, SampledSound
<1> HIDE DEF known
<1>6. CASE TimeKnown
  <2>1. Call(cfg, Refresh(cfg, known, now, Local(wall)))
    BY <1>6 DEF TimeKnown, known
  <2>2. QED
    BY <1>1, <1>4, <1>5, <2>1, LocalType, RefreshKeepsIInv
<1>7. ASSUME NEW w \in Clocks, HaTime(w) PROVE IInv'
  <2>1. w \in Nat /\ Local(w) \in LocalTime \cup {None}
    BY InputsAssumption, LocalType
  <2>2. /\ cfg' = cfg /\ now' = now /\ wall' = w
        /\ ctl' = IF ctl.timeKnown THEN Sampled ELSE Refresh(cfg, known, now, Local(w))
    BY <1>7 DEF HaTime, known
  <2>3. /\ Sound(cfg, Refresh(cfg, known, now, Local(w)), now)
        /\ cfg.mode = "Off" => Refresh(cfg, known, now, Local(w)).relays \subseteq known.relays
    BY <1>1, <1>5, <2>1, RefreshSound
  <2>4. Sound(cfg, ctl', now) /\ (cfg.mode = "Off" => ctl'.relays = {})
    BY <1>1, <1>4, <1>5, <2>2, <2>3
  <2>5. Sound(cfg, ctl, now)'
    BY <2>2, <2>4 DEF Sound, Exclusive, Interlocked, Timed, Booked
  <2>6. QED
    BY <1>1, <2>1, <2>2, <2>4, <2>5 DEF IInv, TypeOK, OffMeansOff, Sound
<1>8. QED
  BY <1>2, <1>3, <1>6, <1>7 DEF Clock

\* A command on a relay keeps the controller sound: the relay whose timer it
\* restarts is on.
LEMMA CommandRelaySound ==
  ASSUME NEW g \in Config, NEW c, NEW t \in Nat, NEW ch \in Ch, NEW on \in BOOLEAN,
         Sound(g, c, t)
  PROVE  Sound(g, CommandRelay(g, c, t, ch, on), t)
<1> DEFINE ons == IF on THEN {ch} ELSE {}
           offs == IF on THEN {} ELSE {ch}
           d == SetRelays(g, c, t, ons, offs)
           since == IF on /\ ch \notin c.capped THEN [d.onSince EXCEPT ![ch] = t] ELSE d.onSince
           e == [d EXCEPT !.onSince = since]
<1>1. ons \in SUBSET Ch /\ offs \in SUBSET Ch
  OBVIOUS
<1>2. Sound(g, d, t) /\ d.relays = RelaysAfter(g, c, ons, offs)
  <2> HIDE DEF ons, offs
  <2>1. QED
    BY <1>1, SwitchSound
<1>3. on /\ ch \notin c.capped => ch \in d.relays
  <2>1. on => Rivals(g, c, ons, ch) = {}
    BY DEF Rivals, Interlocked
  <2>2. QED
    BY <1>2, <2>1 DEF RelaysAfter
<1>4. CommandRelay(g, c, t, ch, on) = e
  BY DEF CommandRelay
<1> HIDE DEF d
<1>5. d \in Controller /\ Timed(d, t)
  BY <1>2 DEF Sound
<1>6. since \in [Ch -> Nat \cup {None}]
  BY <1>5 DEF Controller
<1>7. \A x \in Ch : since[x] = IF on /\ ch \notin c.capped /\ x = ch THEN t ELSE d.onSince[x]
  BY <1>5 DEF Controller
<1> HIDE DEF since
<1>8. e \in Controller /\ e.relays = d.relays /\ e.onSince = since
        /\ e.capped = d.capped /\ e.lastAccount = d.lastAccount
  BY <1>5, <1>6 DEF Controller
<1> HIDE DEF e
<1>9. Timed(e, t)
  BY <1>3, <1>5, <1>7, <1>8 DEF Timed
<1>10. QED
  BY <1>2, <1>4, <1>8, <1>9 DEF Sound, Exclusive, Booked

\* Commands, the local override and the all-off button keep the invariant.
LEMMA SwitchingKeepsIInv == IInv /\ (Tick \/ Command \/ Override \/ AllOffButton) => IInv'
<1> SUFFICES ASSUME IInv, Tick \/ Command \/ Override \/ AllOffButton PROVE IInv'
  OBVIOUS
<1>1. /\ cfg \in Config
      /\ now \in Nat
      /\ Local(wall) \in LocalTime \cup {None}
      /\ cfg.mode = "Off" => ctl.relays = {}
  BY LocalType DEF IInv, TypeOK, OffMeansOff
<1>2. CASE Tick
  BY <1>1, <1>2, SampledSound, RefreshKeepsIInv DEF Tick
<1>3. ASSUME NEW ch \in Ch, NEW on \in BOOLEAN, HaCommand(ch, on) PROVE IInv'
  <2> DEFINE c == Refresh(cfg, Seen, now, None)
             d == IF cfg.mode = "Off" \/ c.link # "Online" THEN c
                  ELSE CommandRelay(cfg, c, now, ch, on)
  <2>1. Sound(cfg, c, now) /\ (cfg.mode = "Off" => c.relays = {})
    BY <1>1, SeenSound, RefreshSound
  <2>2. Call(cfg, d)
    BY <1>3 DEF HaCommand
  <2> HIDE DEF c
  <2>3. Sound(cfg, CommandRelay(cfg, c, now, ch, on), now)
    BY <1>1, <2>1, CommandRelaySound
  <2>4. Sound(cfg, d, now) /\ (cfg.mode = "Off" => d.relays = {})
    BY <2>1, <2>3
  <2> HIDE DEF d
  <2>5. QED
    BY <1>1, <2>2, <2>4, CallKeepsIInv
<1>4. ASSUME NEW ch \in Ch, NEW on \in BOOLEAN, LocalCommand(ch, on) PROVE IInv'
  <2> DEFINE ons == IF on THEN {ch} ELSE {}
             offs == IF on THEN {} ELSE {ch}
  <2>1. ons \in SUBSET Ch /\ offs \in SUBSET Ch
    OBVIOUS
  <2>2. cfg.mode # "Off" /\ Call(cfg, SetRelays(cfg, Sampled, now, ons, offs))
    BY <1>4 DEF LocalCommand
  <2> HIDE DEF ons, offs
  <2>3. Sound(cfg, SetRelays(cfg, Sampled, now, ons, offs), now)
    BY <1>1, <2>1, SampledSound, SwitchSound
  <2>4. QED
    BY <1>1, <2>2, <2>3, CallKeepsIInv
<1>5. CASE AllOffButton
  <2>1. Sound(cfg, AllOff(cfg, Sampled, now), now) /\ AllOff(cfg, Sampled, now).relays = {}
    BY <1>1, SampledSound, SwitchOffSound DEF AllOff, Controller
  <2>2. QED
    BY <1>1, <1>5, <2>1, CallKeepsIInv DEF AllOffButton
<1>6. QED
  BY <1>2, <1>3, <1>4, <1>5 DEF Command, Override

\* Every change of the settings keeps the invariant.
LEMMA SettingKeepsIInv == IInv /\ Setting => IInv'
<1> SUFFICES ASSUME IInv, Setting PROVE IInv'
  OBVIOUS
<1>1. /\ cfg \in Config
      /\ ctl \in Controller
      /\ now \in Nat
      /\ wall \in Nat \cup {None}
      /\ Local(wall) \in LocalTime \cup {None}
      /\ cfg.mode = "Off" => ctl.relays = {}
  BY LocalType DEF IInv, TypeOK, OffMeansOff
<1>2. /\ Sampled \in Controller
      /\ Sound(cfg, Sampled, now)
      /\ Sampled.relays = ctl.relays
  BY SampledSound
<1>3. ASSUME NEW s \in Schedules, SetSchedule(s) PROVE IInv'
  <2> DEFINE g == [cfg EXCEPT !.schedule = s]
  <2>1. g \in Config /\ g.exclusiveSet = cfg.exclusiveSet /\ g.mode = cfg.mode
    BY <1>1, InputsAssumption DEF Config
  <2> HIDE DEF g
  <2>2. Sound(g, Forget(Sampled), now) /\ Forget(Sampled).relays = ctl.relays
    BY <1>2, <2>1, ForgetSound, SoundFields
  <2>3. QED
    BY <1>1, <1>3, <2>1, <2>2, RefreshKeepsIInv DEF SetSchedule, g
<1>4. ASSUME NEW ch \in Ch, NEW limit \in Limits, SetMaxOn(ch, limit) PROVE IInv'
  <2> DEFINE g == [cfg EXCEPT !.maxOn[ch] = limit]
  <2>1. g \in Config /\ g.exclusiveSet = cfg.exclusiveSet /\ g.mode = cfg.mode
    BY <1>1, InputsAssumption DEF Config
  <2>2. Call(g, PollSafeguard(g, Sampled, now))
    BY <1>4 DEF SetMaxOn
  <2> HIDE DEF g
  <2>3. Sound(g, Sampled, now)
    BY <1>2, <2>1, SoundFields
  <2>4. /\ Sound(g, PollSafeguard(g, Sampled, now), now)
        /\ PollSafeguard(g, Sampled, now).relays \subseteq ctl.relays
    BY <1>1, <1>2, <2>1, <2>3, PollSafeguardSound
  <2>5. QED
    BY <1>1, <2>1, <2>2, <2>4, CallKeepsIInv
<1>5. ASSUME NEW ch \in Ch, NEW limit \in Limits, SetMaxDaily(ch, limit) PROVE IInv'
  <2> DEFINE g == [cfg EXCEPT !.maxDaily[ch] = limit]
             freed == [Sampled EXCEPT !.capped = @ \ {ch}, !.schedPrev[ch] = "unset"]
             c == IF limit = 0 /\ ch \in ctl.capped THEN freed ELSE Sampled
  <2>1. g \in Config /\ g.exclusiveSet = cfg.exclusiveSet /\ g.mode = cfg.mode
    BY <1>1, InputsAssumption DEF Config
  <2>2. Call(g, Account(g, c, now, None))
    BY <1>5 DEF SetMaxDaily
  <2>3. /\ freed \in Controller
        /\ freed.relays = Sampled.relays
        /\ freed.onSince = Sampled.onSince
        /\ freed.capped \subseteq Sampled.capped
        /\ freed.lastAccount = Sampled.lastAccount
    BY <1>2 DEF Controller, Wishes
  <2> HIDE DEF g, freed
  <2>4. Sound(g, c, now) /\ c.relays = ctl.relays
    BY <1>2, <2>1, <2>3, SoundFields
  <2> HIDE DEF c
  <2>5. /\ Sound(g, Account(g, c, now, None), now)
        /\ Account(g, c, now, None).relays \subseteq ctl.relays
    BY <1>1, <2>1, <2>4, AccountSound
  <2>6. QED
    BY <1>1, <2>1, <2>2, <2>5, CallKeepsIInv
<1>6. ASSUME NEW ch \in Ch, NEW on \in BOOLEAN, SetSafeState(ch, on) PROVE IInv'
  <2> DEFINE g == [cfg EXCEPT !.safeState = IF on THEN @ \cup {ch} ELSE @ \ {ch}]
  <2>1. g \in Config /\ g.exclusiveSet = cfg.exclusiveSet /\ g.mode = cfg.mode
    BY <1>1 DEF Config
  <2>2. Call(g, Refresh(g, Sampled, now, None))
    BY <1>6 DEF SetSafeState
  <2> HIDE DEF g
  <2>3. Sound(g, Sampled, now)
    BY <1>2, <2>1, SoundFields
  <2>4. QED
    BY <1>1, <1>2, <2>1, <2>2, <2>3, RefreshKeepsIInv
<1>7. ASSUME NEW ch \in Ch, NEW on \in BOOLEAN, SetPowerOn(ch, on) PROVE IInv'
  <2> DEFINE g == [cfg EXCEPT !.powerOn = IF on THEN @ \cup {ch} ELSE @ \ {ch}]
             c == [Sampled EXCEPT !.schedPrev[ch] = "unset"]
  <2>1. g \in Config /\ g.exclusiveSet = cfg.exclusiveSet /\ g.mode = cfg.mode
    BY <1>1 DEF Config
  <2>2. Call(g, Refresh(g, c, now, Local(wall)))
    BY <1>7 DEF SetPowerOn
  <2>3. /\ c \in Controller
        /\ c.relays = Sampled.relays
        /\ c.onSince = Sampled.onSince
        /\ c.capped = Sampled.capped
        /\ c.lastAccount = Sampled.lastAccount
    BY <1>2 DEF Controller, Wishes
  <2> HIDE DEF g, c
  <2>4. Sound(g, c, now)
    BY <1>2, <2>1, <2>3, SoundFields
  <2>5. QED
    BY <1>1, <1>2, <2>1, <2>2, <2>3, <2>4, RefreshKeepsIInv
<1>8. ASSUME NEW ch \in Ch, NEW set \in 0..MaxSets, SetExclusiveSet(ch, set) PROVE IInv'
  <2> DEFINE g == [cfg EXCEPT !.exclusiveSet[ch] = set]
             offs == {x \in Ch : \E first \in Sampled.relays : first < x /\ Interlocked(g, first, x)}
             d == SetRelays(g, Sampled, now, {}, offs)
  <2>1. g \in Config /\ g.mode = cfg.mode
    BY <1>1 DEF Config
  <2>2. Call(g, d)
    BY <1>8 DEF SetExclusiveSet, EnforceExclusive
  <2>3. offs \in SUBSET Ch
    OBVIOUS
  <2> HIDE DEF g
  <2>4. /\ d \in Controller
        /\ d.relays = Sampled.relays \ offs
        /\ d.capped = Sampled.capped
        /\ d.lastAccount = Sampled.lastAccount
    BY <1>1, <1>2, <2>1, <2>3, SetRelaysFrame, RelaysAfterBounds
  <2>5. Timed(d, now)
    BY <1>1, <1>2, <2>1, <2>3, SetRelaysTimed DEF Sound
  <2>6. Exclusive(g, d)
    <3> SUFFICES ASSUME NEW x \in d.relays, NEW y \in d.relays, Interlocked(g, x, y)
                 PROVE  FALSE
      BY DEF Exclusive
    <3>1. x \in Ch /\ y \in Ch /\ x # y /\ Interlocked(g, y, x)
      BY <2>4 DEF Controller, Interlocked
    <3>2. x < y \/ y < x
      BY <3>1, RelaysAssumption DEF Ch
    <3>3. QED
      BY <2>4, <3>1, <3>2
  <2>7. Sound(g, d, now)
    BY <1>2, <2>4, <2>5, <2>6 DEF Sound, Booked
  <2> HIDE DEF d
  <2>8. QED
    BY <1>1, <1>2, <2>1, <2>2, <2>4, <2>7, CallKeepsIInv
<1>9. ASSUME NEW hold \in Holds, SetRainHold(hold) PROVE IInv'
  <2> DEFINE until == IF hold = 0 \/ wall = None THEN 0 ELSE wall + hold
             c == [Sampled EXCEPT !.holdUntil = until]
  <2>1. until \in Nat
    BY <1>1, InputsAssumption
  <2>2. Call(cfg, Refresh(cfg, Forget(c), now, Local(wall)))
    BY <1>9 DEF SetRainHold
  <2> HIDE DEF until
  <2>3. /\ c \in Controller
        /\ c.relays = Sampled.relays
        /\ c.onSince = Sampled.onSince
        /\ c.capped = Sampled.capped
        /\ c.lastAccount = Sampled.lastAccount
    BY <1>2, <2>1 DEF Controller
  <2> HIDE DEF c
  <2>4. Sound(cfg, Forget(c), now) /\ Forget(c).relays = ctl.relays
    BY <1>2, <2>3, SoundFields, ForgetSound
  <2>5. QED
    BY <1>1, <2>2, <2>4, RefreshKeepsIInv
<1>10. ASSUME NEW secs \in Graces, SetOfflineGrace(secs) PROVE IInv'
  <2> DEFINE g == [cfg EXCEPT !.grace = secs]
  <2>1. g \in Config /\ g.exclusiveSet = cfg.exclusiveSet /\ g.mode = cfg.mode
    BY <1>1, InputsAssumption DEF Config
  <2>2. Call(g, Refresh(g, Sampled, now, Local(wall)))
    BY <1>10 DEF SetOfflineGrace
  <2> HIDE DEF g
  <2>3. Sound(g, Sampled, now)
    BY <1>2, <2>1, SoundFields
  <2>4. QED
    BY <1>1, <1>2, <2>1, <2>2, <2>3, RefreshKeepsIInv
<1>11. ASSUME NEW mode \in Modes, SetMode(mode) PROVE IInv'
  <2> DEFINE g == [cfg EXCEPT !.mode = mode]
             c == IF mode = "Off" THEN AllOff(g, Forget(Sampled), now) ELSE Forget(Sampled)
  <2>1. g \in Config /\ g.exclusiveSet = cfg.exclusiveSet /\ g.mode = mode
    BY <1>1 DEF Config
  <2>2. Call(g, Refresh(g, c, now, Local(wall)))
    BY <1>11 DEF SetMode
  <2> HIDE DEF g
  <2>3. Sound(g, Forget(Sampled), now)
    BY <1>2, <2>1, ForgetSound, SoundFields
  <2>4. Sound(g, AllOff(g, Forget(Sampled), now), now) /\ AllOff(g, Forget(Sampled), now).relays = {}
    <3>1. Forget(Sampled).relays \subseteq Ch
      BY <2>3 DEF Sound, Controller
    <3>2. QED
      BY <1>1, <2>1, <2>3, <3>1, SwitchOffSound DEF AllOff
  <2>5. Sound(g, c, now) /\ (g.mode = "Off" => c.relays = {})
    BY <2>1, <2>3, <2>4
  <2> HIDE DEF c
  <2>6. QED
    BY <1>1, <2>1, <2>2, <2>5, RefreshKeepsIInv
<1>12. QED
  BY <1>3, <1>4, <1>5, <1>6, <1>7, <1>8, <1>9, <1>10, <1>11 DEF Setting

-----------------------------------------------------------------------------
\* The invariant is inductive, for any number of relays and any inputs.
THEOREM ArbiterInvariant == Spec => []IInv
<1>1. Init => IInv
  BY InitIInv
<1>2. IInv /\ [Next]_vars => IInv'
  <2> SUFFICES ASSUME IInv, [Next]_vars PROVE IInv'
    OBVIOUS
  <2>1. CASE UNCHANGED vars
    BY <2>1 DEF vars, IInv, TypeOK, OffMeansOff, Sound, Exclusive, Interlocked, Timed, Booked
  <2>2. CASE Next
    BY <2>2, ClockKeepsIInv, HaLinkKeepsIInv, SwitchingKeepsIInv, SettingKeepsIInv DEF Next
  <2>3. QED
    BY <2>1, <2>2
<1>3. QED
  BY <1>1, <1>2, PTL DEF Spec

\* The arbiter's records always have their types.
THEOREM ArbiterTypeOK == Spec => []TypeOK
<1>1. IInv => TypeOK
  BY DEF IInv
<1>2. QED
  BY <1>1, ArbiterInvariant, PTL

\* No two relays of an exclusive set are ever on together, whatever commands,
\* schedules, power-up states and moves between sets come in which order.
THEOREM ArbiterExclusive == Spec => []ExclusiveInv
<1>1. IInv => ExclusiveInv
  BY DEF IInv, Sound, Exclusive, ExclusiveInv
<1>2. QED
  BY <1>1, ArbiterInvariant, PTL

\* In mode Off every relay stays off.
THEOREM ArbiterOffMeansOff == Spec => []OffMeansOff
<1>1. IInv => OffMeansOff
  BY DEF IInv
<1>2. QED
  BY <1>1, ArbiterInvariant, PTL

\* A relay blocked by its daily cap is off.
THEOREM ArbiterCappedOff == Spec => []CappedOff
<1>1. IInv => CappedOff
  BY DEF IInv, Sound, CappedOff
<1>2. QED
  BY <1>1, ArbiterInvariant, PTL

\* Every relay that is on is being timed, and no other.
THEOREM ArbiterTimers == Spec => []TimersMatchRelays
<1>1. IInv => TimersMatchRelays
  BY DEF IInv, Sound, Timed, TimersMatchRelays
<1>2. QED
  BY <1>1, ArbiterInvariant, PTL

-----------------------------------------------------------------------------
(***************************************************************************)
(* The limits: what a call may never do to them: lift a cap before         *)
(* midnight, leave a relay on past a limit, undo a trip.  All three are    *)
(* about what happens to a few fields of the controller between the start  *)
(* of a call and its end.                                                  *)
(***************************************************************************)

\* The account of the day is the same in both records.
SameDay(c, d) == d.today = c.today /\ d.capped = c.capped /\ d.onToday = c.onToday

\* The caps of c are in force in d, or the day has changed.
CapsHold(c, d) == d.today # c.today \/ c.capped \subseteq d.capped

-----------------------------------------------------------------------------
(***************************************************************************)
(* Only the account changes the account of the day.                        *)
(***************************************************************************)
LEMMA SetRelaysSameDay ==
  ASSUME NEW g, NEW c \in Controller, NEW t, NEW ons, NEW offs
  PROVE  LET d == SetRelays(g, c, t, ons, offs)
         IN /\ SameDay(c, d)
            /\ d.schedPrev = c.schedPrev
            /\ d.holdUntil = c.holdUntil
            /\ d.link = c.link
<1> DEFINE after == RelaysAfter(g, c, ons, offs)
           since == SetRelays(g, c, t, ons, offs).onSince
<1>1. SetRelays(g, c, t, ons, offs) = [c EXCEPT !.relays = after, !.onSince = since]
  BY DEF SetRelays, Controller
<1> HIDE DEF after, since
<1>2. QED
  BY <1>1 DEF SameDay, Controller

\* Forgetting wishes leaves the account of the day alone.
LEMMA ForgetSameDay ==
  ASSUME NEW c \in Controller
  PROVE  SameDay(c, Forget(c))
  BY DEF Forget, SameDay, Controller

\* So does the end of a rain hold.
LEMMA ExpireHoldSameDay ==
  ASSUME NEW c \in Controller
  PROVE  /\ SameDay(c, ExpireHold(c))
         /\ ExpireHold(c) = c \/ (c.holdUntil > 0 /\ ExpireHold(c).holdUntil = 0)
<1> DEFINE d == [c EXCEPT !.holdUntil = 0]
<1>1. d \in Controller /\ SameDay(c, d) /\ d.holdUntil = 0
  BY DEF Controller, SameDay
<1>2. ExpireHold(c) = IF c.holdUntil > 0 /\ ~RainHoldActive(c) THEN Forget(d) ELSE c
  BY DEF ExpireHold
<1> HIDE DEF d
<1>3. SameDay(c, Forget(d)) /\ Forget(d).holdUntil = 0
  BY <1>1, ForgetSameDay DEF SameDay, Forget, Controller
<1>4. QED
  BY <1>2, <1>3 DEF SameDay

\* Following the schedule, with its wishes noted.
LEMMA FollowScheduleSameDay ==
  ASSUME NEW g, NEW c \in Controller, NEW t, NEW lt, NEW changed
  PROVE  SameDay(c, FollowSchedule(g, c, t, lt, changed))
<1> DEFINE targets == Targets(g, c, lt)
           wish == Wish(targets)
           driven == Driven(g, c, wish, changed)
           noted == [c EXCEPT !.schedPrev = wish]
<1>1. wish \in [Ch -> Wishes]
  BY DEF Wish, Wishes
<1>2. noted \in Controller /\ SameDay(c, noted)
  <2> HIDE DEF wish
  <2>1. QED
    BY <1>1 DEF Controller, SameDay
<1>3. FollowSchedule(g, c, t, lt, changed) =
        IF lt = None THEN c
        ELSE SetRelays(g, noted, t, driven \cap targets, driven \ targets)
  BY DEF FollowSchedule
<1> HIDE DEF noted, driven, targets
<1>4. SameDay(noted, SetRelays(g, noted, t, driven \cap targets, driven \ targets))
  BY <1>2, SetRelaysSameDay
<1>5. QED
  BY <1>2, <1>3, <1>4 DEF SameDay

\* A re-evaluation is an account, the link, and steps that leave the account alone,
\* of which the safeguard is the last.
LEMMA RefreshParts ==
  ASSUME NEW g \in Config, NEW c, NEW t \in Nat, NEW lt \in LocalTime \cup {None},
         Sound(g, c, t)
  PROVE  LET a == Account(g, c, t, lt)
             link == ComputeLink(g, a, t)
             b == ExpireHold([a EXCEPT !.link = link])
             e == Evaluate(g, b, t, lt, link # a.link)
             d == Refresh(g, c, t, lt)
         IN /\ Sound(g, a, t) /\ Sound(g, b, t) /\ Sound(g, e, t)
            /\ [a EXCEPT !.link = link] \in Controller
            /\ b.relays = a.relays
            /\ b.link = link
            /\ d = PollSafeguard(g, e, t)
            /\ SameDay(a, d)
<1> DEFINE a == Account(g, c, t, lt)
           link == ComputeLink(g, a, t)
           linked == [a EXCEPT !.link = link]
           b == ExpireHold(linked)
           f == FollowSchedule(g, b, t, lt, link # a.link)
           e == Evaluate(g, b, t, lt, link # a.link)
           d == Refresh(g, c, t, lt)
<1>1. Sound(g, a, t)
  BY AccountSound
<1>2. link \in Links
  BY DEF ComputeLink, Links
<1> HIDE DEF a, link
<1>3. /\ linked \in Controller
      /\ linked.relays = a.relays
      /\ linked.onSince = a.onSince
      /\ linked.capped = a.capped
      /\ linked.lastAccount = a.lastAccount
      /\ linked.link = link
      /\ SameDay(a, linked)
  BY <1>1, <1>2 DEF Controller, Sound, SameDay
<1>4. Sound(g, linked, t)
  <2> HIDE DEF linked
  <2>1. QED
    BY <1>1, <1>3, SoundFields
<1> HIDE DEF linked
<1>5. Sound(g, b, t) /\ b.relays = a.relays /\ b.link = link /\ SameDay(a, b)
  BY <1>3, <1>4, ExpireHoldSound, ExpireHoldSameDay DEF SameDay
<1> HIDE DEF b
<1>6. Sound(g, f, t) /\ SameDay(a, f)
  <2>1. b \in Controller
    BY <1>5 DEF Sound
  <2>2. QED
    BY <1>5, <2>1, FollowScheduleSound, FollowScheduleSameDay DEF SameDay
<1>7. Sound(g, e, t) /\ SameDay(a, e)
  <2>1. f \in Controller
    BY <1>6 DEF Sound
  <2> DEFINE h == HoldSafeState(g, f, t, link # a.link)
  <2>2. e = IF g.mode = "Off" THEN b ELSE h
    BY DEF Evaluate
  <2> HIDE DEF f
  <2>3. Sound(g, h, t)
    BY <1>6, HoldSafeStateSound
  <2>4. SameDay(a, h)
    BY <1>6, <2>1, SetRelaysSameDay DEF HoldSafeState, SameDay
  <2> HIDE DEF e, h
  <2>5. QED
    BY <1>5, <2>2, <2>3, <2>4
<1>8. d = PollSafeguard(g, e, t)
  BY DEF Refresh, a, link, linked, b
<1> HIDE DEF e
<1>9. SameDay(a, PollSafeguard(g, e, t))
  <2>1. e \in Controller
    BY <1>7 DEF Sound
  <2>2. QED
    BY <1>7, <2>1, SetRelaysSameDay DEF PollSafeguard, SameDay
<1> HIDE DEF d
<1>10. QED
  BY <1>1, <1>3, <1>5, <1>7, <1>8, <1>9 DEF a, link, linked, b, e, d

-----------------------------------------------------------------------------
(***************************************************************************)
(* The account itself.                                                     *)
(***************************************************************************)

\* The account lifts caps only with a new day, caps a relay that reached its limit,
\* and keeps the link, the hold, and the wish of a channel that was not capped.
LEMMA AccountCaps ==
  ASSUME NEW g \in Config, NEW c, NEW t \in Nat, NEW lt \in LocalTime \cup {None},
         Sound(g, c, t)
  PROVE  LET a == Account(g, c, t, lt)
         IN /\ CapsHold(c, a)
            /\ lt = None => c.capped \subseteq a.capped
            /\ \A ch \in c.relays : CapReached(g, ch, a.onToday[ch]) => ch \in a.capped
            /\ a.link = c.link
            /\ a.holdUntil = c.holdUntil
            /\ \A ch \in Ch \ c.capped : a.schedPrev[ch] = c.schedPrev[ch]
<1> DEFINE rolled == lt # None /\ c.today # None /\ c.today # lt.day
           delta == Elapsed(c, t)
           onToday == [ch \in Ch |-> (IF rolled THEN 0 ELSE c.onToday[ch])
                                       + (IF ch \in c.relays THEN delta ELSE 0)]
           reached == {ch \in c.relays : CapReached(g, ch, onToday[ch])}
           prev == [ch \in Ch |-> IF rolled /\ ch \in c.capped THEN "unset" ELSE c.schedPrev[ch]]
           capped == (IF rolled THEN {} ELSE c.capped) \cup reached
           today == IF lt = None THEN c.today ELSE lt.day
           booked == [c EXCEPT !.onToday = onToday, !.schedPrev = prev, !.capped = capped,
                               !.today = today, !.lastAccount = t]
<1>1. c \in Controller
  BY DEF Sound
<1>2. delta \in Nat
  BY <1>1 DEF Sound, Booked, Controller, Elapsed
<1>3. onToday \in [Ch -> Nat]
  <2> HIDE DEF delta, rolled
  <2>1. \A ch \in Ch : c.onToday[ch] \in Nat
    BY <1>1 DEF Controller
  <2>2. QED
    BY <1>2, <2>1
<1>4. reached \in SUBSET Ch /\ capped \in SUBSET Ch
  BY <1>1 DEF Controller
<1>5. prev \in [Ch -> Wishes]
  BY <1>1 DEF Controller, Wishes
<1>6. today \in Nat \cup {None}
  BY <1>1 DEF Controller, LocalTime
<1>7. /\ booked \in Controller
      /\ booked.today = today
      /\ booked.capped = capped
      /\ booked.onToday = onToday
      /\ booked.schedPrev = prev
      /\ booked.link = c.link
      /\ booked.holdUntil = c.holdUntil
  <2> HIDE DEF onToday, prev, capped, today
  <2>1. QED
    BY <1>1, <1>3, <1>4, <1>5, <1>6 DEF Controller
<1> DEFINE a == Account(g, c, t, lt)
<1>8. a = SetRelays(g, booked, t, {}, reached)
  BY DEF Account
<1> HIDE DEF booked, a
<1>9. /\ a.today = today
      /\ a.capped = capped
      /\ a.onToday = onToday
      /\ a.schedPrev = prev
      /\ a.link = c.link
      /\ a.holdUntil = c.holdUntil
  <2> HIDE DEF today, capped, onToday, prev, reached
  <2>1. QED
    BY <1>7, <1>8, SetRelaysSameDay DEF SameDay
<1>10. CapsHold(c, a)
  <2> HIDE DEF reached, onToday
  <2>1. CASE rolled
    BY <1>9, <2>1 DEF CapsHold
  <2>2. CASE ~rolled
    BY <1>9, <2>2 DEF CapsHold
  <2>3. QED
    BY <2>1, <2>2
<1>11. lt = None => c.capped \subseteq a.capped
  BY <1>9
<1>12. \A ch \in c.relays : CapReached(g, ch, a.onToday[ch]) => ch \in a.capped
  BY <1>9
<1>13. \A ch \in Ch \ c.capped : a.schedPrev[ch] = c.schedPrev[ch]
  BY <1>9
<1>14. QED
  BY <1>9, <1>10, <1>11, <1>12, <1>13 DEF a

\* So no re-evaluation lifts a cap before the day changes.
LEMMA RefreshCaps ==
  ASSUME NEW g \in Config, NEW c, NEW t \in Nat, NEW lt \in LocalTime \cup {None},
         Sound(g, c, t)
  PROVE  CapsHold(c, Refresh(g, c, t, lt))
<1> DEFINE a == Account(g, c, t, lt)
           d == Refresh(g, c, t, lt)
<1>1. CapsHold(c, a)
  BY AccountCaps
<1>2. SameDay(a, d)
  BY RefreshParts
<1> HIDE DEF a, d
<1>3. CapsHold(c, d)
  BY <1>1, <1>2 DEF CapsHold, SameDay
<1>4. QED
  BY <1>3 DEF d

-----------------------------------------------------------------------------
(***************************************************************************)
(* Caps hold until midnight.                                               *)
(***************************************************************************)

\* What a call must do for CapHoldsUntilMidnight.
Capping == CapsHold(ctl, ctl')

\* What a handler passes on differs from the controller only in what it notes of
\* the message: links, wishes, holds.
Noted(c) ==
  /\ c \in Controller
  /\ c.relays = ctl.relays
  /\ c.onSince = ctl.onSince
  /\ c.lastAccount = ctl.lastAccount
  /\ SameDay(ctl, c)

\* Sampling the clock and noting a sign of life are of that kind.
LEMMA NotedSampled ==
  ASSUME IInv
  PROVE  Noted(Sampled) /\ Noted(Seen)
<1>1. ctl \in Controller /\ wall \in Nat \cup {None} /\ now \in Nat
  BY DEF IInv, TypeOK
<1>2. Noted(Sampled)
  BY <1>1, SampledSound DEF Sampled, SameDay, Controller, Noted
<1>3. Noted(Seen)
  BY <1>1, <1>2 DEF Seen, SameDay, Controller, Noted
<1>4. QED
  BY <1>2, <1>3

\* Forgetting wishes too.
LEMMA NotedForget ==
  ASSUME NEW c, Noted(c)
  PROVE  Noted(Forget(c))
<1>1. [ch \in Ch |-> "unset"] \in [Ch -> Wishes]
  BY DEF Wishes
<1>2. QED
  BY <1>1 DEF Noted, Forget, Controller, SameDay

\* A handler that re-evaluates what it noted lifts no cap.
LEMMA NotedCaps ==
  ASSUME IInv, NEW g \in Config, g.exclusiveSet = cfg.exclusiveSet,
         NEW c, Noted(c), NEW lt \in LocalTime \cup {None},
         ctl' = Refresh(g, c, now, lt)
  PROVE  Capping
<1>1. now \in Nat /\ Sound(cfg, ctl, now)
  BY DEF IInv, TypeOK
<1>2. Sound(g, c, now)
  BY <1>1, SoundFields DEF Noted, SameDay
<1>3. CapsHold(c, ctl')
  BY <1>1, <1>2, RefreshCaps
<1>4. QED
  BY <1>3 DEF Capping, CapsHold, Noted, SameDay

\* One that only switches relays lifts none.
LEMMA SwitchCaps ==
  ASSUME NEW c \in Controller, SameDay(ctl, c), NEW g, NEW ons, NEW offs,
         ctl' = SetRelays(g, c, now, ons, offs)
  PROVE  Capping
  BY SetRelaysSameDay DEF Capping, CapsHold, SameDay

\* Ticks, the clock and the presence of Home Assistant lift no cap.
LEMMA LinkAndClockCaps == IInv /\ (Tick \/ Clock \/ HaLink) => Capping
<1> SUFFICES ASSUME IInv, Tick \/ Clock \/ HaLink PROVE Capping
  OBVIOUS
<1>1. /\ cfg \in Config
      /\ ctl \in Controller
      /\ now \in Nat
      /\ wall \in Nat \cup {None}
      /\ Local(wall) \in LocalTime \cup {None}
  BY LocalType DEF IInv, TypeOK
<1>2. Noted(Sampled) /\ Noted(Seen)
  BY NotedSampled
<1>3. CASE Tick
  BY <1>1, <1>2, <1>3, NotedCaps DEF Tick, Call
<1>4. CASE Advance
  BY <1>4 DEF Advance, Capping, CapsHold
<1>5. ASSUME NEW w \in Clocks, SetClock(w) PROVE Capping
  BY <1>5 DEF SetClock, Capping, CapsHold
<1> DEFINE known == [Sampled EXCEPT !.timeKnown = TRUE]
<1>6. Noted(known)
  BY <1>2 DEF Noted, Controller, SameDay
<1> HIDE DEF known
<1>7. CASE TimeKnown
  <2>1. ctl' = Refresh(cfg, known, now, Local(wall))
    BY <1>7 DEF TimeKnown, Call, known
  <2>2. QED
    BY <1>1, <1>6, <2>1, NotedCaps
<1>8. ASSUME NEW w \in Clocks, HaTime(w) PROVE Capping
  <2>1. w \in Nat /\ Local(w) \in LocalTime \cup {None}
    BY InputsAssumption, LocalType
  <2>2. ctl' = IF ctl.timeKnown THEN Sampled ELSE Refresh(cfg, known, now, Local(w))
    BY <1>8 DEF HaTime, known
  <2>3. CASE ctl.timeKnown
    BY <1>2, <2>2, <2>3 DEF Noted, Capping, CapsHold, SameDay
  <2>4. CASE ~ctl.timeKnown
    BY <1>1, <1>6, <2>1, <2>2, <2>4, NotedCaps
  <2>5. QED
    BY <2>3, <2>4
<1>9. CASE HaConnected
  <2> DEFINE c == [Sampled EXCEPT !.connected = TRUE, !.declaredOffline = FALSE, !.lastSeen = now]
  <2>1. Noted(c) /\ ctl' = Refresh(cfg, c, now, None)
    BY <1>1, <1>2, <1>9 DEF Noted, Controller, SameDay, HaConnected, Call
  <2> HIDE DEF c
  <2>2. QED
    BY <1>1, <2>1, NotedCaps
<1>10. CASE HaDisconnected
  <2> DEFINE c == [Sampled EXCEPT !.connected = FALSE]
  <2>1. Noted(c) /\ ctl' = Refresh(cfg, c, now, Local(wall))
    BY <1>2, <1>10 DEF Noted, Controller, SameDay, HaDisconnected, Call
  <2> HIDE DEF c
  <2>2. QED
    BY <1>1, <2>1, NotedCaps
<1>11. CASE HaSeen
  BY <1>1, <1>2, <1>11, NotedCaps DEF HaSeen, Call
<1>12. CASE HaOffline
  <2> DEFINE c == [Sampled EXCEPT !.declaredOffline = TRUE]
  <2>1. Noted(c) /\ ctl' = Refresh(cfg, c, now, Local(wall))
    BY <1>2, <1>12 DEF Noted, Controller, SameDay, HaOffline, Call
  <2> HIDE DEF c
  <2>2. QED
    BY <1>1, <2>1, NotedCaps
<1>13. QED
  BY <1>3, <1>4, <1>5, <1>7, <1>8, <1>9, <1>10, <1>11, <1>12 DEF Clock, HaLink

\* Nor does switching.
LEMMA SwitchingCaps == IInv /\ (Command \/ Override \/ AllOffButton) => Capping
<1> SUFFICES ASSUME IInv, Command \/ Override \/ AllOffButton PROVE Capping
  OBVIOUS
<1>1. cfg \in Config /\ ctl \in Controller /\ now \in Nat
  BY DEF IInv, TypeOK
<1>2. Noted(Sampled) /\ Noted(Seen)
  BY NotedSampled
<1>3. ASSUME NEW ch \in Ch, NEW on \in BOOLEAN, HaCommand(ch, on) PROVE Capping
  <2> DEFINE c == Refresh(cfg, Seen, now, None)
             d == SetRelays(cfg, c, now, IF on THEN {ch} ELSE {}, IF on THEN {} ELSE {ch})
             e == CommandRelay(cfg, c, now, ch, on)
  <2>1. Sound(cfg, c, now)
    BY <1>1, SeenSound, RefreshSound
  <2>2. CapsHold(ctl, c)
    <3>1. CapsHold(Seen, c)
      BY <1>1, SeenSound, RefreshCaps
    <3> HIDE DEF c
    <3>2. QED
      BY <1>2, <3>1 DEF CapsHold, Noted, SameDay
  <2>3. ctl' = IF cfg.mode = "Off" \/ c.link # "Online" THEN c ELSE e
    BY <1>3 DEF HaCommand, Call
  <2> HIDE DEF c
  <2>4. c \in Controller
    BY <2>1 DEF Sound
  <2>5. SameDay(c, d)
    BY <2>4, SetRelaysSameDay
  <2>6. d \in Controller
    <3>1. (IF on THEN {ch} ELSE {}) \in SUBSET Ch /\ (IF on THEN {} ELSE {ch}) \in SUBSET Ch
      OBVIOUS
    <3>2. QED
      BY <1>1, <2>4, <3>1, SetRelaysFrame
  <2>7. SameDay(d, e)
    BY <2>6 DEF CommandRelay, SameDay, Controller
  <2> HIDE DEF d, e
  <2>8. QED
    BY <2>2, <2>3, <2>5, <2>7 DEF Capping, CapsHold, SameDay
<1>4. ASSUME NEW ch \in Ch, NEW on \in BOOLEAN, LocalCommand(ch, on) PROVE Capping
  BY <1>2, <1>4, SwitchCaps DEF LocalCommand, Call, Noted
<1>5. CASE AllOffButton
  BY <1>2, <1>5, SwitchCaps DEF AllOffButton, AllOff, Call, Noted
<1>6. QED
  BY <1>3, <1>4, <1>5 DEF Command, Override

\* A cap is lifted by hand only by the call that removes the limit of its relay.
CapsLifted == \A ch \in ctl.capped \ ctl'.capped : ctl'.today # ctl.today \/ SetMaxDaily(ch, 0)

\* A step that lifts caps at a change of the day only.
LEMMA CappingIsEnough == Capping => CapsLifted
  BY DEF Capping, CapsHold, CapsLifted

\* Of the settings only the removal of a limit lifts one.
LEMMA SettingCaps == IInv /\ Setting => CapsLifted
<1> SUFFICES ASSUME IInv, Setting PROVE CapsLifted
  OBVIOUS
<1>1. /\ cfg \in Config
      /\ ctl \in Controller
      /\ now \in Nat
      /\ wall \in Nat \cup {None}
      /\ Local(wall) \in LocalTime \cup {None}
      /\ Sound(cfg, ctl, now)
  BY LocalType DEF IInv, TypeOK
<1>2. Noted(Sampled) /\ Noted(Forget(Sampled))
  BY NotedSampled, NotedForget
<1>3. ASSUME NEW s \in Schedules, SetSchedule(s) PROVE Capping
  <2> DEFINE g == [cfg EXCEPT !.schedule = s]
  <2>1. g \in Config /\ g.exclusiveSet = cfg.exclusiveSet
    BY <1>1, InputsAssumption DEF Config
  <2>2. ctl' = Refresh(g, Forget(Sampled), now, Local(wall))
    BY <1>3 DEF SetSchedule, Call
  <2> HIDE DEF g
  <2>3. QED
    BY <1>1, <1>2, <2>1, <2>2, NotedCaps
<1>4. ASSUME NEW ch \in Ch, NEW limit \in Limits, SetMaxOn(ch, limit) PROVE Capping
  BY <1>2, <1>4, SwitchCaps DEF SetMaxOn, PollSafeguard, Call, Noted
<1>5. ASSUME NEW ch \in Ch, NEW limit \in Limits, SetMaxDaily(ch, limit) PROVE CapsLifted
  <2> DEFINE g == [cfg EXCEPT !.maxDaily[ch] = limit]
             freed == [Sampled EXCEPT !.capped = @ \ {ch}, !.schedPrev[ch] = "unset"]
             lifted == limit = 0 /\ ch \in ctl.capped
             c == IF lifted THEN freed ELSE Sampled
  <2>1. g \in Config /\ g.exclusiveSet = cfg.exclusiveSet
    BY <1>1, InputsAssumption DEF Config
  <2>2. ctl' = Account(g, c, now, None)
    BY <1>5 DEF SetMaxDaily, Call
  <2>3. /\ freed \in Controller
        /\ freed.relays = ctl.relays
        /\ freed.onSince = ctl.onSince
        /\ freed.capped = ctl.capped \ {ch}
        /\ freed.lastAccount = ctl.lastAccount
    BY <1>2 DEF Noted, SameDay, Controller, Wishes
  <2> HIDE DEF g, freed
  <2>4. Sound(g, c, now) /\ ctl.capped \subseteq c.capped \cup (IF lifted THEN {ch} ELSE {})
    BY <1>1, <1>2, <2>1, <2>3, SoundFields DEF Noted, SameDay
  <2> HIDE DEF c
  <2>5. c.capped \subseteq ctl'.capped
    BY <1>1, <2>1, <2>2, <2>4, AccountCaps
  <2>6. \A other \in ctl.capped \ ctl'.capped : lifted /\ other = ch
    BY <2>4, <2>5
  <2>7. lifted => SetMaxDaily(ch, 0)
    BY <1>5
  <2> HIDE DEF lifted
  <2>8. QED
    BY <2>6, <2>7 DEF CapsLifted
<1>6. ASSUME NEW ch \in Ch, NEW on \in BOOLEAN, SetSafeState(ch, on) PROVE Capping
  <2> DEFINE g == [cfg EXCEPT !.safeState = IF on THEN @ \cup {ch} ELSE @ \ {ch}]
  <2>1. g \in Config /\ g.exclusiveSet = cfg.exclusiveSet
    BY <1>1 DEF Config
  <2>2. ctl' = Refresh(g, Sampled, now, None)
    BY <1>6 DEF SetSafeState, Call
  <2> HIDE DEF g
  <2>3. QED
    BY <1>1, <1>2, <2>1, <2>2, NotedCaps
<1>7. ASSUME NEW ch \in Ch, NEW on \in BOOLEAN, SetPowerOn(ch, on) PROVE Capping
  <2> DEFINE g == [cfg EXCEPT !.powerOn = IF on THEN @ \cup {ch} ELSE @ \ {ch}]
             c == [Sampled EXCEPT !.schedPrev[ch] = "unset"]
  <2>1. g \in Config /\ g.exclusiveSet = cfg.exclusiveSet
    BY <1>1 DEF Config
  <2>2. Noted(c)
    BY <1>2 DEF Noted, SameDay, Controller, Wishes
  <2>3. ctl' = Refresh(g, c, now, Local(wall))
    BY <1>7 DEF SetPowerOn, Call
  <2> HIDE DEF g, c
  <2>4. QED
    BY <1>1, <2>1, <2>2, <2>3, NotedCaps
<1>8. ASSUME NEW ch \in Ch, NEW set \in 0..MaxSets, SetExclusiveSet(ch, set) PROVE Capping
  BY <1>2, <1>8, SwitchCaps DEF SetExclusiveSet, EnforceExclusive, Call, Noted
<1>9. ASSUME NEW hold \in Holds, SetRainHold(hold) PROVE Capping
  <2> DEFINE until == IF hold = 0 \/ wall = None THEN 0 ELSE wall + hold
             c == [Sampled EXCEPT !.holdUntil = until]
  <2>1. until \in Nat
    BY <1>1, InputsAssumption
  <2>2. ctl' = Refresh(cfg, Forget(c), now, Local(wall))
    BY <1>9 DEF SetRainHold, Call
  <2> HIDE DEF until
  <2>3. Noted(c)
    BY <1>2, <2>1 DEF Noted, SameDay, Controller
  <2> HIDE DEF c
  <2>4. QED
    BY <1>1, <2>2, <2>3, NotedForget, NotedCaps
<1>10. ASSUME NEW secs \in Graces, SetOfflineGrace(secs) PROVE Capping
  <2> DEFINE g == [cfg EXCEPT !.grace = secs]
  <2>1. g \in Config /\ g.exclusiveSet = cfg.exclusiveSet
    BY <1>1, InputsAssumption DEF Config
  <2>2. ctl' = Refresh(g, Sampled, now, Local(wall))
    BY <1>10 DEF SetOfflineGrace, Call
  <2> HIDE DEF g
  <2>3. QED
    BY <1>1, <1>2, <2>1, <2>2, NotedCaps
<1>11. ASSUME NEW mode \in Modes, SetMode(mode) PROVE Capping
  <2> DEFINE g == [cfg EXCEPT !.mode = mode]
             off == AllOff(g, Forget(Sampled), now)
             c == IF mode = "Off" THEN off ELSE Forget(Sampled)
  <2>1. g \in Config /\ g.exclusiveSet = cfg.exclusiveSet
    BY <1>1 DEF Config
  <2>2. ctl' = Refresh(g, c, now, Local(wall))
    BY <1>11 DEF SetMode, Call
  <2> HIDE DEF g
  <2>3. Sound(g, Forget(Sampled), now)
    BY <1>1, <1>2, <2>1, SoundFields DEF Noted, SameDay
  <2>4. Sound(g, off, now)
    BY <1>1, <2>1, <2>3, SwitchOffSound DEF AllOff
  <2>5. SameDay(ctl, off)
    BY <1>2, SetRelaysSameDay DEF Noted, SameDay, AllOff
  <2> HIDE DEF off
  <2>6. Sound(g, c, now) /\ SameDay(ctl, c)
    BY <1>2, <2>3, <2>4, <2>5 DEF Noted
  <2> HIDE DEF c
  <2>7. CapsHold(c, ctl')
    BY <1>1, <2>1, <2>2, <2>6, RefreshCaps
  <2>8. QED
    BY <2>6, <2>7 DEF Capping, CapsHold, SameDay
<1>12. Capping \/ CapsLifted
  BY <1>3, <1>4, <1>5, <1>6, <1>7, <1>8, <1>9, <1>10, <1>11 DEF Setting
<1>13. QED
  BY <1>12, CappingIsEnough

\* A relay that reached its daily cap stays blocked until the local day changes or
\* its limit is removed: no command, reconnection, setting or clock lifts it.
THEOREM LimitsCapHolds == Spec => CapHoldsUntilMidnight
<1>1. IInv /\ [Next]_vars => [CapsLifted]_vars
  <2> SUFFICES ASSUME IInv, Next PROVE CapsLifted
    OBVIOUS
  <2>1. QED
    BY LinkAndClockCaps, SwitchingCaps, SettingCaps, CappingIsEnough DEF Next
<1>2. Spec => [][CapsLifted]_vars
  BY <1>1, ArbiterInvariant, PTL DEF Spec
<1>3. QED
  BY <1>2 DEF CapHoldsUntilMidnight, CapsLifted

-----------------------------------------------------------------------------
(***************************************************************************)
(* A tick leaves no relay on past a limit.                                 *)
(***************************************************************************)

\* What the safeguard leaves on has time left: a relay that stays on keeps its timer.
LEMMA NothingExpired ==
  ASSUME NEW g \in Config, NEW e, NEW t \in Nat, Sound(g, e, t)
  PROVE  Expired(g, PollSafeguard(g, e, t), t) = {}
<1> DEFINE d == PollSafeguard(g, e, t)
<1>1. Expired(g, e, t) \in SUBSET Ch
  BY DEF Expired
<1>2. Sound(g, d, t) /\ d.relays = e.relays \ Expired(g, e, t)
  BY <1>1, SwitchOffSound DEF PollSafeguard
<1>3. \A ch \in d.relays : d.onSince[ch] = e.onSince[ch]
  <2>1. e \in Controller /\ d.relays = RelaysAfter(g, e, {}, Expired(g, e, t))
    BY <1>2, RelaysAfterBounds DEF Sound
  <2>2. d.relays \subseteq Ch \cap e.relays
    BY <1>2, <2>1 DEF Controller
  <2>3. \A ch \in Ch : d.onSince[ch] =
          IF ch \in d.relays \cap e.relays /\ Rivals(g, e, {}, ch) = {} THEN e.onSince[ch]
          ELSE IF ch \in d.relays THEN t ELSE None
    <3>1. \A ch \in Ch : SetRelays(g, e, t, {}, Expired(g, e, t)).onSince[ch] =
            IF /\ ch \in RelaysAfter(g, e, {}, Expired(g, e, t)) \cap e.relays
               /\ Rivals(g, e, {}, ch) = {}
            THEN e.onSince[ch]
            ELSE IF ch \in RelaysAfter(g, e, {}, Expired(g, e, t)) THEN t ELSE None
      BY <2>1 DEF SetRelays, Controller
    <3>2. QED
      BY <2>1, <3>1 DEF PollSafeguard
  <2>4. \A ch \in Ch : Rivals(g, e, {}, ch) = {}
    BY DEF Rivals
  <2>5. QED
    BY <2>2, <2>3, <2>4
<1> HIDE DEF d
<1>4. ASSUME NEW ch \in Expired(g, d, t) PROVE FALSE
  <2>1. ch \in Ch /\ d.onSince[ch] # None
    BY <1>4 DEF Expired
  <2>2. ch \in d.relays
    BY <1>2, <2>1 DEF Sound, Timed
  <2>3. ch \in Expired(g, e, t)
    BY <1>3, <1>4, <2>2 DEF Expired
  <2>4. QED
    BY <1>2, <2>2, <2>3
<1>5. QED
  BY <1>4 DEF d

\* After any tick no relay is on past its maximum on-time, and none that was on
\* before is past its daily cap, whatever the plan, the link and the clock did.
THEOREM LimitsEnforced == Spec => TickEnforcesLimits
<1> DEFINE Enforced ==
             /\ Expired(cfg, ctl', now) = {}
             /\ \A ch \in ctl.relays \cap ctl'.relays :
                  cfg.maxDaily[ch] = 0 \/ ctl'.onToday[ch] < cfg.maxDaily[ch]
<1>1. ASSUME IInv, Tick PROVE Enforced
  <2> DEFINE lt == Local(wall)
             a == Account(cfg, Sampled, now, lt)
             d == Refresh(cfg, Sampled, now, lt)
  <2>1. /\ cfg \in Config
        /\ now \in Nat
        /\ lt \in LocalTime \cup {None}
        /\ Sound(cfg, Sampled, now)
        /\ Sampled.relays = ctl.relays
    BY <1>1, SampledSound, LocalType DEF IInv, TypeOK
  <2>2. ctl' = d
    BY <1>1 DEF Tick, Call
  <2> HIDE DEF lt
  <2>3. PICK e : Sound(cfg, e, now) /\ d = PollSafeguard(cfg, e, now)
    <3> DEFINE link == ComputeLink(cfg, a, now)
               b == ExpireHold([a EXCEPT !.link = link])
               f == Evaluate(cfg, b, now, lt, link # a.link)
    <3>1. Sound(cfg, f, now) /\ d = PollSafeguard(cfg, f, now)
      BY <2>1, RefreshParts
    <3>2. QED
      BY <3>1
  <2>4. SameDay(a, d)
    BY <2>1, RefreshParts
  <2>5. \A ch \in ctl.relays : CapReached(cfg, ch, a.onToday[ch]) => ch \in a.capped
    BY <2>1, AccountCaps
  <2>6. Sound(cfg, d, now)
    BY <2>1, RefreshSound
  <2> HIDE DEF a, d
  <2>7. Expired(cfg, ctl', now) = {}
    BY <2>1, <2>2, <2>3, NothingExpired
  <2>8. ASSUME NEW ch \in ctl.relays \cap ctl'.relays
        PROVE  cfg.maxDaily[ch] = 0 \/ ctl'.onToday[ch] < cfg.maxDaily[ch]
    <3>1. ch \notin d.capped /\ ch \in Ch
      BY <2>2, <2>6, <2>8 DEF Sound, Controller
    <3>2. ~CapReached(cfg, ch, d.onToday[ch])
      BY <2>4, <2>5, <2>8, <3>1 DEF SameDay
    <3>3. cfg.maxDaily[ch] \in Nat /\ d.onToday[ch] \in Nat
      BY <2>1, <2>6, <3>1 DEF Config, Sound, Controller
    <3>4. QED
      BY <2>2, <3>2, <3>3 DEF CapReached
  <2>9. QED
    BY <2>7, <2>8
<1>2. IInv /\ [Next]_vars => [Tick => Enforced]_vars
  BY <1>1
<1>3. Spec => [][Tick => Enforced]_vars
  BY <1>2, ArbiterInvariant, PTL DEF Spec
<1>4. QED
  BY <1>3 DEF TickEnforcesLimits

-----------------------------------------------------------------------------
(***************************************************************************)
(* A tick does not undo a trip.                                            *)
(***************************************************************************)

\* Following the schedule with an unchanged link switches on no relay whose wish
\* was noted as on.
LEMMA FollowOnlyNews ==
  ASSUME NEW g, NEW b \in Controller, NEW t, NEW lt, NEW ch \in Ch,
         ch \notin b.relays, b.schedPrev[ch] = "on"
  PROVE  ch \notin FollowSchedule(g, b, t, lt, FALSE).relays
<1> DEFINE targets == Targets(g, b, lt)
           wish == Wish(targets)
           driven == Driven(g, b, wish, FALSE)
           noted == [b EXCEPT !.schedPrev = wish]
<1>1. FollowSchedule(g, b, t, lt, FALSE) =
        IF lt = None THEN b
        ELSE SetRelays(g, noted, t, driven \cap targets, driven \ targets)
  BY DEF FollowSchedule
<1>2. noted \in Controller /\ noted.relays = b.relays
  <2>1. wish \in [Ch -> Wishes]
    BY DEF Wish, Wishes
  <2> HIDE DEF wish
  <2>2. QED
    BY <2>1 DEF Controller
<1>3. ch \notin driven \cap targets
  BY DEF Driven, Wish
<1> HIDE DEF noted, driven, targets
<1>4. SetRelays(g, noted, t, driven \cap targets, driven \ targets).relays
        = RelaysAfter(g, noted, driven \cap targets, driven \ targets)
  BY <1>2 DEF SetRelays, Controller
<1>5. RelaysAfter(g, noted, driven \cap targets, driven \ targets)
        \subseteq (driven \cap targets) \cup b.relays
  BY <1>2, RelaysAfterBounds
<1>6. QED
  BY <1>1, <1>3, <1>4, <1>5

\* Neither Evaluate nor the safeguard changes link and hold.
LEMMA LinkAndHoldKept ==
  ASSUME NEW g \in Config, NEW b, NEW t \in Nat, NEW lt, NEW changed, Sound(g, b, t)
  PROVE  LET e == Evaluate(g, b, t, lt, changed)
             d == PollSafeguard(g, e, t)
         IN d.link = b.link /\ d.holdUntil = b.holdUntil
<1> DEFINE targets == Targets(g, b, lt)
           wish == Wish(targets)
           driven == Driven(g, b, wish, changed)
           noted == [b EXCEPT !.schedPrev = wish]
           f == FollowSchedule(g, b, t, lt, changed)
           h == HoldSafeState(g, f, t, changed)
           e == Evaluate(g, b, t, lt, changed)
<1>1. b \in Controller
  BY DEF Sound
<1>2. noted \in Controller /\ noted.link = b.link /\ noted.holdUntil = b.holdUntil
  <2>1. wish \in [Ch -> Wishes]
    BY DEF Wish, Wishes
  <2> HIDE DEF wish
  <2>2. QED
    BY <1>1, <2>1 DEF Controller
<1>3. f = IF lt = None THEN b
          ELSE SetRelays(g, noted, t, driven \cap targets, driven \ targets)
  BY DEF FollowSchedule
<1>4. Sound(g, f, t) /\ Sound(g, h, t)
  BY FollowScheduleSound, HoldSafeStateSound
<1> HIDE DEF noted, driven, targets
<1>5. f.link = b.link /\ f.holdUntil = b.holdUntil
  BY <1>2, <1>3, SetRelaysSameDay
<1> HIDE DEF f
<1>6. h.link = b.link /\ h.holdUntil = b.holdUntil
  BY <1>4, <1>5, SetRelaysSameDay DEF HoldSafeState, Sound
<1>7. e = IF g.mode = "Off" THEN b ELSE h
  BY DEF Evaluate, f
<1> HIDE DEF h, e
<1>8. Sound(g, e, t) /\ e.link = b.link /\ e.holdUntil = b.holdUntil
  BY <1>4, <1>6, <1>7
<1>9. PollSafeguard(g, e, t).link = e.link /\ PollSafeguard(g, e, t).holdUntil = e.holdUntil
  BY <1>8, SetRelaysSameDay DEF PollSafeguard, Sound
<1>10. QED
  BY <1>8, <1>9 DEF e

\* What the safeguard or an interlock switched off stays off over any number of ticks
\* as long as the schedule, the link and the hold ask for nothing new.
THEOREM LimitsTripStays == Spec => TripNotUndone
<1> DEFINE Quiet == Tick /\ ctl'.link = ctl.link /\ ctl'.holdUntil = ctl.holdUntil
           Kept == \A ch \in ctl'.relays \ ctl.relays : ctl.schedPrev[ch] # "on" \/ ch \in ctl.capped
<1>1. ASSUME IInv, Quiet,
             NEW ch \in ctl'.relays, ch \notin ctl.relays, ctl.schedPrev[ch] = "on", ch \notin ctl.capped
      PROVE  FALSE
  <2> DEFINE lt == Local(wall)
             a == Account(cfg, Sampled, now, lt)
             link == ComputeLink(cfg, a, now)
             linked == [a EXCEPT !.link = link]
             b == ExpireHold(linked)
             f == FollowSchedule(cfg, b, now, lt, link # a.link)
             e == Evaluate(cfg, b, now, lt, link # a.link)
             d == Refresh(cfg, Sampled, now, lt)
  <2>1. /\ cfg \in Config
        /\ ctl \in Controller
        /\ now \in Nat
        /\ lt \in LocalTime \cup {None}
        /\ Sound(cfg, Sampled, now)
        /\ Sampled.relays = ctl.relays
        /\ Sampled.capped = ctl.capped
    BY <1>1, SampledSound, LocalType DEF IInv, TypeOK
  <2>2. /\ Sampled.schedPrev = ctl.schedPrev
        /\ Sampled.link = ctl.link
        /\ Sampled.holdUntil = ctl.holdUntil
    BY <2>1 DEF Sampled, Controller
  <2>3. ctl' = d
    BY <1>1 DEF Tick, Call
  <2> HIDE DEF lt
  <2>4. /\ Sound(cfg, a, now) /\ Sound(cfg, b, now) /\ Sound(cfg, e, now)
        /\ linked \in Controller
        /\ b.relays = a.relays
        /\ b.link = link
        /\ d = PollSafeguard(cfg, e, now)
    BY <2>1, RefreshParts
  <2>5. /\ a.relays \subseteq ctl.relays
        /\ a.link = ctl.link
        /\ a.holdUntil = ctl.holdUntil
        /\ \A x \in Ch \ ctl.capped : a.schedPrev[x] = ctl.schedPrev[x]
    BY <2>1, <2>2, AccountSound, AccountCaps
  <2>6. ch \in Ch
    <3>1. Sound(cfg, d, now)
      BY <2>1, RefreshSound
    <3>2. QED
      BY <1>1, <2>3, <3>1 DEF Sound, Controller
  <2>7. d.link = b.link /\ d.holdUntil = b.holdUntil
    BY <2>1, <2>4, LinkAndHoldKept
  <2> HIDE DEF a, d
  <2>8. link = a.link
    BY <1>1, <2>3, <2>4, <2>5, <2>7
  <2>9. linked.schedPrev = a.schedPrev /\ linked.holdUntil = a.holdUntil
    BY <2>4 DEF Sound, Controller
  <2> HIDE DEF link, linked
  <2>10. b = linked
    <3>1. b = linked \/ (linked.holdUntil > 0 /\ b.holdUntil = 0)
      BY <2>4, ExpireHoldSameDay
    <3>2. b.holdUntil = linked.holdUntil
      BY <1>1, <2>3, <2>5, <2>7, <2>9
    <3>3. linked.holdUntil \in Nat
      BY <2>4 DEF Controller
    <3>4. QED
      BY <3>1, <3>2, <3>3
  <2>11. b \in Controller /\ ch \notin b.relays /\ b.schedPrev[ch] = "on"
    BY <1>1, <2>4, <2>5, <2>6, <2>9, <2>10
  <2>12. e = b \/ e = f
    BY <2>8 DEF Evaluate, HoldSafeState
  <2>13. ch \notin f.relays
    BY <2>6, <2>8, <2>11, FollowOnlyNews
  <2> HIDE DEF b, e, f
  <2>14. ch \notin e.relays
    BY <2>11, <2>12, <2>13
  <2>15. d.relays \subseteq e.relays
    BY <2>1, <2>4, PollSafeguardSound
  <2>16. QED
    BY <1>1, <2>3, <2>14, <2>15
<1>2. IInv /\ [Next]_vars => [Quiet => Kept]_vars
  BY <1>1
<1>3. Spec => [][Quiet => Kept]_vars
  BY <1>2, ArbiterInvariant, PTL DEF Spec
<1>4. QED
  BY <1>3 DEF TripNotUndone

-----------------------------------------------------------------------------
(***************************************************************************)
(* The takeover: who is in charge, and who switches on.  The link is a     *)
(* function of the connection and the clock when there is no heartbeat     *)
(* (LinkInv).  A step then re-evaluates a controller in which nothing is   *)
(* on that was off (Reviews), or switches nothing on (Quiet), or is a      *)
(* command that is carried out (Obeyed); each kind is looked at once.      *)
(***************************************************************************)

\* Nothing that tells who is in charge has changed.
SamePresence(c, d) ==
  /\ d.connected = c.connected
  /\ d.declaredOffline = c.declaredOffline
  /\ d.lastSeen = c.lastSeen
  /\ d.timeKnown = c.timeKnown
  /\ d.epoch = c.epoch

\* The relays of d were on in c, under the same timer.
OnlyOff(c, d) == \A ch \in d.relays : ch \in c.relays /\ d.onSince[ch] = c.onSince[ch]

\* A wish is the one noted in c, or has been forgotten.
WishesOf(c, d) == \A ch \in Ch : d.schedPrev[ch] \in {c.schedPrev[ch], "unset"}

\* The hold of c has run out.
HoldOver(c) == c.holdUntil > 0 /\ ~RainHoldActive(c)

-----------------------------------------------------------------------------
\* Switching relays leaves alone who is in charge.
LEMMA SetRelaysPresence ==
  ASSUME NEW g, NEW c \in Controller, NEW t, NEW ons, NEW offs
  PROVE  SamePresence(c, SetRelays(g, c, t, ons, offs))
<1> DEFINE after == RelaysAfter(g, c, ons, offs)
           since == SetRelays(g, c, t, ons, offs).onSince
<1>1. SetRelays(g, c, t, ons, offs) = [c EXCEPT !.relays = after, !.onSince = since]
  BY DEF SetRelays, Controller
<1> HIDE DEF after, since
<1>2. QED
  BY <1>1 DEF SamePresence, Controller

\* The timers after switching: a relay that was on and met no rival keeps its own.
LEMMA SetRelaysTimers ==
  ASSUME NEW g, NEW c \in Controller, NEW t, NEW ons, NEW offs,
         RelaysAfter(g, c, ons, offs) \subseteq Ch
  PROVE  LET d == SetRelays(g, c, t, ons, offs)
         IN \A ch \in d.relays :
              d.onSince[ch] = IF ch \in c.relays /\ Rivals(g, c, ons, ch) = {} THEN c.onSince[ch] ELSE t
<1> DEFINE after == RelaysAfter(g, c, ons, offs)
           since == [ch \in Ch |-> IF ch \in after \cap c.relays /\ Rivals(g, c, ons, ch) = {}
                                   THEN c.onSince[ch] ELSE IF ch \in after THEN t ELSE None]
           d == SetRelays(g, c, t, ons, offs)
<1>1. d = [c EXCEPT !.relays = after, !.onSince = since]
  BY DEF SetRelays
<1>2. d.relays = after /\ d.onSince = since
  <2> HIDE DEF after, since
  <2>1. QED
    BY <1>1 DEF Controller
<1>3. QED
  BY <1>2

\* Switching off only.
LEMMA SwitchOffOnly ==
  ASSUME NEW g \in Config, NEW c \in Controller, NEW t \in Nat, NEW offs \in SUBSET Ch
  PROVE  OnlyOff(c, SetRelays(g, c, t, {}, offs))
<1> DEFINE d == SetRelays(g, c, t, {}, offs)
<1>1. d.relays = c.relays \ offs
  BY SetRelaysFrame, RelaysAfterBounds
<1>2. RelaysAfter(g, c, {}, offs) \subseteq Ch
  BY RelaysAfterBounds DEF Controller
<1>3. \A ch \in Ch : Rivals(g, c, {}, ch) = {}
  BY DEF Rivals
<1>4. \A ch \in d.relays :
        d.onSince[ch] = IF ch \in c.relays /\ Rivals(g, c, {}, ch) = {} THEN c.onSince[ch] ELSE t
  BY <1>2, SetRelaysTimers
<1> HIDE DEF d
<1>5. c.relays \subseteq Ch
  BY DEF Controller
<1>6. QED
  BY <1>1, <1>3, <1>4, <1>5 DEF OnlyOff, d

\* The account switches off only, and forgets the wish of a capped channel at most.
LEMMA AccountPresence ==
  ASSUME NEW g \in Config, NEW c, NEW t \in Nat, NEW lt \in LocalTime \cup {None},
         Sound(g, c, t)
  PROVE  LET a == Account(g, c, t, lt)
         IN SamePresence(c, a) /\ OnlyOff(c, a) /\ WishesOf(c, a)
<1> DEFINE rolled == lt # None /\ c.today # None /\ c.today # lt.day
           delta == Elapsed(c, t)
           onToday == [ch \in Ch |-> (IF rolled THEN 0 ELSE c.onToday[ch])
                                       + (IF ch \in c.relays THEN delta ELSE 0)]
           reached == {ch \in c.relays : CapReached(g, ch, onToday[ch])}
           prev == [ch \in Ch |-> IF rolled /\ ch \in c.capped THEN "unset" ELSE c.schedPrev[ch]]
           capped == (IF rolled THEN {} ELSE c.capped) \cup reached
           today == IF lt = None THEN c.today ELSE lt.day
           booked == [c EXCEPT !.onToday = onToday, !.schedPrev = prev, !.capped = capped,
                               !.today = today, !.lastAccount = t]
           a == Account(g, c, t, lt)
<1>1. c \in Controller
  BY DEF Sound
<1>2. delta \in Nat
  BY <1>1 DEF Sound, Booked, Controller, Elapsed
<1>3. onToday \in [Ch -> Nat]
  <2> HIDE DEF delta, rolled
  <2>1. \A ch \in Ch : c.onToday[ch] \in Nat
    BY <1>1 DEF Controller
  <2>2. QED
    BY <1>2, <2>1
<1>4. reached \in SUBSET Ch /\ capped \in SUBSET Ch
  BY <1>1 DEF Controller
<1>5. prev \in [Ch -> Wishes]
  BY <1>1 DEF Controller, Wishes
<1>6. today \in Nat \cup {None}
  BY <1>1 DEF Controller, LocalTime
<1>7. /\ booked \in Controller
      /\ booked.relays = c.relays
      /\ booked.onSince = c.onSince
      /\ booked.schedPrev = prev
      /\ SamePresence(c, booked)
  <2> HIDE DEF onToday, prev, capped, today
  <2>1. QED
    BY <1>1, <1>3, <1>4, <1>5, <1>6 DEF Controller, SamePresence
<1>8. a = SetRelays(g, booked, t, {}, reached)
  BY DEF Account
<1> HIDE DEF booked, a, reached
<1>9. SamePresence(c, a)
  BY <1>7, <1>8, SetRelaysPresence DEF SamePresence
<1>10. OnlyOff(c, a)
  BY <1>4, <1>7, <1>8, SwitchOffOnly DEF OnlyOff
<1>11. a.schedPrev = prev
  BY <1>7, <1>8, SetRelaysSameDay
<1>12. WishesOf(c, a)
  BY <1>11 DEF WishesOf
<1>13. QED
  BY <1>9, <1>10, <1>12 DEF a

-----------------------------------------------------------------------------
\* The controller when a re-evaluation has booked the time, found the link and
\* ended a hold, and is about to follow the schedule.
Reviewed(g, c, t, lt) ==
  LET a == Account(g, c, t, lt) IN ExpireHold([a EXCEPT !.link = ComputeLink(g, a, t)])

\* A re-evaluation is a review, the schedule or the safe state, and the safeguard.
LEMMA RefreshReviewed ==
  ASSUME NEW g \in Config, NEW c, NEW t \in Nat, NEW lt \in LocalTime \cup {None},
         Sound(g, c, t)
  PROVE  LET b == Reviewed(g, c, t, lt)
         IN /\ Sound(g, b, t)
            /\ OnlyOff(c, b)
            /\ SamePresence(c, b)
            /\ WishesOf(c, b)
            /\ b.link = ComputeLink(g, c, t)
            /\ b.holdUntil = IF HoldOver(c) THEN 0 ELSE c.holdUntil
            /\ HoldOver(c) => b.schedPrev = [ch \in Ch |-> "unset"]
            /\ Refresh(g, c, t, lt) = PollSafeguard(g, Evaluate(g, b, t, lt, b.link # c.link), t)
<1> DEFINE a == Account(g, c, t, lt)
           link == ComputeLink(g, a, t)
           linked == [a EXCEPT !.link = link]
           b == Reviewed(g, c, t, lt)
<1>1. /\ Sound(g, a, t) /\ Sound(g, b, t)
      /\ b.relays = a.relays
      /\ b.link = link
      /\ Refresh(g, c, t, lt) = PollSafeguard(g, Evaluate(g, b, t, lt, link # a.link), t)
  BY RefreshParts DEF Reviewed
<1>2. SamePresence(c, a) /\ OnlyOff(c, a) /\ WishesOf(c, a)
  BY AccountPresence
<1>3. a.link = c.link /\ a.holdUntil = c.holdUntil
  BY AccountCaps
<1>4. b = ExpireHold(linked)
  BY DEF Reviewed
<1> HIDE DEF a, b
<1>5. link = ComputeLink(g, c, t)
  BY <1>2 DEF ComputeLink, HaAlive, SamePresence
<1>6. link \in Links
  BY DEF ComputeLink, Links
<1> HIDE DEF link
<1>7. /\ linked \in Controller
      /\ linked.relays = a.relays
      /\ linked.onSince = a.onSince
      /\ linked.schedPrev = a.schedPrev
      /\ linked.holdUntil = a.holdUntil
      /\ SamePresence(c, linked)
  BY <1>1, <1>2, <1>6 DEF Sound, Controller, SamePresence
<1> HIDE DEF linked
<1>8. HoldOver(linked) <=> HoldOver(c)
  BY <1>3, <1>7 DEF HoldOver, RainHoldActive, SamePresence
<1> DEFINE ended == [linked EXCEPT !.holdUntil = 0]
<1>9. /\ ended \in Controller
      /\ ended.holdUntil = 0
      /\ ended.relays = linked.relays
      /\ ended.onSince = linked.onSince
      /\ SamePresence(linked, ended)
  BY <1>7 DEF Controller, SamePresence
<1>10. b = IF HoldOver(c) THEN Forget(ended) ELSE linked
  BY <1>4, <1>8 DEF ExpireHold, HoldOver
<1> HIDE DEF ended
<1>11. /\ Forget(ended).schedPrev = [ch \in Ch |-> "unset"]
       /\ Forget(ended).holdUntil = 0
       /\ Forget(ended).relays = linked.relays
       /\ Forget(ended).onSince = linked.onSince
       /\ SamePresence(linked, Forget(ended))
  BY <1>9 DEF Forget, Controller, SamePresence
<1>12. OnlyOff(c, b)
  BY <1>2, <1>7, <1>10, <1>11 DEF OnlyOff
<1>13. SamePresence(c, b)
  BY <1>7, <1>10, <1>11 DEF SamePresence
<1>14. WishesOf(c, b)
  BY <1>2, <1>7, <1>10, <1>11 DEF WishesOf
<1>15. /\ b.holdUntil = IF HoldOver(c) THEN 0 ELSE c.holdUntil
       /\ HoldOver(c) => b.schedPrev = [ch \in Ch |-> "unset"]
  BY <1>3, <1>7, <1>10, <1>11
<1>16. QED
  BY <1>1, <1>3, <1>5, <1>12, <1>13, <1>14, <1>15 DEF b

-----------------------------------------------------------------------------
\* What following the schedule does to relays, timers and wishes.
LEMMA FollowScheduleEffect ==
  ASSUME NEW g \in Config, NEW b, NEW t \in Nat, NEW lt, NEW changed, Sound(g, b, t), lt # None,
         NEW targets, targets = Targets(g, b, lt)
  PROVE  LET driven == Driven(g, b, Wish(targets), changed)
             f == FollowSchedule(g, b, t, lt, changed)
         IN /\ f.schedPrev = Wish(targets)
            /\ f.relays = RelaysAfter(g, b, driven \cap targets, driven \ targets)
            /\ f.capped = b.capped
            /\ \A ch \in f.relays : (ch \in b.relays /\ f.onSince[ch] = b.onSince[ch]) \/ f.onSince[ch] = t
<1> DEFINE wish == Wish(targets)
           driven == Driven(g, b, wish, changed)
           noted == [b EXCEPT !.schedPrev = wish]
           f == FollowSchedule(g, b, t, lt, changed)
<1>1. b \in Controller /\ wish \in [Ch -> Wishes]
  BY DEF Sound, Wish, Wishes
<1>2. f = SetRelays(g, noted, t, driven \cap targets, driven \ targets)
  BY DEF FollowSchedule
<1>3. driven \in SUBSET Ch
  BY DEF Driven
<1> HIDE DEF wish, driven
<1>4. /\ noted \in Controller
      /\ noted.schedPrev = wish
      /\ noted.relays = b.relays
      /\ noted.onSince = b.onSince
      /\ noted.capped = b.capped
  BY <1>1 DEF Controller
<1> HIDE DEF noted, f
<1> DEFINE ons == driven \cap targets
           offs == driven \ targets
<1>5. ons \in SUBSET Ch /\ offs \in SUBSET Ch
  BY <1>3
<1>6. RelaysAfter(g, noted, ons, offs) = RelaysAfter(g, b, ons, offs)
  BY <1>4 DEF RelaysAfter, Rivals
<1> HIDE DEF ons, offs
<1>7. f = SetRelays(g, noted, t, ons, offs)
  BY <1>2 DEF ons, offs
<1>8. f.relays = RelaysAfter(g, b, ons, offs) /\ f.schedPrev = wish /\ f.capped = b.capped
  BY <1>4, <1>5, <1>6, <1>7, SetRelaysFrame
<1>9. RelaysAfter(g, noted, ons, offs) \subseteq Ch
  BY <1>4, <1>5, RelaysAfterBounds DEF Controller
<1>10. \A ch \in f.relays :
         f.onSince[ch] = IF ch \in noted.relays /\ Rivals(g, noted, ons, ch) = {} THEN noted.onSince[ch] ELSE t
  BY <1>4, <1>7, <1>9, SetRelaysTimers
<1>11. QED
  BY <1>4, <1>8, <1>10 DEF driven, wish, ons, offs, f

\* When the schedule is not in charge, following it switches nothing.
LEMMA FollowScheduleIdle ==
  ASSUME NEW g \in Config, NEW b, NEW t \in Nat, NEW lt, NEW changed, Sound(g, b, t),
         ~ScheduleRules(g, b) \/ lt = None
  PROVE  FollowSchedule(g, b, t, lt, changed).relays = b.relays
<1>1. CASE lt = None
  BY <1>1 DEF FollowSchedule
<1>2. CASE lt # None
  <2> DEFINE targets == Targets(g, b, lt)
             driven == Driven(g, b, Wish(targets), changed)
             f == FollowSchedule(g, b, t, lt, changed)
  <2>1. driven = {}
    BY <1>2 DEF Driven
  <2>2. f.relays = RelaysAfter(g, b, driven \cap targets, driven \ targets)
    BY <1>2, FollowScheduleEffect
  <2>3. driven \cap targets = {} /\ driven \ targets = {}
    BY <2>1
  <2>4. RelaysAfter(g, b, {}, {}) = b.relays
    BY DEF RelaysAfter, Rivals
  <2> HIDE DEF driven, targets
  <2>5. QED
    BY <2>2, <2>3, <2>4 DEF f
<1>3. QED
  BY <1>1, <1>2

\* Targets depend on the hold and the epoch only.
LEMMA TargetsSame ==
  ASSUME NEW g, NEW b, NEW d, NEW lt, d.holdUntil = b.holdUntil, d.epoch = b.epoch
  PROVE  Targets(g, d, lt) = Targets(g, b, lt)
  BY DEF Targets, RainHoldActive

\* What a re-evaluation does to the link, the hold and who is in charge.
LEMMA RefreshLink ==
  ASSUME NEW g \in Config, NEW c, NEW t \in Nat, NEW lt \in LocalTime \cup {None},
         Sound(g, c, t)
  PROVE  LET d == Refresh(g, c, t, lt)
         IN /\ SamePresence(c, d)
            /\ d.link = ComputeLink(g, c, t)
            /\ d.holdUntil = IF HoldOver(c) THEN 0 ELSE c.holdUntil
<1> DEFINE b == Reviewed(g, c, t, lt)
           changed == b.link # c.link
           f == FollowSchedule(g, b, t, lt, changed)
           h == HoldSafeState(g, f, t, changed)
           e == Evaluate(g, b, t, lt, changed)
           d == PollSafeguard(g, e, t)
<1>1. /\ Sound(g, b, t)
      /\ SamePresence(c, b)
      /\ b.link = ComputeLink(g, c, t)
      /\ b.holdUntil = IF HoldOver(c) THEN 0 ELSE c.holdUntil
      /\ Refresh(g, c, t, lt) = d
  BY RefreshReviewed
<1> HIDE DEF b, changed
<1>2. d.link = b.link /\ d.holdUntil = b.holdUntil
  BY <1>1, LinkAndHoldKept
<1>3. Sound(g, f, t) /\ Sound(g, h, t)
  BY <1>1, FollowScheduleSound, HoldSafeStateSound
<1>4. SamePresence(b, f)
  <2> DEFINE wish == Wish(Targets(g, b, lt))
             driven == Driven(g, b, wish, changed)
             noted == [b EXCEPT !.schedPrev = wish]
  <2>1. f = IF lt = None THEN b
            ELSE SetRelays(g, noted, t, driven \cap Targets(g, b, lt), driven \ Targets(g, b, lt))
    BY DEF FollowSchedule
  <2>2. b \in Controller /\ wish \in [Ch -> Wishes]
    BY <1>1 DEF Sound, Wish, Wishes
  <2> HIDE DEF wish
  <2>3. noted \in Controller /\ SamePresence(b, noted)
    BY <2>2 DEF Controller, SamePresence
  <2> HIDE DEF noted, driven, f
  <2>4. QED
    BY <2>1, <2>3, SetRelaysPresence DEF SamePresence
<1> HIDE DEF f
<1>5. SamePresence(f, h)
  BY <1>3, SetRelaysPresence DEF HoldSafeState, Sound, SamePresence
<1>6. e = b \/ e = h
  BY DEF Evaluate, f
<1> HIDE DEF h, e
<1>7. SamePresence(b, e) /\ e \in Controller
  BY <1>1, <1>3, <1>4, <1>5, <1>6 DEF SamePresence, Sound
<1>8. SamePresence(e, d)
  BY <1>7, SetRelaysPresence DEF PollSafeguard
<1> HIDE DEF d
<1>9. QED
  BY <1>1, <1>2, <1>7, <1>8 DEF SamePresence

\* What the safe state switches on: nothing, unless the link became the unknown one.
Adopted(g, c, t) ==
  IF ComputeLink(g, c, t) = "OfflineUnknownTime" /\ c.link # "OfflineUnknownTime"
  THEN SafeStates(g) ELSE {}

\* A re-evaluation where the schedule does not rule switches on nothing but that.
LEMMA RefreshUnruled ==
  ASSUME NEW g \in Config, NEW c, NEW t \in Nat, NEW lt \in LocalTime \cup {None},
         Sound(g, c, t), ComputeLink(g, c, t) # "OfflineSchedule" \/ g.mode # "Auto"
  PROVE  Refresh(g, c, t, lt).relays \subseteq c.relays \cup Adopted(g, c, t)
<1> DEFINE b == Reviewed(g, c, t, lt)
           changed == b.link # c.link
           f == FollowSchedule(g, b, t, lt, changed)
           h == HoldSafeState(g, f, t, changed)
           e == Evaluate(g, b, t, lt, changed)
           d == PollSafeguard(g, e, t)
<1>1. /\ Sound(g, b, t) /\ OnlyOff(c, b)
      /\ b.link = ComputeLink(g, c, t)
      /\ Refresh(g, c, t, lt) = d
  BY RefreshReviewed
<1>2. changed /\ b.link = "OfflineUnknownTime" => Adopted(g, c, t) = SafeStates(g)
  BY <1>1 DEF Adopted
<1> HIDE DEF b, changed
<1>3. f.relays = b.relays
  BY <1>1, FollowScheduleIdle DEF ScheduleRules
<1>4. Sound(g, f, t) /\ f.link = b.link
  BY <1>1, FollowScheduleSound
<1>5. Sound(g, h, t)
  BY <1>4, HoldSafeStateSound
<1>6. e = b \/ e = h
  BY DEF Evaluate, f
<1> HIDE DEF f
<1>7. h.relays \subseteq f.relays \cup Adopted(g, c, t)
  <2> DEFINE safe == SafeStates(g)
  <2>1. safe \in SUBSET Ch /\ Ch \ safe \in SUBSET Ch
    BY DEF SafeStates, Config
  <2> HIDE DEF safe
  <2>2. SetRelays(g, f, t, safe, Ch \ safe).relays = RelaysAfter(g, f, safe, Ch \ safe)
    BY <1>4, <2>1, SwitchSound
  <2>3. RelaysAfter(g, f, safe, Ch \ safe) \subseteq safe \cup f.relays
    BY RelaysAfterBounds
  <2>4. h = IF changed /\ f.link = "OfflineUnknownTime"
            THEN SetRelays(g, f, t, safe, Ch \ safe) ELSE f
    BY DEF HoldSafeState, safe
  <2> HIDE DEF h
  <2>5. QED
    BY <1>2, <1>4, <2>2, <2>3, <2>4 DEF safe
<1> HIDE DEF h, e
<1>8. Sound(g, e, t) /\ e.relays \subseteq b.relays \cup Adopted(g, c, t)
  BY <1>1, <1>3, <1>5, <1>6, <1>7
<1>9. d.relays \subseteq e.relays
  BY <1>8, PollSafeguardSound
<1> HIDE DEF d
<1>10. QED
  BY <1>1, <1>8, <1>9 DEF OnlyOff

\* With Home Assistant in charge it switches nothing on.
LEMMA RefreshOnline ==
  ASSUME NEW g \in Config, NEW c, NEW t \in Nat, NEW lt \in LocalTime \cup {None},
         Sound(g, c, t), ComputeLink(g, c, t) = "Online"
  PROVE  Refresh(g, c, t, lt).relays \subseteq c.relays
<1>1. Refresh(g, c, t, lt).relays \subseteq c.relays \cup Adopted(g, c, t)
  BY RefreshUnruled
<1>2. Adopted(g, c, t) = {}
  BY DEF Adopted
<1>3. QED
  BY <1>1, <1>2

-----------------------------------------------------------------------------
\* No relay is on against the wish noted for it.
Owned(c) == \A ch \in c.relays : c.schedPrev[ch] # "off"

\* With the schedule in charge the safe state is not looked at.
LEMMA ScheduleDecides ==
  ASSUME NEW g \in Config, NEW c, NEW t \in Nat, NEW lt \in LocalTime \cup {None},
         Sound(g, c, t), g.mode = "Auto", ComputeLink(g, c, t) = "OfflineSchedule"
  PROVE  LET b == Reviewed(g, c, t, lt)
             f == FollowSchedule(g, b, t, lt, b.link # c.link)
         IN Sound(g, b, t) /\ Sound(g, f, t) /\ Refresh(g, c, t, lt) = PollSafeguard(g, f, t)
<1> DEFINE b == Reviewed(g, c, t, lt)
           changed == b.link # c.link
           f == FollowSchedule(g, b, t, lt, changed)
<1>1. /\ Sound(g, b, t)
      /\ b.link = "OfflineSchedule"
      /\ Refresh(g, c, t, lt) = PollSafeguard(g, Evaluate(g, b, t, lt, changed), t)
  BY RefreshReviewed
<1> HIDE DEF b, changed
<1>2. Sound(g, f, t) /\ f.link = "OfflineSchedule"
  BY <1>1, FollowScheduleSound
<1>3. Evaluate(g, b, t, lt, changed) = HoldSafeState(g, f, t, changed)
  BY DEF Evaluate
<1> HIDE DEF f
<1>4. HoldSafeState(g, f, t, changed) = f
  BY <1>2 DEF HoldSafeState
<1>5. QED
  BY <1>1, <1>2, <1>3, <1>4 DEF f, b, changed

\* The safeguard takes from the relays those whose time is over.
LEMMA PollSafeguardEffect ==
  ASSUME NEW g \in Config, NEW c, NEW t \in Nat, Sound(g, c, t)
  PROVE  LET d == PollSafeguard(g, c, t)
         IN /\ d.relays = c.relays \ Expired(g, c, t)
            /\ d.capped = c.capped
            /\ d.schedPrev = c.schedPrev
<1>1. Expired(g, c, t) \in SUBSET Ch /\ c \in Controller
  BY DEF Expired, Sound
<1>2. QED
  BY <1>1, SetRelaysFrame, SwitchOffSound DEF PollSafeguard

\* With the schedule in charge a re-evaluation notes the targets as wishes, leaves
\* on nothing they do not contain, and when it takes over or a hold ends switches
\* on all of them that nothing else keeps off.
LEMMA RefreshInCharge ==
  ASSUME NEW g \in Config, NEW c, NEW t \in Nat, NEW lt \in LocalTime,
         Sound(g, c, t), g.mode = "Auto", ComputeLink(g, c, t) = "OfflineSchedule",
         NEW targets, targets = Targets(g, Refresh(g, c, t, lt), lt)
  PROVE  LET d == Refresh(g, c, t, lt)
         IN /\ d.schedPrev = Wish(targets)
            /\ c.link # "OfflineSchedule" \/ Owned(c) => d.relays \subseteq targets
            /\ c.link # "OfflineSchedule" \/ HoldOver(c) =>
                 \A ch \in targets : \/ ch \in d.relays \cup d.capped \cup Expired(g, c, t)
                                     \/ \E other \in targets : ch < other /\ Interlocked(g, ch, other)
<1> DEFINE b == Reviewed(g, c, t, lt)
           changed == b.link # c.link
           wish == Wish(targets)
           driven == Driven(g, b, wish, changed)
           f == FollowSchedule(g, b, t, lt, changed)
           d == Refresh(g, c, t, lt)
<1>1. lt # None /\ lt \in LocalTime \cup {None}
  BY NoneAssumption
<1>2. /\ Sound(g, b, t)
      /\ OnlyOff(c, b)
      /\ SamePresence(c, b)
      /\ WishesOf(c, b)
      /\ b.link = "OfflineSchedule"
      /\ b.holdUntil = IF HoldOver(c) THEN 0 ELSE c.holdUntil
      /\ HoldOver(c) => b.schedPrev = [ch \in Ch |-> "unset"]
  BY <1>1, RefreshReviewed
<1>3. Sound(g, f, t) /\ d = PollSafeguard(g, f, t)
  BY <1>1, ScheduleDecides
<1>4. SamePresence(c, d) /\ d.holdUntil = b.holdUntil
  BY <1>1, <1>2, RefreshLink
<1> HIDE DEF b, changed, d
<1>5. targets = Targets(g, b, lt)
  BY <1>2, <1>4, TargetsSame DEF SamePresence, d
<1>6. targets \subseteq Ch
  BY <1>5 DEF Targets
<1>7. /\ f.schedPrev = wish
      /\ f.relays = RelaysAfter(g, b, driven \cap targets, driven \ targets)
      /\ f.capped = b.capped
      /\ \A ch \in f.relays : (ch \in b.relays /\ f.onSince[ch] = b.onSince[ch]) \/ f.onSince[ch] = t
  <2> HIDE DEF wish, driven, f
  <2>1. Sound(g, b, t) /\ lt # None /\ targets = Targets(g, b, lt)
    BY <1>1, <1>2, <1>5
  <2>2. \A x : LET v == Driven(g, b, Wish(targets), x)
                   e == FollowSchedule(g, b, t, lt, x)
               IN /\ e.schedPrev = Wish(targets)
                  /\ e.relays = RelaysAfter(g, b, v \cap targets, v \ targets)
                  /\ e.capped = b.capped
                  /\ \A ch \in e.relays :
                       (ch \in b.relays /\ e.onSince[ch] = b.onSince[ch]) \/ e.onSince[ch] = t
    BY <2>1, FollowScheduleEffect
  <2>3. QED
    BY <2>2 DEF f, driven, wish
<1>8. driven = {ch \in Ch : changed \/ b.schedPrev[ch] # wish[ch]}
  BY <1>2 DEF Driven, ScheduleRules
<1>9. \A ch \in Ch : wish[ch] = IF ch \in targets THEN "on" ELSE "off"
  BY DEF Wish
<1> HIDE DEF driven, f, wish
<1>10. /\ d.relays = f.relays \ Expired(g, f, t)
       /\ d.capped = f.capped
       /\ d.schedPrev = wish
  BY <1>3, <1>7, PollSafeguardEffect
<1>11. b.relays \subseteq Ch /\ f.relays \subseteq Ch
  BY <1>2, <1>3 DEF Sound, Controller
<1>12. ASSUME c.link # "OfflineSchedule" \/ Owned(c) PROVE d.relays \subseteq targets
  <2> SUFFICES ASSUME NEW ch \in d.relays, ch \notin targets PROVE FALSE
    OBVIOUS
  <2>1. ch \in f.relays /\ ch \in Ch
    BY <1>10, <1>11
  <2>2. ch \in b.relays /\ ch \notin driven \ targets
    BY <1>7, <2>1, RelaysAfterBounds
  <2>3. ~changed /\ b.schedPrev[ch] = "off"
    BY <1>8, <1>9, <2>1, <2>2
  <2>4. c.link = "OfflineSchedule"
    BY <1>2, <2>3 DEF changed
  <2>5. ch \in c.relays /\ c.schedPrev[ch] = "off"
    BY <1>2, <2>1, <2>2, <2>3 DEF OnlyOff, WishesOf
  <2>6. QED
    BY <1>12, <2>4, <2>5 DEF Owned
<1>13. ASSUME c.link # "OfflineSchedule" \/ HoldOver(c), NEW ch \in targets
       PROVE  \/ ch \in d.relays \cup d.capped \cup Expired(g, c, t)
              \/ \E other \in targets : ch < other /\ Interlocked(g, ch, other)
  <2> SUFFICES ASSUME ch \notin d.relays, ch \notin d.capped,
                      \A other \in targets : ~(ch < other /\ Interlocked(g, ch, other))
               PROVE  ch \in Expired(g, c, t)
    OBVIOUS
  <2>1. driven = Ch
    BY <1>2, <1>8, <1>9, <1>13 DEF changed
  <2>2. \A other \in Rivals(g, b, driven \cap targets, ch) : other < ch
    <3> SUFFICES ASSUME NEW other \in Rivals(g, b, driven \cap targets, ch) PROVE other < ch
      OBVIOUS
    <3>1. other \in targets /\ Interlocked(g, ch, other) /\ ch # other
      BY DEF Rivals, Interlocked
    <3>2. ch \in Nat /\ other \in Nat
      BY <1>6, <3>1, RelaysAssumption DEF Ch
    <3>3. QED
      BY <3>1, <3>2
  <2>3. ch \in f.relays
    BY <1>6, <1>7, <1>10, <2>1, <2>2 DEF RelaysAfter
  <2>4. ch \in Expired(g, f, t)
    BY <1>10, <2>3
  <2>5. /\ ch \in Ch
        /\ g.maxOn[ch] \in Nat /\ g.maxOn[ch] > 0
        /\ f.onSince[ch] # None
        /\ t - f.onSince[ch] >= g.maxOn[ch]
    BY <2>4 DEF Expired, Config
  <2>6. f.onSince[ch] # t
    BY <2>5
  <2>7. f.onSince[ch] = c.onSince[ch]
    BY <1>2, <1>7, <2>3, <2>6 DEF OnlyOff
  <2>8. QED
    BY <2>5, <2>7 DEF Expired
<1>14. QED
  BY <1>10, <1>12, <1>13 DEF d, wish

\* Without the local time a re-evaluation with the schedule in charge switches
\* nothing on and notes no wish.
LEMMA RefreshWithoutTime ==
  ASSUME NEW g \in Config, NEW c, NEW t \in Nat, Sound(g, c, t),
         ComputeLink(g, c, t) = "OfflineSchedule"
  PROVE  LET d == Refresh(g, c, t, None) IN d.relays \subseteq c.relays /\ WishesOf(c, d)
<1> DEFINE b == Reviewed(g, c, t, None)
           changed == b.link # c.link
           e == Evaluate(g, b, t, None, changed)
           d == Refresh(g, c, t, None)
<1>1. /\ Sound(g, b, t)
      /\ OnlyOff(c, b)
      /\ WishesOf(c, b)
      /\ b.link = "OfflineSchedule"
      /\ d = PollSafeguard(g, e, t)
  BY RefreshReviewed
<1> HIDE DEF b, changed, d
<1>2. e = b
  BY <1>1 DEF Evaluate, FollowSchedule, HoldSafeState
<1> HIDE DEF e
<1>3. d.relays \subseteq b.relays /\ d.schedPrev = b.schedPrev
  BY <1>1, <1>2, PollSafeguardEffect
<1>4. QED
  BY <1>1, <1>3 DEF OnlyOff, WishesOf, d

-----------------------------------------------------------------------------
\* Who is in charge follows from the connection and the clock at every moment: the
\* link stored by the last re-evaluation is the one a re-evaluation would find.
LinkInv ==
  /\ cfg.grace = 0
  /\ ctl.timeKnown => wall # None
  /\ ctl.link = None => ~ctl.connected /\ ~ctl.timeKnown
  /\ ctl.link # None => ctl.link = ComputeLink(cfg, ctl, now)

\* The inductive invariant of the firmware.
TInv == IInv /\ LinkInv /\ ScheduleOwnsRelays

\* Three kinds of steps.  A call that re-evaluates the controller c under the
\* configuration g, when nothing in c is on that was off ...
Reviews(g, c, lt) ==
  /\ cfg' = g /\ ctl' = Refresh(g, c, now, lt) /\ now' = now
  /\ g \in Config /\ g.grace = 0
  /\ Sound(g, c, now)
  /\ lt \in {None, Local(wall')}
  /\ OnlyOff(ctl, c)
  /\ WishesOf(ctl, c)
  /\ c.link = ctl.link
  /\ g.mode = cfg.mode \/ c.schedPrev = [ch \in Ch |-> "unset"]
  /\ c.timeKnown => wall' # None
  /\ lt = None /\ ComputeLink(g, c, now) = "OfflineSchedule" => ctl.link = "OfflineSchedule"

\* ... a step that leaves alone who is in charge and switches nothing on ...
Quiet ==
  /\ cfg'.mode = cfg.mode /\ cfg'.grace = 0
  /\ ctl'.relays \subseteq ctl.relays
  /\ WishesOf(ctl, ctl')
  /\ ctl'.link = ctl.link
  /\ ctl'.connected = ctl.connected
  /\ ctl'.declaredOffline = ctl.declaredOffline
  /\ ctl'.timeKnown = ctl.timeKnown
  /\ ctl'.timeKnown => wall' # None

\* ... and a command of Home Assistant that is carried out.
Obeyed(ch, on) ==
  LET c == Refresh(cfg, Seen, now, None)
  IN HaCommand(ch, on) /\ cfg.mode # "Off" /\ c.link = "Online"

Kinds == Quiet \/ (\E g, c, lt : Reviews(g, c, lt)) \/ (\E ch \in Ch, on \in BOOLEAN : Obeyed(ch, on))

\* A controller that differs from the sampled one in no relay, timer, cap or link
\* can be re-evaluated.
LEMMA Prepared ==
  ASSUME IInv, NEW g \in Config, NEW c \in Controller,
         g.exclusiveSet = cfg.exclusiveSet,
         c.relays = ctl.relays, c.onSince = ctl.onSince, c.capped \subseteq ctl.capped,
         c.lastAccount = ctl.lastAccount
  PROVE  Sound(g, c, now) /\ OnlyOff(ctl, c)
<1>1. Sound(cfg, ctl, now)
  BY DEF IInv
<1>2. Sound(g, c, now)
  BY <1>1, SoundFields
<1>3. QED
  BY <1>2 DEF OnlyOff

\* The sampled controller differs from the stored one in the epoch only.
LEMMA SampledFields ==
  ASSUME IInv
  PROVE  /\ Sampled \in Controller
         /\ Sampled.relays = ctl.relays
         /\ Sampled.onSince = ctl.onSince
         /\ Sampled.capped = ctl.capped
         /\ Sampled.lastAccount = ctl.lastAccount
         /\ Sampled.schedPrev = ctl.schedPrev
         /\ Sampled.link = ctl.link
         /\ Sampled.connected = ctl.connected
         /\ Sampled.declaredOffline = ctl.declaredOffline
         /\ Sampled.lastSeen = ctl.lastSeen
         /\ Sampled.timeKnown = ctl.timeKnown
         /\ Sampled.holdUntil = ctl.holdUntil
         /\ Sampled.epoch = wall
  BY DEF IInv, TypeOK, Sampled, Controller

\* With no heartbeat the link is that of the connection and the clock.
LEMMA LinkWithoutGrace ==
  ASSUME NEW g, NEW h, NEW c, NEW d, NEW t, NEW u, g.grace = 0, h.grace = 0,
         d.connected = c.connected, d.declaredOffline = c.declaredOffline,
         d.timeKnown = c.timeKnown
  PROVE  ComputeLink(h, d, u) = ComputeLink(g, c, t)
  BY DEF ComputeLink, HaAlive

-----------------------------------------------------------------------------
\* A call with the local time re-evaluates its controller.
LEMMA ReviewSound ==
  ASSUME IInv, LinkInv, NEW g \in Config, g.grace = 0, NEW c,
         Sound(g, c, now), OnlyOff(ctl, c), c.link = ctl.link,
         c.timeKnown = ctl.timeKnown \/ wall # None,
         \/ g.mode = cfg.mode /\ WishesOf(ctl, c)
         \/ c.schedPrev = [ch \in Ch |-> "unset"],
         Call(g, Refresh(g, c, now, Local(wall)))
  PROVE  Reviews(g, c, Local(wall))
<1>1. WishesOf(ctl, c)
  BY DEF WishesOf
<1>2. wall' = wall /\ (c.timeKnown => wall # None)
  BY DEF Call, LinkInv
<1>3. Local(wall) # None \/ ~c.timeKnown
  <2>1. wall \in Nat \cup {None}
    BY DEF IInv, TypeOK
  <2>2. wall # None => Local(wall) # None
    BY <2>1, KnownTime, NoneAssumption
  <2>3. QED
    BY <1>2, <2>2
<1>4. Local(wall) = None /\ ComputeLink(g, c, now) = "OfflineSchedule" => ctl.link = "OfflineSchedule"
  BY <1>3 DEF ComputeLink
<1>5. QED
  BY <1>1, <1>2, <1>4 DEF Reviews, Call

\* A call prepared from the stored controller is a review.
LEMMA ReviewWithTime ==
  ASSUME IInv, LinkInv, NEW g \in Config, g.grace = 0, g.exclusiveSet = cfg.exclusiveSet,
         NEW c \in Controller,
         c.relays = ctl.relays, c.onSince = ctl.onSince, c.capped \subseteq ctl.capped,
         c.lastAccount = ctl.lastAccount, c.link = ctl.link,
         c.timeKnown = ctl.timeKnown \/ wall # None,
         \/ g.mode = cfg.mode /\ WishesOf(ctl, c)
         \/ c.schedPrev = [ch \in Ch |-> "unset"],
         Call(g, Refresh(g, c, now, Local(wall)))
  PROVE  Reviews(g, c, Local(wall))
  BY Prepared, ReviewSound

\* A tick re-evaluates.
LEMMA TickKind == IInv /\ LinkInv /\ Tick => Reviews(cfg, Sampled, Local(wall))
<1> SUFFICES ASSUME IInv, LinkInv, Tick PROVE Reviews(cfg, Sampled, Local(wall))
  OBVIOUS
<1>1. cfg \in Config /\ cfg.grace = 0
  BY DEF IInv, TypeOK, LinkInv
<1>2. Call(cfg, Refresh(cfg, Sampled, now, Local(wall)))
  BY DEF Tick
<1>3. WishesOf(ctl, Sampled)
  BY SampledFields DEF WishesOf
<1>4. QED
  BY <1>1, <1>2, <1>3, SampledFields, ReviewWithTime

\* The clock moves on quietly, and the first valid time re-evaluates.
LEMMA ClockKind == IInv /\ LinkInv /\ Clock => Kinds
<1> SUFFICES ASSUME IInv, LinkInv, Clock PROVE Kinds
  OBVIOUS
<1>1. cfg \in Config /\ cfg.grace = 0 /\ ctl \in Controller /\ wall \in Nat \cup {None} /\ now \in Nat
  BY DEF IInv, TypeOK, LinkInv
<1>2. CASE Advance
  BY <1>1, <1>2, RelaysAssumption DEF Advance, Kinds, Quiet, LinkInv, WishesOf
<1>3. ASSUME NEW w \in Clocks, SetClock(w) PROVE Kinds
  <2>1. w # None
    BY InputsAssumption, RelaysAssumption
  <2>2. QED
    BY <1>1, <1>3, <2>1 DEF SetClock, Kinds, Quiet, WishesOf
<1> DEFINE c == [Sampled EXCEPT !.timeKnown = TRUE]
<1>4. /\ c \in Controller
      /\ c.relays = ctl.relays /\ c.onSince = ctl.onSince /\ c.capped = ctl.capped
      /\ c.lastAccount = ctl.lastAccount /\ c.link = ctl.link
      /\ c.schedPrev = ctl.schedPrev
  BY SampledFields DEF Controller
<1>5. WishesOf(ctl, c)
  BY <1>4 DEF WishesOf
<1>6. CASE TimeKnown
  <2>1. wall # None /\ Call(cfg, Refresh(cfg, c, now, Local(wall)))
    BY <1>6 DEF TimeKnown
  <2> HIDE DEF c
  <2>2. Reviews(cfg, c, Local(wall))
    BY <1>1, <1>4, <1>5, <2>1, ReviewWithTime
  <2>3. QED
    BY <2>2 DEF Kinds
<1>7. ASSUME NEW w \in Clocks, HaTime(w) PROVE Kinds
  <2>1. w \in Nat /\ w # None
    BY InputsAssumption, RelaysAssumption
  <2>2. CASE ctl.timeKnown
    <3>1. cfg' = cfg /\ wall' = w /\ ctl' = Sampled
      BY <1>7, <2>2 DEF HaTime
    <3>2. WishesOf(ctl, ctl')
      BY <3>1, SampledFields DEF WishesOf
    <3>3. QED
      BY <1>1, <2>1, <3>1, <3>2, SampledFields DEF Kinds, Quiet
  <2>3. CASE ~ctl.timeKnown
    <3>1. /\ cfg' = cfg /\ wall' = w /\ now' = now
          /\ ctl' = Refresh(cfg, c, now, Local(w))
      BY <1>7, <2>3 DEF HaTime
    <3> HIDE DEF c
    <3>2. Sound(cfg, c, now) /\ OnlyOff(ctl, c)
      BY <1>1, <1>4, Prepared
    <3>3. Local(w) # None
      BY <2>1, KnownTime, NoneAssumption
    <3>4. Reviews(cfg, c, Local(w))
      BY <1>1, <1>4, <1>5, <2>1, <3>1, <3>2, <3>3 DEF Reviews
    <3>5. QED
      BY <3>4 DEF Kinds
  <2>4. QED
    BY <2>2, <2>3
<1>8. QED
  BY <1>2, <1>3, <1>6, <1>7 DEF Clock

\* A sign of life cannot hand the relays to the schedule: with Home Assistant
\* connected it keeps or gets the control, and else the link stays what it was.
LEMMA SeenKind ==
  ASSUME IInv, LinkInv, Call(cfg, Refresh(cfg, Seen, now, None))
  PROVE  Reviews(cfg, Seen, None)
<1>1. cfg \in Config /\ cfg.grace = 0 /\ now \in Nat
  BY DEF IInv, TypeOK, LinkInv
<1>2. /\ Seen \in Controller
      /\ Seen.relays = ctl.relays /\ Seen.onSince = ctl.onSince /\ Seen.capped = ctl.capped
      /\ Seen.lastAccount = ctl.lastAccount /\ Seen.link = ctl.link
      /\ Seen.schedPrev = ctl.schedPrev
      /\ Seen.connected = ctl.connected /\ Seen.timeKnown = ctl.timeKnown
      /\ Seen.declaredOffline = FALSE
  BY <1>1, SampledFields DEF Controller, Seen
<1>3. Sound(cfg, Seen, now) /\ OnlyOff(ctl, Seen)
  BY <1>1, <1>2, Prepared
<1>4. WishesOf(ctl, Seen)
  BY <1>2 DEF WishesOf
<1>5. ComputeLink(cfg, Seen, now) = "OfflineSchedule" => ctl.link = "OfflineSchedule"
  <2> SUFFICES ASSUME ComputeLink(cfg, Seen, now) = "OfflineSchedule" PROVE ctl.link = "OfflineSchedule"
    OBVIOUS
  <2>1. ~ctl.connected /\ ctl.timeKnown
    BY <1>1, <1>2 DEF ComputeLink, HaAlive
  <2>2. ctl.link = ComputeLink(cfg, ctl, now)
    BY <2>1 DEF LinkInv
  <2>3. QED
    BY <2>1, <2>2 DEF ComputeLink, HaAlive
<1>6. QED
  BY <1>1, <1>2, <1>3, <1>4, <1>5 DEF Reviews, Call, LinkInv

\* What says that Home Assistant comes, lives or goes re-evaluates or changes nothing.
LEMMA HaLinkKind == IInv /\ LinkInv /\ HaLink => Kinds
<1> SUFFICES ASSUME IInv, LinkInv, HaLink PROVE Kinds
  OBVIOUS
<1>1. cfg \in Config /\ cfg.grace = 0 /\ now \in Nat
  BY DEF IInv, TypeOK, LinkInv
<1>2. CASE HaConnected
  <2> DEFINE c == [Sampled EXCEPT !.connected = TRUE, !.declaredOffline = FALSE, !.lastSeen = now]
  <2>1. /\ c \in Controller
        /\ c.relays = ctl.relays /\ c.onSince = ctl.onSince /\ c.capped = ctl.capped
        /\ c.lastAccount = ctl.lastAccount /\ c.link = ctl.link
        /\ c.schedPrev = ctl.schedPrev
        /\ c.connected /\ ~c.declaredOffline /\ c.timeKnown = ctl.timeKnown
    BY <1>1, SampledFields DEF Controller
  <2>2. Call(cfg, Refresh(cfg, c, now, None))
    BY <1>2 DEF HaConnected
  <2> HIDE DEF c
  <2>3. Sound(cfg, c, now) /\ OnlyOff(ctl, c)
    BY <1>1, <2>1, Prepared
  <2>4. WishesOf(ctl, c)
    BY <2>1 DEF WishesOf
  <2>5. ComputeLink(cfg, c, now) = "Online"
    BY <1>1, <2>1 DEF ComputeLink, HaAlive
  <2>6. Reviews(cfg, c, None)
    BY <1>1, <2>1, <2>2, <2>3, <2>4, <2>5 DEF Reviews, Call, LinkInv
  <2>7. QED
    BY <2>6 DEF Kinds
<1>3. CASE HaSeen
  BY <1>3, SeenKind DEF HaSeen, Kinds
<1>4. ASSUME NEW c, c \in {[Sampled EXCEPT !.connected = FALSE], [Sampled EXCEPT !.declaredOffline = TRUE]},
             Call(cfg, Refresh(cfg, c, now, Local(wall)))
      PROVE  Kinds
  <2>1. /\ c \in Controller
        /\ c.relays = ctl.relays /\ c.onSince = ctl.onSince /\ c.capped = ctl.capped
        /\ c.lastAccount = ctl.lastAccount /\ c.link = ctl.link
        /\ c.schedPrev = ctl.schedPrev
        /\ c.timeKnown = ctl.timeKnown
    BY <1>4, SampledFields DEF Controller
  <2>2. WishesOf(ctl, c)
    BY <2>1 DEF WishesOf
  <2>3. Reviews(cfg, c, Local(wall))
    BY <1>1, <1>4, <2>1, <2>2, ReviewWithTime
  <2>4. QED
    BY <2>3 DEF Kinds
<1>5. QED
  BY <1>2, <1>3, <1>4 DEF HaLink, HaDisconnected, HaOffline

\* A command is carried out, or is no more than a re-evaluation.
LEMMA CommandKind == IInv /\ LinkInv /\ Command => Kinds
<1> SUFFICES ASSUME IInv, LinkInv, NEW ch \in Ch, NEW on \in BOOLEAN, HaCommand(ch, on) PROVE Kinds
  BY DEF Command
<1> DEFINE c == Refresh(cfg, Seen, now, None)
<1>1. CASE cfg.mode # "Off" /\ c.link = "Online"
  BY <1>1 DEF Kinds, Obeyed
<1>2. CASE ~(cfg.mode # "Off" /\ c.link = "Online")
  <2>1. Call(cfg, c)
    BY <1>2 DEF HaCommand
  <2>2. QED
    BY <2>1, SeenKind DEF Kinds
<1>3. QED
  BY <1>1, <1>2

\* Switching off, with or without wishes being forgotten, is quiet.
LEMMA OffIsQuiet ==
  ASSUME IInv, LinkInv, NEW g \in Config, g.mode = cfg.mode, g.grace = 0,
         NEW c \in Controller, c.relays = ctl.relays, WishesOf(ctl, c),
         c.link = ctl.link, c.connected = ctl.connected,
         c.declaredOffline = ctl.declaredOffline, c.timeKnown = ctl.timeKnown,
         NEW offs \in SUBSET Ch, Call(g, SetRelays(g, c, now, {}, offs))
  PROVE  Quiet
<1> DEFINE d == SetRelays(g, c, now, {}, offs)
<1>1. now \in Nat
  BY DEF IInv, TypeOK
<1>2. /\ d.relays = c.relays \ offs
      /\ d.schedPrev = c.schedPrev
      /\ d.link = c.link
  BY <1>1, SetRelaysFrame, RelaysAfterBounds
<1>3. SamePresence(c, d)
  BY SetRelaysPresence
<1>4. cfg' = g /\ ctl' = d /\ wall' = wall
  BY DEF Call
<1> HIDE DEF d
<1>5. QED
  BY <1>2, <1>3, <1>4 DEF Quiet, SamePresence, WishesOf, LinkInv

\* The button for all relays only switches off.
LEMMA AllOffKind == IInv /\ LinkInv /\ AllOffButton => Quiet
<1> SUFFICES ASSUME IInv, LinkInv, AllOffButton PROVE Quiet
  OBVIOUS
<1>1. cfg \in Config /\ cfg.grace = 0
  BY DEF IInv, TypeOK, LinkInv
<1>2. Call(cfg, SetRelays(cfg, Sampled, now, {}, Ch))
  BY DEF AllOffButton, AllOff
<1>3. WishesOf(ctl, Sampled)
  BY SampledFields DEF WishesOf
<1>4. QED
  BY <1>1, <1>2, <1>3, SampledFields, OffIsQuiet

\* A setting is quiet or re-evaluates.
LEMMA SettingKind == IInv /\ LinkInv /\ Setting /\ cfg'.grace = 0 => Kinds
<1> SUFFICES ASSUME IInv, LinkInv, Setting, cfg'.grace = 0 PROVE Kinds
  OBVIOUS
<1>1. /\ cfg \in Config /\ cfg.grace = 0
      /\ ctl \in Controller
      /\ now \in Nat
      /\ wall \in Nat \cup {None}
  BY DEF IInv, TypeOK, LinkInv
<1> USE SampledFields
<1>2. WishesOf(ctl, Sampled)
  BY DEF WishesOf
<1> DEFINE unset == [ch \in Ch |-> "unset"]
<1>3. /\ Forget(Sampled) \in Controller
      /\ Forget(Sampled).relays = ctl.relays
      /\ Forget(Sampled).onSince = ctl.onSince
      /\ Forget(Sampled).capped = ctl.capped
      /\ Forget(Sampled).lastAccount = ctl.lastAccount
      /\ Forget(Sampled).link = ctl.link
      /\ Forget(Sampled).timeKnown = ctl.timeKnown
      /\ Forget(Sampled).schedPrev = unset
  <2>1. unset \in [Ch -> Wishes]
    BY DEF Wishes
  <2> HIDE DEF unset
  <2>2. Forget(Sampled) = [Sampled EXCEPT !.schedPrev = unset]
    BY DEF Forget, unset
  <2>3. QED
    BY <2>1, <2>2 DEF Controller
<1>4. ASSUME NEW s \in Schedules, SetSchedule(s) PROVE Kinds
  <2> DEFINE g == [cfg EXCEPT !.schedule = s]
  <2>1. g \in Config /\ g.exclusiveSet = cfg.exclusiveSet /\ g.grace = 0
    BY <1>1, InputsAssumption DEF Config
  <2>2. Call(g, Refresh(g, Forget(Sampled), now, Local(wall)))
    BY <1>4 DEF SetSchedule
  <2> HIDE DEF g
  <2>3. Reviews(g, Forget(Sampled), Local(wall))
    BY <1>3, <2>1, <2>2, ReviewWithTime
  <2>4. QED
    BY <2>3 DEF Kinds
<1>5. ASSUME NEW ch \in Ch, NEW limit \in Limits, SetMaxOn(ch, limit) PROVE Kinds
  <2> DEFINE g == [cfg EXCEPT !.maxOn[ch] = limit]
  <2>1. g \in Config /\ g.mode = cfg.mode /\ g.grace = 0
    BY <1>1, InputsAssumption DEF Config
  <2>2. Call(g, SetRelays(g, Sampled, now, {}, Expired(g, Sampled, now)))
    BY <1>5 DEF SetMaxOn, PollSafeguard
  <2>3. Expired(g, Sampled, now) \in SUBSET Ch
    BY DEF Expired
  <2> HIDE DEF g
  <2>4. Quiet
    BY <1>2, <2>1, <2>2, <2>3, OffIsQuiet
  <2>5. QED
    BY <2>4 DEF Kinds
<1>6. ASSUME NEW ch \in Ch, NEW limit \in Limits, SetMaxDaily(ch, limit) PROVE Kinds
  <2> DEFINE g == [cfg EXCEPT !.maxDaily[ch] = limit]
             freed == [Sampled EXCEPT !.capped = @ \ {ch}, !.schedPrev[ch] = "unset"]
             c == IF limit = 0 /\ ch \in ctl.capped THEN freed ELSE Sampled
             a == Account(g, c, now, None)
  <2>1. g \in Config /\ g.exclusiveSet = cfg.exclusiveSet /\ g.mode = cfg.mode /\ g.grace = 0
    BY <1>1, InputsAssumption DEF Config
  <2>2. Call(g, a)
    BY <1>6 DEF SetMaxDaily
  <2>3. /\ freed \in Controller
        /\ freed.relays = Sampled.relays
        /\ freed.onSince = Sampled.onSince
        /\ freed.capped \subseteq Sampled.capped
        /\ freed.lastAccount = Sampled.lastAccount
        /\ freed.link = Sampled.link
        /\ SamePresence(Sampled, freed)
        /\ WishesOf(Sampled, freed)
    BY DEF Controller, Wishes, SamePresence, WishesOf
  <2> HIDE DEF g, freed
  <2>4. c \in Controller /\ c.relays = ctl.relays /\ c.onSince = ctl.onSince
        /\ c.capped \subseteq ctl.capped /\ c.lastAccount = ctl.lastAccount
    BY <2>3
  <2>5. c.link = ctl.link /\ SamePresence(Sampled, c) /\ WishesOf(ctl, c)
    BY <1>2, <2>3 DEF SamePresence, WishesOf
  <2> HIDE DEF c
  <2>6. Sound(g, c, now)
    BY <2>1, <2>4, Prepared
  <2>7. a.link = c.link /\ SamePresence(c, a) /\ OnlyOff(c, a) /\ WishesOf(c, a)
    BY <1>1, <2>1, <2>6, AccountCaps, AccountPresence
  <2> HIDE DEF a
  <2>8. cfg' = g /\ ctl' = a /\ wall' = wall
    BY <2>2 DEF Call
  <2>9. WishesOf(ctl, a) /\ a.relays \subseteq ctl.relays
    BY <2>4, <2>5, <2>7 DEF WishesOf, OnlyOff
  <2>10. Quiet
    BY <1>1, <2>1, <2>5, <2>7, <2>8, <2>9 DEF Quiet, SamePresence, LinkInv
  <2>11. QED
    BY <2>10 DEF Kinds
<1>7. ASSUME NEW ch \in Ch, NEW on \in BOOLEAN, SetSafeState(ch, on) PROVE Kinds
  <2> DEFINE g == [cfg EXCEPT !.safeState = IF on THEN @ \cup {ch} ELSE @ \ {ch}]
  <2>1. g \in Config /\ g.exclusiveSet = cfg.exclusiveSet /\ g.mode = cfg.mode /\ g.grace = 0
    BY <1>1 DEF Config
  <2>2. Call(g, Refresh(g, Sampled, now, None))
    BY <1>7 DEF SetSafeState
  <2> HIDE DEF g
  <2>3. Sound(g, Sampled, now) /\ OnlyOff(ctl, Sampled)
    BY <2>1, Prepared
  <2>4. ComputeLink(g, Sampled, now) = ComputeLink(cfg, ctl, now)
    BY <1>1, <2>1, LinkWithoutGrace
  <2>5. ComputeLink(g, Sampled, now) = "OfflineSchedule" => ctl.link = "OfflineSchedule"
    BY <2>4 DEF LinkInv, ComputeLink
  <2>6. Reviews(g, Sampled, None)
    BY <1>1, <1>2, <2>1, <2>2, <2>3, <2>5 DEF Reviews, Call, LinkInv
  <2>7. QED
    BY <2>6 DEF Kinds
<1>8. ASSUME NEW ch \in Ch, NEW on \in BOOLEAN, SetPowerOn(ch, on) PROVE Kinds
  <2> DEFINE g == [cfg EXCEPT !.powerOn = IF on THEN @ \cup {ch} ELSE @ \ {ch}]
             c == [Sampled EXCEPT !.schedPrev[ch] = "unset"]
  <2>1. g \in Config /\ g.exclusiveSet = cfg.exclusiveSet /\ g.mode = cfg.mode /\ g.grace = 0
    BY <1>1 DEF Config
  <2>2. Call(g, Refresh(g, c, now, Local(wall)))
    BY <1>8 DEF SetPowerOn
  <2>3. /\ c \in Controller
        /\ c.relays = ctl.relays
        /\ c.onSince = ctl.onSince
        /\ c.capped = ctl.capped
        /\ c.lastAccount = ctl.lastAccount
        /\ c.link = ctl.link
        /\ c.timeKnown = ctl.timeKnown
        /\ WishesOf(ctl, c)
    BY DEF Controller, Wishes, WishesOf
  <2> HIDE DEF g, c
  <2>4. Reviews(g, c, Local(wall))
    BY <2>1, <2>2, <2>3, ReviewWithTime
  <2>5. QED
    BY <2>4 DEF Kinds
<1>9. ASSUME NEW ch \in Ch, NEW set \in 0..MaxSets, SetExclusiveSet(ch, set) PROVE Kinds
  <2> DEFINE g == [cfg EXCEPT !.exclusiveSet[ch] = set]
             offs == {x \in Ch : \E first \in Sampled.relays : first < x /\ Interlocked(g, first, x)}
  <2>1. g \in Config /\ g.mode = cfg.mode /\ g.grace = 0
    BY <1>1 DEF Config
  <2>2. Call(g, SetRelays(g, Sampled, now, {}, offs))
    BY <1>9 DEF SetExclusiveSet, EnforceExclusive
  <2>3. offs \in SUBSET Ch
    OBVIOUS
  <2> HIDE DEF g, offs
  <2>4. Quiet
    BY <1>2, <2>1, <2>2, <2>3, OffIsQuiet
  <2>5. QED
    BY <2>4 DEF Kinds
<1>10. ASSUME NEW hold \in Holds, SetRainHold(hold) PROVE Kinds
  <2> DEFINE until == IF hold = 0 \/ wall = None THEN 0 ELSE wall + hold
             c == [Sampled EXCEPT !.holdUntil = until]
             d == Forget(c)
  <2>1. until \in Nat
    BY <1>1, InputsAssumption
  <2>2. Call(cfg, Refresh(cfg, d, now, Local(wall)))
    BY <1>10 DEF SetRainHold
  <2>3. d = [c EXCEPT !.schedPrev = unset] /\ unset \in [Ch -> Wishes]
    BY DEF Forget, Wishes
  <2> HIDE DEF until, unset, d
  <2>4. /\ d \in Controller
        /\ d.relays = ctl.relays
        /\ d.onSince = ctl.onSince
        /\ d.capped = ctl.capped
        /\ d.lastAccount = ctl.lastAccount
        /\ d.link = ctl.link
        /\ d.timeKnown = ctl.timeKnown
        /\ d.schedPrev = unset
    BY <2>1, <2>3 DEF Controller
  <2>5. Reviews(cfg, d, Local(wall))
    BY <1>1, <2>2, <2>4, ReviewWithTime DEF unset
  <2>6. QED
    BY <2>5 DEF Kinds
<1>11. ASSUME NEW secs \in Graces, SetOfflineGrace(secs) PROVE Kinds
  <2> DEFINE g == [cfg EXCEPT !.grace = secs]
  <2>1. g \in Config /\ g.exclusiveSet = cfg.exclusiveSet /\ g.mode = cfg.mode
    BY <1>1, InputsAssumption DEF Config
  <2>2. Call(g, Refresh(g, Sampled, now, Local(wall)))
    BY <1>11 DEF SetOfflineGrace
  <2> HIDE DEF g
  <2>3. g.grace = 0
    BY <2>2 DEF Call
  <2>4. Reviews(g, Sampled, Local(wall))
    BY <1>2, <2>1, <2>2, <2>3, ReviewWithTime
  <2>5. QED
    BY <2>4 DEF Kinds
<1>12. ASSUME NEW mode \in Modes, SetMode(mode) PROVE Kinds
  <2> DEFINE g == [cfg EXCEPT !.mode = mode]
             off == AllOff(g, Forget(Sampled), now)
             c == IF mode = "Off" THEN off ELSE Forget(Sampled)
  <2>1. g \in Config /\ g.exclusiveSet = cfg.exclusiveSet /\ g.grace = 0
    BY <1>1 DEF Config
  <2>2. Call(g, Refresh(g, c, now, Local(wall)))
    BY <1>12 DEF SetMode
  <2> HIDE DEF g
  <2>3. Sound(g, Forget(Sampled), now) /\ OnlyOff(ctl, Forget(Sampled))
    BY <1>3, <2>1, Prepared
  <2>4. off = SetRelays(g, Forget(Sampled), now, {}, Ch)
    BY DEF AllOff
  <2> HIDE DEF off, unset
  <2>5. /\ Sound(g, off, now)
        /\ off.relays = Forget(Sampled).relays \ Ch
    BY <1>1, <2>1, <2>3, <2>4, SwitchOffSound
  <2>6. off.relays = {}
    BY <2>3, <2>5 DEF Sound, Controller
  <2>7. off.link = ctl.link /\ off.schedPrev = unset
    BY <1>1, <1>3, <2>1, <2>4, SetRelaysFrame
  <2>8. off.timeKnown = ctl.timeKnown
    BY <1>3, <2>4, SetRelaysPresence DEF SamePresence
  <2>9. /\ Sound(g, c, now) /\ OnlyOff(ctl, c)
        /\ c.link = ctl.link /\ c.schedPrev = unset /\ c.timeKnown = ctl.timeKnown
    BY <1>3, <2>3, <2>5, <2>6, <2>7, <2>8 DEF OnlyOff
  <2> HIDE DEF c
  <2>10. Reviews(g, c, Local(wall))
    BY <2>1, <2>2, <2>9, ReviewSound DEF unset
  <2>11. QED
    BY <2>10 DEF Kinds
<1>13. QED
  BY <1>4, <1>5, <1>6, <1>7, <1>8, <1>9, <1>10, <1>11, <1>12 DEF Setting

\* Every step of the firmware is of one of the three kinds.
LEMMA FirmwareKinds == IInv /\ LinkInv /\ [FirmwareNext]_vars => Kinds
<1> SUFFICES ASSUME IInv, LinkInv, [FirmwareNext]_vars PROVE Kinds
  OBVIOUS
<1>1. CASE UNCHANGED vars
  BY <1>1 DEF vars, Kinds, Quiet, WishesOf, LinkInv
<1>2. CASE FirmwareNext
  BY <1>2, TickKind, ClockKind, HaLinkKind, CommandKind, AllOffKind, SettingKind
  DEF FirmwareNext, Kinds
<1>3. QED
  BY <1>1, <1>2

-----------------------------------------------------------------------------
\* The link after a re-evaluation.
LEMMA ReviewLink ==
  ASSUME IInv, NEW g, NEW c, NEW lt, Reviews(g, c, lt), wall' \in Nat \cup {None}
  PROVE  /\ now \in Nat
         /\ lt \in LocalTime \cup {None}
         /\ SamePresence(c, ctl')
         /\ ctl'.link = ComputeLink(g, c, now)
         /\ ctl'.holdUntil = IF HoldOver(c) THEN 0 ELSE c.holdUntil
<1>1. now \in Nat /\ lt \in LocalTime \cup {None}
  BY LocalType DEF IInv, TypeOK, Reviews
<1>2. g \in Config /\ Sound(g, c, now) /\ ctl' = Refresh(g, c, now, lt)
  BY DEF Reviews
<1>3. QED
  BY <1>1, <1>2, RefreshLink

\* With the schedule in charge afterwards the link of the review says so, and
\* the local time is known unless the schedule was in charge before.
LEMMA ReviewInCharge ==
  ASSUME IInv, NEW g, NEW c, NEW lt, Reviews(g, c, lt), wall' \in Nat \cup {None},
         ctl'.link = "OfflineSchedule"
  PROVE  /\ ComputeLink(g, c, now) = "OfflineSchedule"
         /\ wall' # None
         /\ lt # None => lt = Local(wall') /\ lt \in LocalTime
         /\ lt = None => ctl.link = "OfflineSchedule"
<1>1. ComputeLink(g, c, now) = "OfflineSchedule"
  BY ReviewLink
<1>2. c.timeKnown
  BY <1>1 DEF ComputeLink
<1>3. wall' # None
  BY <1>2 DEF Reviews
<1>4. QED
  BY <1>1, <1>3, KnownTime DEF Reviews

\* A command that is carried out switches nothing on but its channel.
LEMMA ObeyedEffect ==
  ASSUME IInv, NEW ch \in Ch, NEW on \in BOOLEAN, Obeyed(ch, on), cfg.grace = 0
  PROVE  /\ cfg' = cfg /\ wall' = wall /\ now' = now
         /\ ctl'.link = "Online"
         /\ SamePresence(Seen, ctl')
         /\ ComputeLink(cfg, Seen, now) = "Online"
         /\ ctl'.relays \subseteq ctl.relays \cup (IF on THEN {ch} ELSE {})
<1> DEFINE c == Refresh(cfg, Seen, now, None)
           ons == IF on THEN {ch} ELSE {}
           offs == IF on THEN {} ELSE {ch}
           d == SetRelays(cfg, c, now, ons, offs)
           since == IF on /\ ch \notin c.capped THEN [d.onSince EXCEPT ![ch] = now] ELSE d.onSince
<1>1. /\ cfg \in Config /\ now \in Nat
      /\ Seen \in Controller /\ Sound(cfg, Seen, now) /\ Seen.relays = ctl.relays
  BY SeenSound DEF IInv, TypeOK
<1>2. c.link = "Online" /\ Call(cfg, CommandRelay(cfg, c, now, ch, on))
  BY DEF Obeyed, HaCommand
<1>3. /\ SamePresence(Seen, c)
      /\ c.link = ComputeLink(cfg, Seen, now)
      /\ Sound(cfg, c, now)
  BY <1>1, RefreshLink, RefreshSound
<1>4. c.relays \subseteq ctl.relays
  BY <1>1, <1>2, <1>3, RefreshOnline
<1>5. CommandRelay(cfg, c, now, ch, on) = [d EXCEPT !.onSince = since]
  BY DEF CommandRelay
<1> HIDE DEF c
<1>6. ons \in SUBSET Ch /\ offs \in SUBSET Ch
  OBVIOUS
<1>7. c \in Controller
  BY <1>3 DEF Sound
<1>8. /\ d \in Controller
      /\ d.relays = RelaysAfter(cfg, c, ons, offs)
      /\ d.link = c.link
      /\ SamePresence(c, d)
  BY <1>1, <1>6, <1>7, SetRelaysFrame, SetRelaysPresence
<1>9. RelaysAfter(cfg, c, ons, offs) \subseteq ons \cup c.relays
  BY RelaysAfterBounds
<1> HIDE DEF d, since, ons, offs
<1>10. ctl' = [d EXCEPT !.onSince = since] /\ cfg' = cfg /\ wall' = wall /\ now' = now
  BY <1>2, <1>5 DEF Call
<1>11. /\ ctl'.relays = d.relays /\ ctl'.link = d.link
       /\ SamePresence(d, ctl')
  BY <1>8, <1>10 DEF Controller, SamePresence
<1>12. QED
  BY <1>2, <1>3, <1>4, <1>8, <1>9, <1>10, <1>11 DEF SamePresence, ons

\* All three keep what is said of the link,
LEMMA LinkInvKept ==
  ASSUME IInv, LinkInv, Kinds, wall' \in Nat \cup {None}
  PROVE  LinkInv'
<1>1. CASE Quiet
  <2>1. cfg'.grace = 0 /\ cfg.grace = 0
    BY <1>1 DEF Quiet, LinkInv
  <2>2. ComputeLink(cfg', ctl', now') = ComputeLink(cfg, ctl, now)
    BY <1>1, <2>1, LinkWithoutGrace DEF Quiet
  <2>3. ComputeLink(cfg, ctl, now)' = ComputeLink(cfg', ctl', now')
    BY DEF ComputeLink, HaAlive
  <2>4. QED
    BY <1>1, <2>1, <2>2, <2>3 DEF Quiet, LinkInv
<1>2. ASSUME NEW g, NEW c, NEW lt, Reviews(g, c, lt) PROVE LinkInv'
  <2>1. cfg' = g /\ g.grace = 0 /\ (c.timeKnown => wall' # None)
    BY <1>2 DEF Reviews
  <2>2. SamePresence(c, ctl') /\ ctl'.link = ComputeLink(g, c, now)
    BY <1>2, ReviewLink
  <2>3. ComputeLink(g, ctl', now') = ComputeLink(g, c, now)
    BY <2>1, <2>2, LinkWithoutGrace DEF SamePresence
  <2>4. ComputeLink(cfg, ctl, now)' = ComputeLink(cfg', ctl', now')
    BY DEF ComputeLink, HaAlive
  <2>5. ctl'.link # None
    BY <2>2, NoneAssumption DEF ComputeLink, Links
  <2>6. QED
    BY <2>1, <2>2, <2>3, <2>4, <2>5 DEF LinkInv, SamePresence
<1>3. ASSUME NEW ch \in Ch, NEW on \in BOOLEAN, Obeyed(ch, on) PROVE LinkInv'
  <2>1. cfg.grace = 0 /\ (ctl.timeKnown => wall # None)
    BY DEF LinkInv
  <2>2. /\ cfg' = cfg /\ wall' = wall
        /\ ctl'.link = "Online"
        /\ SamePresence(Seen, ctl')
        /\ ComputeLink(cfg, Seen, now) = "Online"
    BY <1>3, <2>1, ObeyedEffect
  <2>3. ComputeLink(cfg, ctl', now') = "Online"
    BY <2>1, <2>2, LinkWithoutGrace DEF SamePresence
  <2>4. ComputeLink(cfg, ctl, now)' = ComputeLink(cfg', ctl', now')
    BY DEF ComputeLink, HaAlive
  <2>5. now \in Nat /\ Seen.timeKnown = ctl.timeKnown
    BY SampledFields DEF Seen, IInv, TypeOK, Controller
  <2>6. "Online" # None
    BY NoneAssumption DEF Links
  <2>7. QED
    BY <2>1, <2>2, <2>3, <2>4, <2>5, <2>6 DEF LinkInv, SamePresence
<1>4. QED
  BY <1>1, <1>2, <1>3 DEF Kinds

\* Under the schedule, and with the ownership of the state before, the controller
\* that is re-evaluated has no relay on against its wish.
LEMMA OwnedBefore ==
  ASSUME ScheduleOwnsRelays, NEW g, NEW c, NEW lt, Reviews(g, c, lt), g.mode = "Auto"
  PROVE  c.link # "OfflineSchedule" \/ Owned(c)
<1> SUFFICES ASSUME c.link = "OfflineSchedule", NEW ch \in c.relays, c.schedPrev[ch] = "off"
             PROVE  FALSE
  BY DEF Owned
<1>1. ch \in Ch
  BY DEF Reviews, Sound, Controller
<1>2. ctl.link = "OfflineSchedule" /\ cfg.mode = "Auto"
  BY <1>1 DEF Reviews
<1>3. ch \in ctl.relays /\ ctl.schedPrev[ch] = "off"
  BY <1>1 DEF Reviews, OnlyOff, WishesOf
<1>4. QED
  BY <1>2, <1>3 DEF ScheduleOwnsRelays

\* and leave no relay on against a wish of the schedule in charge.
LEMMA OwnershipKept ==
  ASSUME IInv, ScheduleOwnsRelays, LinkInv, Kinds, wall' \in Nat \cup {None}
  PROVE  ScheduleOwnsRelays'
<1> SUFFICES ASSUME cfg'.mode = "Auto", ctl'.link = "OfflineSchedule"
             PROVE  Owned(ctl')
  BY DEF ScheduleOwnsRelays, Owned
<1>1. CASE Quiet
  <2>1. Owned(ctl) /\ ctl.relays \subseteq Ch
    BY <1>1 DEF Quiet, ScheduleOwnsRelays, Owned, IInv, TypeOK, Controller
  <2>2. QED
    BY <1>1, <2>1 DEF Quiet, WishesOf, Owned
<1>2. ASSUME NEW g, NEW c, NEW lt, Reviews(g, c, lt) PROVE Owned(ctl')
  <2>1. /\ g \in Config /\ g.mode = "Auto" /\ now \in Nat
        /\ Sound(g, c, now)
        /\ ctl' = Refresh(g, c, now, lt)
    BY <1>2 DEF Reviews, IInv, TypeOK
  <2>2. /\ ComputeLink(g, c, now) = "OfflineSchedule"
        /\ lt # None => lt \in LocalTime
        /\ lt = None => ctl.link = "OfflineSchedule"
    BY <1>2, ReviewInCharge
  <2>3. c.link # "OfflineSchedule" \/ Owned(c)
    BY <1>2, <2>1, OwnedBefore
  <2>4. CASE lt # None
    <3> DEFINE targets == Targets(g, Refresh(g, c, now, lt), lt)
    <3>1. targets = Targets(g, Refresh(g, c, now, lt), lt)
      OBVIOUS
    <3> HIDE DEF targets
    <3>2. /\ Refresh(g, c, now, lt).schedPrev = Wish(targets)
          /\ Refresh(g, c, now, lt).relays \subseteq targets
      BY <2>1, <2>2, <2>3, <2>4, <3>1, RefreshInCharge
    <3>3. targets \subseteq Ch
      BY <3>1 DEF Targets
    <3>4. QED
      BY <2>1, <3>2, <3>3 DEF Owned, Wish
  <2>5. CASE lt = None
    <3>1. ctl'.relays \subseteq c.relays /\ WishesOf(c, ctl')
      BY <2>1, <2>2, <2>5, RefreshWithoutTime
    <3>2. c.link = "OfflineSchedule"
      BY <1>2, <2>2, <2>5 DEF Reviews
    <3>3. c.relays \subseteq Ch
      BY <2>1 DEF Sound, Controller
    <3>4. QED
      BY <2>3, <3>1, <3>2, <3>3 DEF Owned, WishesOf
  <2>6. QED
    BY <2>4, <2>5
<1>3. ASSUME NEW ch \in Ch, NEW on \in BOOLEAN, Obeyed(ch, on) PROVE FALSE
  BY <1>3, ObeyedEffect DEF LinkInv
<1>4. QED
  BY <1>1, <1>2, <1>3 DEF Kinds

-----------------------------------------------------------------------------
\* The firmware is one way to use the library.
LEMMA FirmwareImpliesSpec == FirmwareSpec => Spec
<1>1. [FirmwareNext]_vars => [Next]_vars
  BY DEF FirmwareNext, Next
<1>2. QED
  BY <1>1, PTL DEF FirmwareSpec, Spec

\* A boot ends before any link is evaluated.
LEMMA InitTInv == Init /\ cfg.grace = 0 => LinkInv /\ ScheduleOwnsRelays
<1> SUFFICES ASSUME Init, cfg.grace = 0 PROVE LinkInv /\ ScheduleOwnsRelays
  OBVIOUS
<1>1. PICK u \in InitUsages, h \in InitHolds :
        ctl = Boot(cfg, RestoreUsage(cfg, [NewController EXCEPT !.holdUntil = h], u), 0)
  BY DEF Init
<1>2. cfg \in Config
  BY InputsAssumption DEF Init
<1>3. h \in Nat /\ u \in Usage \cup {None}
  BY <1>1, InputsAssumption
<1> DEFINE c == RestoreUsage(cfg, [NewController EXCEPT !.holdUntil = h], u)
<1>4. c \in Controller /\ c.link = None /\ c.connected = FALSE /\ c.timeKnown = FALSE
  <2>1. c \in Controller
    BY <1>2, <1>3, RestoredController
  <2>2. c.link = None /\ c.connected = FALSE /\ c.timeKnown = FALSE
    BY <1>2, <1>3 DEF c, RestoreUsage, NewController
  <2>3. QED
    BY <2>1, <2>2
<1> HIDE DEF c
<1>5. ctl = c \/ ctl = SetRelays(cfg, c, 0, LowestOfSets(cfg, cfg.powerOn \ c.capped), {})
  BY <1>1 DEF Boot, c
<1>6. ctl.link = None /\ ctl.connected = FALSE /\ ctl.timeKnown = FALSE
  <2> DEFINE first == LowestOfSets(cfg, cfg.powerOn \ c.capped)
             d == SetRelays(cfg, c, 0, first, {})
  <2>1. first \in SUBSET Ch
    BY <1>2 DEF LowestOfSets, Config
  <2> HIDE DEF first
  <2>2. d.link = c.link
    <3>1. 0 \in Nat /\ {} \in SUBSET Ch
      OBVIOUS
    <3>2. QED
      BY <1>2, <1>4, <2>1, <3>1, SetRelaysFrame
  <2>3. SamePresence(c, d)
    BY <1>4, SetRelaysPresence
  <2> HIDE DEF d
  <2>4. QED
    BY <1>4, <1>5, <2>2, <2>3 DEF SamePresence, d, first
<1>7. None # "OfflineSchedule"
  BY NoneAssumption DEF Links
<1>8. QED
  BY <1>6, <1>7 DEF LinkInv, ScheduleOwnsRelays

\* The invariant of the firmware is inductive, for any number of relays, any
\* schedules, limits and clocks.
THEOREM TakeoverInvariant == FirmwareSpec => []TInv
<1>1. Init /\ cfg.grace = 0 => LinkInv /\ ScheduleOwnsRelays
  BY InitTInv
<1>2. IInv /\ IInv' /\ LinkInv /\ ScheduleOwnsRelays /\ [FirmwareNext]_vars
      => LinkInv' /\ ScheduleOwnsRelays'
  <2> SUFFICES ASSUME IInv, IInv', LinkInv, ScheduleOwnsRelays, [FirmwareNext]_vars
               PROVE  LinkInv' /\ ScheduleOwnsRelays'
    OBVIOUS
  <2>1. wall' \in Nat \cup {None}
    BY DEF IInv, TypeOK
  <2>2. QED
    BY <2>1, FirmwareKinds, LinkInvKept, OwnershipKept
<1>3. QED
  BY <1>1, <1>2, FirmwareImpliesSpec, ArbiterInvariant, PTL DEF FirmwareSpec, TInv

\* While the stored schedule is in charge no relay is on against its wish.
THEOREM TakeoverOwnsRelays == FirmwareSpec => []ScheduleOwnsRelays
<1>1. TInv => ScheduleOwnsRelays
  BY DEF TInv
<1>2. QED
  BY <1>1, TakeoverInvariant, PTL

\* A re-evaluation with Home Assistant in charge, and a quiet step, switch nothing
\* on; so what goes on is the channel of a command.
THEOREM TakeoverOnlyHaSwitchesOn == FirmwareSpec => OnlyHaSwitchesOn
<1>1. TInv /\ TInv' /\ [FirmwareNext]_vars
      => [ctl'.link = "Online"
            => \A ch \in ctl'.relays \ ctl.relays : HaCommand(ch, TRUE)]_vars
  <2> SUFFICES ASSUME TInv, TInv', [FirmwareNext]_vars, ctl'.link = "Online",
                      NEW ch \in ctl'.relays \ ctl.relays
               PROVE  HaCommand(ch, TRUE)
    OBVIOUS
  <2>1. IInv /\ LinkInv /\ wall' \in Nat \cup {None}
    BY DEF TInv, IInv, TypeOK
  <2>2. CASE Quiet
    BY <2>2 DEF Quiet
  <2>3. ASSUME NEW g, NEW c, NEW lt, Reviews(g, c, lt) PROVE FALSE
    <3>1. /\ now \in Nat /\ lt \in LocalTime \cup {None}
          /\ ComputeLink(g, c, now) = "Online"
      BY <2>1, <2>3, ReviewLink
    <3>2. /\ g \in Config /\ Sound(g, c, now) /\ OnlyOff(ctl, c)
          /\ ctl' = Refresh(g, c, now, lt)
      BY <2>3 DEF Reviews
    <3>3. ctl'.relays \subseteq c.relays
      BY <3>1, <3>2, RefreshOnline
    <3>4. QED
      BY <3>2, <3>3 DEF OnlyOff
  <2>4. ASSUME NEW channel \in Ch, NEW on \in BOOLEAN, Obeyed(channel, on) PROVE HaCommand(ch, TRUE)
    <3>1. ctl'.relays \subseteq ctl.relays \cup (IF on THEN {channel} ELSE {})
      BY <2>1, <2>4, ObeyedEffect DEF LinkInv
    <3>2. on = TRUE /\ ch = channel
      BY <3>1
    <3>3. HaCommand(channel, on)
      BY <2>4 DEF Obeyed
    <3>4. QED
      BY <3>2, <3>3
  <2>5. QED
    BY <2>1, <2>2, <2>3, <2>4, FirmwareKinds DEF Kinds
<1>2. QED
  BY <1>1, TakeoverInvariant, PTL DEF FirmwareSpec, OnlyHaSwitchesOn

\* The timers of a controller about to be re-evaluated are those of the state.
LEMMA ExpiredBefore ==
  ASSUME NEW g, NEW c, NEW t, Sound(g, c, t), OnlyOff(ctl, c)
  PROVE  Expired(g, c, t) \subseteq Expired(g, ctl, t)
<1>1. \A ch \in Ch : c.onSince[ch] # None => ch \in c.relays
  BY DEF Sound, Timed
<1>2. QED
  BY <1>1 DEF Expired, OnlyOff

\* When the schedule takes over, the re-evaluation that found it in charge knew
\* the local time and drove every channel.
THEOREM TakeoverSnaps == FirmwareSpec => SnapOnTakeover
<1>1. TInv /\ TInv' /\ [FirmwareNext]_vars
      => [/\ ctl.link # "OfflineSchedule" /\ ctl'.link = "OfflineSchedule"
          /\ cfg'.mode = "Auto"
          => LET targets == Targets(cfg', ctl', Local(wall'))
             IN ctl'.relays \subseteq targets /\ targets = Served(targets)]_vars
  <2> DEFINE targets == Targets(cfg', ctl', Local(wall'))
  <2> SUFFICES ASSUME TInv, TInv', [FirmwareNext]_vars,
                      ctl.link # "OfflineSchedule", ctl'.link = "OfflineSchedule",
                      cfg'.mode = "Auto"
               PROVE  ctl'.relays \subseteq targets /\ targets = Served(targets)
    OBVIOUS
  <2>1. IInv /\ LinkInv /\ wall' \in Nat \cup {None}
    BY DEF TInv, IInv, TypeOK
  <2>2. ~Quiet
    BY DEF Quiet
  <2>3. ASSUME NEW ch \in Ch, NEW on \in BOOLEAN, Obeyed(ch, on) PROVE FALSE
    BY <2>1, <2>3, ObeyedEffect DEF LinkInv
  <2>4. PICK g, c, lt : Reviews(g, c, lt)
    BY <2>1, <2>2, <2>3, FirmwareKinds DEF Kinds
  <2>5. /\ g \in Config /\ now \in Nat
        /\ Sound(g, c, now) /\ OnlyOff(ctl, c) /\ c.link = ctl.link
        /\ cfg' = g /\ ctl' = Refresh(g, c, now, lt)
    BY <2>1, <2>4 DEF Reviews, IInv, TypeOK
  <2>6. /\ ComputeLink(g, c, now) = "OfflineSchedule"
        /\ lt = Local(wall') /\ lt \in LocalTime
    BY <2>1, <2>4, ReviewInCharge
  <2>7. targets = Targets(g, Refresh(g, c, now, lt), lt)
    BY <2>5, <2>6
  <2> HIDE DEF targets
  <2>8. /\ ctl'.relays \subseteq targets
        /\ \A ch \in targets : \/ ch \in ctl'.relays \cup ctl'.capped \cup Expired(g, c, now)
                               \/ \E other \in targets : ch < other /\ Interlocked(g, ch, other)
    BY <2>5, <2>6, <2>7, RefreshInCharge
  <2>9. Expired(g, c, now) \subseteq Expired(g, ctl, now)
    BY <2>5, ExpiredBefore
  <2>10. QED
    BY <2>5, <2>8, <2>9 DEF Served
<1>2. QED
  BY <1>1, TakeoverInvariant, PTL DEF FirmwareSpec, SnapOnTakeover

\* After a tick no relay is on that the schedule does not want, and when a hold
\* has run out all are on that it wants.
THEOREM TakeoverTickFollows == FirmwareSpec => TickFollowsTargets
<1>1. TInv /\ TInv' /\ [FirmwareNext]_vars
      => [Tick /\ ScheduleDrives' /\ wall # None
          => LET targets == Targets(cfg, ctl', Local(wall))
             IN /\ ctl'.relays \subseteq targets
                /\ ctl.holdUntil > 0 /\ ctl'.holdUntil = 0 => targets = Served(targets)]_vars
  <2> DEFINE targets == Targets(cfg, ctl', Local(wall))
             lt == Local(wall)
             c == Sampled
  <2> SUFFICES ASSUME TInv, TInv', Tick, ScheduleDrives', wall # None
               PROVE  /\ ctl'.relays \subseteq targets
                      /\ ctl.holdUntil > 0 /\ ctl'.holdUntil = 0 => targets = Served(targets)
    OBVIOUS
  <2>1. IInv /\ LinkInv /\ ScheduleOwnsRelays /\ wall' \in Nat \cup {None}
    BY DEF TInv, IInv, TypeOK
  <2>2. Reviews(cfg, c, lt) /\ ctl'.link = "OfflineSchedule" /\ cfg'.mode = "Auto"
    BY <2>1, TickKind DEF ScheduleDrives
  <2>3. /\ cfg \in Config /\ cfg.mode = "Auto" /\ now \in Nat
        /\ Sound(cfg, c, now) /\ OnlyOff(ctl, c)
        /\ cfg' = cfg /\ ctl' = Refresh(cfg, c, now, lt)
    BY <2>1, <2>2 DEF Reviews, IInv, TypeOK
  <2>4. wall \in Nat
    BY <2>1 DEF IInv, TypeOK
  <2>5. lt \in LocalTime
    BY <2>4, KnownTime
  <2>6. ComputeLink(cfg, c, now) = "OfflineSchedule"
    BY <2>1, <2>2, ReviewLink
  <2>7. c.link # "OfflineSchedule" \/ Owned(c)
    BY <2>1, <2>2, <2>3, OwnedBefore
  <2>8. ctl.holdUntil > 0 /\ ctl'.holdUntil = 0 => HoldOver(c)
    <3>1. ctl'.holdUntil = IF HoldOver(c) THEN 0 ELSE c.holdUntil
      BY <2>1, <2>2, ReviewLink
    <3>2. c.holdUntil = ctl.holdUntil /\ ctl.holdUntil \in Nat
      BY <2>1, SampledFields DEF IInv, TypeOK, Controller
    <3> HIDE DEF c
    <3>3. QED
      BY <3>1, <3>2
  <2>9. targets = Targets(cfg, Refresh(cfg, c, now, lt), lt)
    BY <2>3
  <2>10. Expired(cfg, c, now) \subseteq Expired(cfg, ctl, now)
    BY <2>3, ExpiredBefore
  <2> HIDE DEF targets, c, lt
  <2>11. /\ ctl'.relays \subseteq targets
         /\ HoldOver(c) =>
              \A ch \in targets : \/ ch \in ctl'.relays \cup ctl'.capped \cup Expired(cfg, c, now)
                                  \/ \E other \in targets : ch < other /\ Interlocked(cfg, ch, other)
    BY <2>3, <2>5, <2>6, <2>7, <2>9, RefreshInCharge
  <2>12. QED
    BY <2>3, <2>8, <2>10, <2>11 DEF Served
<1>2. QED
  BY <1>1, TakeoverInvariant, PTL DEF FirmwareSpec, TickFollowsTargets

\* The display, case by case.
LEMMA DriverShown ==
  ASSUME NEW g, NEW c
  PROVE  /\ g.mode # "Off" /\ c.link = "Online" => Driver(g, c) = "home_assistant"
         /\ g.mode = "Auto" /\ c.link = "OfflineUnknownTime" => Driver(g, c) = "safe_state_no_clock"
         /\ g.mode = "Auto" /\ c.link = "OfflineSchedule" =>
              Driver(g, c) = IF RainHoldActive(c) THEN "schedule_held" ELSE "schedule"
  BY DEF Driver

\* What goes on is what the one shown as deciding afterwards may switch on.  In mode
\* Manual the loss of Home Assistant with the clock unknown is the one exception.
THEOREM TakeoverDriverTruthful == FirmwareSpec => DriverTruthful
<1>1. TInv /\ TInv' /\ [FirmwareNext]_vars => [SwitchesAsShown]_vars
  <2> SUFFICES ASSUME TInv, TInv', [FirmwareNext]_vars
               PROVE  \/ SwitchedOn \subseteq MaySwitchOn(Driver(cfg', ctl'))
                      \/ cfg'.mode = "Manual" /\ LosesAll /\ SwitchedOn \subseteq SafeStates(cfg')
    BY DEF SwitchesAsShown
  <2>1. /\ IInv /\ LinkInv /\ ScheduleOwnsRelays
        /\ wall' \in Nat \cup {None} /\ cfg' \in Config
        /\ cfg'.mode = "Off" => ctl'.relays = {}
    BY DEF TInv, IInv, TypeOK, OffMeansOff
  <2>2. CASE SwitchedOn = {}
    BY <2>2
  <2>3. CASE Quiet
    BY <2>2, <2>3 DEF Quiet, SwitchedOn
  <2>4. ASSUME NEW ch \in Ch, NEW on \in BOOLEAN, Obeyed(ch, on)
        PROVE  SwitchedOn \subseteq MaySwitchOn(Driver(cfg', ctl'))
    <3>1. /\ cfg' = cfg /\ ctl'.link = "Online"
          /\ ctl'.relays \subseteq ctl.relays \cup (IF on THEN {ch} ELSE {})
      BY <2>1, <2>4, ObeyedEffect DEF LinkInv
    <3>2. HaCommand(ch, on) /\ cfg.mode # "Off"
      BY <2>4 DEF Obeyed
    <3>3. Driver(cfg', ctl') = "home_assistant"
      BY <3>1, <3>2 DEF Driver
    <3>4. \A other \in SwitchedOn : other = ch /\ on = TRUE
      BY <3>1 DEF SwitchedOn
    <3>5. SwitchedOn \subseteq {other \in Ch : HaCommand(other, TRUE)}
      BY <3>2, <3>4
    <3>6. QED
      BY <3>3, <3>5 DEF MaySwitchOn
  <2>5. ASSUME NEW g, NEW c, NEW lt, Reviews(g, c, lt), SwitchedOn # {}
        PROVE  \/ SwitchedOn \subseteq MaySwitchOn(Driver(cfg', ctl'))
               \/ cfg'.mode = "Manual" /\ LosesAll /\ SwitchedOn \subseteq SafeStates(cfg')
    <3> DEFINE link == ComputeLink(g, c, now)
    <3>1. /\ now \in Nat /\ lt \in LocalTime \cup {None}
          /\ ctl'.link = link
      BY <2>1, <2>5, ReviewLink
    <3>2. /\ g \in Config /\ Sound(g, c, now) /\ OnlyOff(ctl, c) /\ c.link = ctl.link
          /\ cfg' = g /\ ctl' = Refresh(g, c, now, lt)
      BY <2>5 DEF Reviews
    <3>3. c.relays \subseteq ctl.relays
      BY <3>2 DEF OnlyOff
    <3>4. g.mode \in {"Auto", "Manual"} /\ link \in Links
      BY <2>1, <2>5, <3>2 DEF SwitchedOn, Config, Modes, ComputeLink, Links
    <3> HIDE DEF link
    <3>5. CASE link # "OfflineSchedule" \/ g.mode # "Auto"
      <4>1. ctl'.relays \subseteq c.relays \cup Adopted(g, c, now)
        BY <3>1, <3>2, <3>5, RefreshUnruled DEF link
      <4>2. SwitchedOn \subseteq Adopted(g, c, now)
        BY <3>3, <4>1 DEF SwitchedOn
      <4>3. /\ link = "OfflineUnknownTime" /\ ctl.link # "OfflineUnknownTime"
            /\ SwitchedOn \subseteq SafeStates(g)
        BY <2>5, <3>2, <4>2 DEF Adopted, link
      <4>4. CASE g.mode = "Manual"
        BY <3>1, <3>2, <4>3, <4>4 DEF LosesAll
      <4>5. CASE g.mode = "Auto"
        <5>1. Driver(cfg', ctl') = "safe_state_no_clock"
          BY <3>1, <3>2, <4>3, <4>5 DEF Driver
        <5>2. QED
          BY <3>2, <4>3, <5>1 DEF MaySwitchOn
      <4>6. QED
        BY <3>4, <4>4, <4>5
    <3>6. CASE link = "OfflineSchedule" /\ g.mode = "Auto"
      <4>1. lt # None
        BY <2>5, <3>2, <3>3, <3>6, RefreshWithoutTime, <3>1 DEF link, SwitchedOn
      <4>2. lt = Local(wall') /\ lt \in LocalTime /\ wall' # None
        BY <2>1, <2>5, <3>1, <3>6, <4>1, ReviewInCharge
      <4>3. c.link # "OfflineSchedule" \/ Owned(c)
        BY <2>1, <2>5, <3>6, OwnedBefore
      <4> DEFINE targets == Targets(cfg', ctl', Local(wall'))
      <4>4. targets = Targets(g, Refresh(g, c, now, lt), lt)
        BY <3>2, <4>2
      <4> HIDE DEF targets
      <4>5. ctl'.relays \subseteq targets
        BY <3>1, <3>2, <3>6, <4>2, <4>3, <4>4, RefreshInCharge DEF link
      <4>6. SwitchedOn \subseteq targets
        BY <4>5 DEF SwitchedOn
      <4>7. CASE RainHoldActive(ctl')
        <5>1. Driver(cfg', ctl') = "schedule_held"
          BY <3>1, <3>2, <3>6, <4>7 DEF Driver
        <5>2. targets \subseteq {ch \in cfg'.powerOn : cfg'.schedule[ch] = {}}
          BY <4>7 DEF targets, Targets
        <5>3. QED
          BY <4>6, <5>1, <5>2 DEF MaySwitchOn
      <4>8. CASE ~RainHoldActive(ctl')
        <5>1. Driver(cfg', ctl') = "schedule"
          BY <3>1, <3>2, <3>6, <4>8 DEF Driver
        <5>2. QED
          BY <4>2, <4>6, <5>1 DEF MaySwitchOn, targets
      <4>9. QED
        BY <4>7, <4>8
    <3>7. QED
      BY <3>5, <3>6
  <2>6. QED
    BY <2>1, <2>2, <2>3, <2>4, <2>5, FirmwareKinds DEF Kinds
<1>2. QED
  BY <1>1, TakeoverInvariant, PTL DEF FirmwareSpec, DriverTruthful
=============================================================================
