-------------------------- MODULE RelayLoopProofs --------------------------
(***************************************************************************)
(* A loop of set_relay calls comes to one step on sets, for any number of  *)
(* relays and any exclusive sets: the reason the other modules may take it *)
(* as one.  The argument adds one channel at a time.                       *)
(***************************************************************************)
EXTENDS RelayLoop, TLAPS, SequenceTheorems, FiniteSetTheorems

Ctls == [relays : SUBSET Ch, onSince : [Ch -> Nat \cup {None}], capped : SUBSET Ch]

\* A relay that is off has no timer.
Untimed(c) == \A ch \in Ch \ c.relays : c.onSince[ch] = None

-----------------------------------------------------------------------------
(***************************************************************************)
(* What SetRelays and SetRelay come to, field by field.                    *)
(***************************************************************************)
LEMMA SameCtl ==
  ASSUME NEW c \in Ctls, NEW d \in Ctls, c.relays = d.relays, c.capped = d.capped,
         \A ch \in Ch : c.onSince[ch] = d.onSince[ch]
  PROVE  c = d
  BY DEF Ctls

\* What switching leaves on is a set of relays.
LEMMA RelaysAfterType ==
  ASSUME NEW g, NEW c \in Ctls, NEW ons \in SUBSET Ch, NEW offs \in SUBSET Ch
  PROVE  RelaysAfter(g, c, ons, offs) \in SUBSET Ch
  BY DEF RelaysAfter, Ctls

\* SetRelays comes to d, if RelaysAfter comes to `on`.
IsSetRelays(g, c, t, ons, on, d) ==
  /\ d \in Ctls
  /\ d.relays = on
  /\ d.capped = c.capped
  /\ \A ch \in Ch : d.onSince[ch] =
       IF ch \in on /\ ch \in c.relays /\ Rivals(g, c, ons, ch) = {} THEN c.onSince[ch]
       ELSE IF ch \in on THEN t ELSE None

\* Which fields switching changes, and how.
LEMMA SetRelaysFields ==
  ASSUME NEW g, NEW c \in Ctls, NEW t \in Nat, NEW ons \in SUBSET Ch, NEW offs \in SUBSET Ch
  PROVE  IsSetRelays(g, c, t, ons, RelaysAfter(g, c, ons, offs), SetRelays(g, c, t, ons, offs))
  BY RelaysAfterType DEF SetRelays, Ctls, IsSetRelays

\* No relay that is off is timed after switching.
LEMMA SetRelaysUntimed ==
  ASSUME NEW g, NEW c, NEW t, NEW ons, NEW on, NEW d, IsSetRelays(g, c, t, ons, on, d)
  PROVE  Untimed(d)
  BY DEF IsSetRelays, Untimed

\* SetRelay comes to d, the relays `gone` giving way to k.
IsSetRelay(c, t, k, on, restart, gone, d) ==
  /\ d \in Ctls
  /\ d.relays = IF on THEN (c.relays \ gone) \cup {k} ELSE c.relays \ {k}
  /\ d.capped = c.capped
  /\ \A ch \in Ch : d.onSince[ch] =
       IF ch \in gone \/ (ch = k /\ ~on) THEN None
       ELSE IF ch = k /\ (restart \/ k \notin c.relays) THEN t
       ELSE c.onSince[ch]

\* What one call of set_relay changes, unless it switches a capped relay on.
LEMMA SetRelayFields ==
  ASSUME NEW g, NEW c \in Ctls, NEW t \in Nat, NEW k \in Ch, NEW on \in BOOLEAN,
         NEW restart \in BOOLEAN, ~(on /\ k \in c.capped)
  PROVE  IsSetRelay(c, t, k, on, restart, GivingWay(g, c, k, on), SetRelay(g, c, t, k, on, restart))
  BY DEF SetRelay, GivingWay, Ctls, IsSetRelay

-----------------------------------------------------------------------------
(***************************************************************************)
(* One more channel.                                                       *)
(***************************************************************************)
LEMMA NoneAsked ==
  ASSUME NEW g, NEW c \in Ctls, Untimed(c), NEW t \in Nat
  PROVE  SetRelays(g, c, t, {}, {}) = c
<1>1. \A ch \in Ch : Rivals(g, c, {}, ch) = {}
  BY DEF Rivals
<1>2. RelaysAfter(g, c, {}, {}) = c.relays
  BY <1>1 DEF RelaysAfter, Ctls
<1>3. PICK d : d = SetRelays(g, c, t, {}, {})
  OBVIOUS
<1>4. IsSetRelays(g, c, t, {}, c.relays, d)
  BY <1>2, <1>3, SetRelaysFields
<1>5. \A ch \in Ch : d.onSince[ch] = c.onSince[ch]
  BY <1>1, <1>4 DEF IsSetRelays, Untimed
<1>6. d = c
  BY <1>4, <1>5, SameCtl DEF IsSetRelays
<1>7. QED
  BY <1>3, <1>6

\* A call for k after those for `ons` and `offs` comes to having asked k too.
OffExtends(g, c, t, k, ons, offs) ==
  SetRelay(g, SetRelays(g, c, t, ons, offs), t, k, FALSE, FALSE) = SetRelays(g, c, t, ons, offs \cup {k})

OnExtends(g, c, t, k, ons, offs) ==
  SetRelay(g, SetRelays(g, c, t, ons, offs), t, k, TRUE, FALSE) = SetRelays(g, c, t, ons \cup {k}, offs)

\* One more call that switches off is one more relay off in the step.
LEMMA OneMoreOff ==
  ASSUME NEW g, NEW c \in Ctls, NEW t \in Nat, NEW k \in Ch,
         NEW ons \in SUBSET Ch, NEW offs \in SUBSET Ch, k \notin ons
  PROVE  OffExtends(g, c, t, k, ons, offs)
<1>d. PICK d : d = SetRelays(g, c, t, ons, offs)
  OBVIOUS
<1>e. PICK e : e = SetRelay(g, d, t, k, FALSE, FALSE)
  OBVIOUS
<1>f. PICK f : f = SetRelays(g, c, t, ons, offs \cup {k})
  OBVIOUS
<1>1. PICK on : on = RelaysAfter(g, c, ons, offs)
  OBVIOUS
<1>2. RelaysAfter(g, c, ons, offs \cup {k}) = on \ {k}
  BY <1>1 DEF RelaysAfter
<1>3. IsSetRelays(g, c, t, ons, on, d)
  BY <1>1, <1>d, SetRelaysFields
<1>4. offs \cup {k} \in SUBSET Ch
  OBVIOUS
<1>5. IsSetRelays(g, c, t, ons, on \ {k}, f)
  BY <1>2, <1>4, <1>f, SetRelaysFields
<1>6. IsSetRelay(d, t, k, FALSE, FALSE, {}, e)
  <2>1. GivingWay(g, d, k, FALSE) = {}
    BY DEF GivingWay
  <2>2. d \in Ctls
    BY <1>3 DEF IsSetRelays
  <2>3. QED
    BY <1>e, <2>1, <2>2, SetRelayFields
<1>7. ASSUME NEW ch \in Ch
      PROVE  e.onSince[ch] = f.onSince[ch]
  <2>1. e.onSince[ch] = IF ch = k THEN None ELSE d.onSince[ch]
    BY <1>6 DEF IsSetRelay
  <2>2. QED
    BY <1>3, <1>5, <2>1 DEF IsSetRelays
<1>8. /\ e \in Ctls /\ f \in Ctls
      /\ e.relays = f.relays /\ e.capped = f.capped
  BY <1>3, <1>5, <1>6 DEF IsSetRelays, IsSetRelay
<1>9. e = f
  BY <1>7, <1>8, SameCtl
<1>10. QED
  BY <1>d, <1>e, <1>f, <1>9 DEF OffExtends

\* One more call that switches on is one more relay on in the step.
LEMMA OneMoreOn ==
  ASSUME NEW g, NEW c \in Ctls, NEW t \in Nat, NEW k \in Ch,
         NEW ons \in SUBSET (1..k - 1), NEW offs \in SUBSET (1..k - 1)
  PROVE  OnExtends(g, c, t, k, ons, offs)
<1>d. PICK d : d = SetRelays(g, c, t, ons, offs)
  OBVIOUS
<1>e. PICK e : e = SetRelay(g, d, t, k, TRUE, FALSE)
  OBVIOUS
<1>f. PICK f : f = SetRelays(g, c, t, ons \cup {k}, offs)
  OBVIOUS
<1>0. /\ ons \in SUBSET Ch /\ offs \in SUBSET Ch /\ ons \cup {k} \in SUBSET Ch
      /\ \A o \in ons : o \in Int /\ o < k
      /\ k \notin offs /\ k \notin ons /\ k \in Int
  BY RelaysAssumption DEF Ch
<1>1. PICK on : on = RelaysAfter(g, c, ons, offs)
  OBVIOUS
<1>2. PICK after : after = RelaysAfter(g, c, ons \cup {k}, offs)
  OBVIOUS
<1>3. IsSetRelays(g, c, t, ons, on, d)
  BY <1>0, <1>1, <1>d, SetRelaysFields
<1>4. IsSetRelays(g, c, t, ons \cup {k}, after, f)
  BY <1>0, <1>2, <1>f, SetRelaysFields
<1>5. CASE k \in c.capped
  <2>1. \A ch \in Ch : Rivals(g, c, ons \cup {k}, ch) = Rivals(g, c, ons, ch)
    BY <1>5 DEF Rivals
  <2>2. after = on
    BY <1>0, <1>1, <1>2, <1>5, <2>1 DEF RelaysAfter, Ctls
  <2>3. e = d
    BY <1>3, <1>5, <1>e DEF SetRelay, IsSetRelays
  <2>4. \A ch \in Ch : d.onSince[ch] = f.onSince[ch]
    BY <1>3, <1>4, <2>1, <2>2 DEF IsSetRelays
  <2>5. d \in Ctls /\ f \in Ctls /\ d.relays = f.relays /\ d.capped = f.capped
    BY <1>3, <1>4, <2>2 DEF IsSetRelays
  <2>6. e = f
    BY <2>3, <2>4, <2>5, SameCtl
  <2>7. QED
    BY <1>d, <1>e, <1>f, <2>6 DEF OnExtends
<1>6. CASE k \notin c.capped
  <2>1. PICK gone : gone = {o \in on : Interlocked(g, k, o)}
    OBVIOUS
  <2>2. IsSetRelay(d, t, k, TRUE, FALSE, gone, e)
    <3>1. GivingWay(g, d, k, TRUE) = gone
      BY <1>3, <2>1 DEF GivingWay, IsSetRelays
    <3>2. d \in Ctls /\ k \notin d.capped
      BY <1>3, <1>6 DEF IsSetRelays
    <3>3. QED
      BY <1>e, <3>1, <3>2, SetRelayFields
  <2>3. \A ch \in Ch : Rivals(g, c, ons \cup {k}, ch) =
          IF Interlocked(g, ch, k) THEN Rivals(g, c, ons, ch) \cup {k} ELSE Rivals(g, c, ons, ch)
    BY <1>6 DEF Rivals
  <2>4. \A ch \in Ch : Interlocked(g, ch, k) <=> Interlocked(g, k, ch)
    BY DEF Interlocked
  <2>5. ~Interlocked(g, k, k)
    BY DEF Interlocked
  <2>6. \A ch \in Ch : Rivals(g, c, ons, ch) \subseteq ons
    BY DEF Rivals
  <2>7. k \in after
    <3>1. Rivals(g, c, ons \cup {k}, k) \subseteq ons
      BY <2>3, <2>5, <2>6
    <3>2. QED
      BY <1>0, <1>2, <1>6, <3>1 DEF RelaysAfter
  <2>8. ASSUME NEW ch \in Ch, ch # k
        PROVE  ch \in after <=> ch \in on /\ ~Interlocked(g, k, ch)
    <3>1. CASE ch \in ons
      <4>1. ch \in Int /\ k \in Int /\ ch < k
        BY <1>0, <3>1
      <4>2. CASE Interlocked(g, k, ch)
        <5>1. k \in Rivals(g, c, ons \cup {k}, ch)
          BY <2>3, <2>4, <4>2
        <5>2. ~(k < ch)
          BY <4>1
        <5>3. ch \notin after
          BY <1>2, <5>1, <5>2 DEF RelaysAfter
        <5>4. QED
          BY <4>2, <5>3
      <4>3. CASE ~Interlocked(g, k, ch)
        <5>1. Rivals(g, c, ons \cup {k}, ch) = Rivals(g, c, ons, ch)
          BY <2>3, <2>4, <4>3
        <5>2. QED
          BY <1>1, <1>2, <3>1, <4>3, <5>1 DEF RelaysAfter
      <4>4. QED
        BY <4>2, <4>3
    <3>2. CASE ch \notin ons
      <4>1. ch \in on <=> ch \in c.relays /\ ch \notin offs /\ Rivals(g, c, ons, ch) = {}
        BY <1>1, <3>2 DEF RelaysAfter
      <4>2. ch \in after <=> ch \in c.relays /\ ch \notin offs /\ Rivals(g, c, ons \cup {k}, ch) = {}
        BY <1>2, <2>8, <3>2 DEF RelaysAfter
      <4>3. Rivals(g, c, ons \cup {k}, ch) = {} <=> Rivals(g, c, ons, ch) = {} /\ ~Interlocked(g, k, ch)
        BY <2>3, <2>4
      <4>4. QED
        BY <4>1, <4>2, <4>3
    <3>3. QED
      BY <3>1, <3>2
  <2>9. after = (on \ gone) \cup {k}
    <3>1. after \in SUBSET Ch /\ on \in SUBSET Ch
      BY <1>0, <1>1, <1>2, RelaysAfterType
    <3>2. QED
      BY <2>1, <2>5, <2>7, <2>8, <3>1
  <2>10. k \in on <=> k \in c.relays /\ Rivals(g, c, ons, k) = {}
    BY <1>0, <1>1 DEF RelaysAfter
  <2>11. ASSUME NEW ch \in Ch
        PROVE  e.onSince[ch] = f.onSince[ch]
    <3>1. CASE ch \in gone
      <4>1. ch # k /\ ch \notin after
        BY <2>1, <2>5, <2>9, <3>1
      <4>2. QED
        BY <1>4, <2>2, <3>1, <4>1 DEF IsSetRelays, IsSetRelay
    <3>2. CASE ch \notin gone /\ ch # k
      <4>1. ch \in after <=> ch \in on
        BY <2>9, <3>2
      <4>2. ch \in on => Rivals(g, c, ons \cup {k}, ch) = Rivals(g, c, ons, ch)
        BY <2>1, <2>3, <2>4, <3>2
      <4>3. e.onSince[ch] = d.onSince[ch]
        BY <2>2, <3>2 DEF IsSetRelay
      <4>4. QED
        BY <1>3, <1>4, <4>1, <4>2, <4>3 DEF IsSetRelays
    <3>3. CASE ch = k
      <4>1. Rivals(g, c, ons \cup {k}, k) = Rivals(g, c, ons, k)
        BY <2>3, <2>5
      <4>2. k \notin gone
        BY <2>1, <2>5
      <4>3. e.onSince[k] = IF k \in on THEN d.onSince[k] ELSE t
        BY <1>3, <2>2, <4>2 DEF IsSetRelay, IsSetRelays
      <4>4. f.onSince[k] = IF k \in on THEN c.onSince[k] ELSE t
        BY <1>4, <2>7, <2>10, <4>1 DEF IsSetRelays
      <4>5. k \in on => d.onSince[k] = c.onSince[k]
        BY <1>3, <2>10 DEF IsSetRelays
      <4>6. QED
        BY <3>3, <4>3, <4>4, <4>5
    <3>4. QED
      BY <3>1, <3>2, <3>3
  <2>12. /\ e \in Ctls /\ f \in Ctls
         /\ e.relays = f.relays /\ e.capped = f.capped
    BY <1>3, <1>4, <2>2, <2>9 DEF IsSetRelays, IsSetRelay
  <2>13. e = f
    BY <2>11, <2>12, SameCtl
  <2>14. QED
    BY <1>d, <1>e, <1>f, <2>13 DEF OnExtends
<1>7. QED
  BY <1>5, <1>6

-----------------------------------------------------------------------------
(***************************************************************************)
(* One call outside a loop: a command.                                     *)
(***************************************************************************)
LEMMA OneCommand ==
  ASSUME NEW g, NEW c \in Ctls, Untimed(c), NEW t \in Nat, NEW k \in Ch, NEW on \in BOOLEAN,
         NEW e, e = SetRelay(g, c, t, k, on, TRUE)
  PROVE  e = CommandRelay(g, c, t, k, on)
<1>1. PICK f : f = CommandRelay(g, c, t, k, on)
  OBVIOUS
<1>2. CASE ~on
  <2>1. IsSetRelay(c, t, k, FALSE, TRUE, {}, e)
    <3>1. GivingWay(g, c, k, FALSE) = {} /\ e = SetRelay(g, c, t, k, FALSE, TRUE)
      BY <1>2 DEF GivingWay
    <3>2. QED
      BY <3>1, SetRelayFields
  <2>2. \A ch \in Ch : Rivals(g, c, {}, ch) = {}
    BY DEF Rivals
  <2>3. RelaysAfter(g, c, {}, {k}) = c.relays \ {k}
    BY <2>2 DEF RelaysAfter, Ctls
  <2>4. PICK d : d = SetRelays(g, c, t, {}, {k})
    OBVIOUS
  <2>5. IsSetRelays(g, c, t, {}, c.relays \ {k}, d)
    BY <2>3, <2>4, SetRelaysFields
  <2>6. f = [d EXCEPT !.onSince = d.onSince]
    <3>1. (IF on THEN {k} ELSE {}) = {} /\ (IF on THEN {} ELSE {k}) = {k}
      BY <1>2
    <3>2. QED
      BY <1>1, <1>2, <2>4, <3>1 DEF CommandRelay
  <2>7. f = d
    BY <2>5, <2>6 DEF IsSetRelays, Ctls
  <2>8. \A ch \in Ch : e.onSince[ch] = d.onSince[ch]
    BY <2>1, <2>2, <2>5 DEF IsSetRelay, IsSetRelays, Untimed
  <2>9. e \in Ctls /\ d \in Ctls /\ e.relays = d.relays /\ e.capped = d.capped
    BY <2>1, <2>5 DEF IsSetRelay, IsSetRelays
  <2>10. QED
    BY <1>1, <2>7, <2>8, <2>9, SameCtl
<1>3. CASE on /\ k \in c.capped
  <2>1. e = c
    BY <1>3 DEF SetRelay
  <2>2. \A ch \in Ch : Rivals(g, c, {k}, ch) = {}
    BY <1>3 DEF Rivals
  <2>3. RelaysAfter(g, c, {k}, {}) = c.relays
    BY <1>3, <2>2 DEF RelaysAfter, Ctls
  <2>4. PICK d : d = SetRelays(g, c, t, {k}, {})
    OBVIOUS
  <2>5. IsSetRelays(g, c, t, {k}, c.relays, d)
    BY <2>3, <2>4, SetRelaysFields
  <2>6. \A ch \in Ch : d.onSince[ch] = c.onSince[ch]
    BY <2>2, <2>5 DEF IsSetRelays, Untimed
  <2>7. d = c
    BY <2>5, <2>6, SameCtl DEF IsSetRelays
  <2>8. QED
    BY <1>3, <2>1, <2>4, <2>7 DEF CommandRelay, Ctls
<1>4. CASE on /\ k \notin c.capped
  <2>1. PICK gone : gone = {o \in c.relays : Interlocked(g, k, o)}
    OBVIOUS
  <2>2. IsSetRelay(c, t, k, TRUE, TRUE, gone, e)
    <3>1. GivingWay(g, c, k, TRUE) = gone
      BY <2>1 DEF GivingWay
    <3>2. QED
      BY <1>4, <3>1, SetRelayFields
  <2>3. PICK d : d = SetRelays(g, c, t, {k}, {})
    OBVIOUS
  <2>4. \A ch \in Ch : Rivals(g, c, {k}, ch) = IF Interlocked(g, ch, k) THEN {k} ELSE {}
    BY <1>4 DEF Rivals
  <2>5. \A ch \in Ch : Interlocked(g, ch, k) <=> Interlocked(g, k, ch)
    BY DEF Interlocked
  <2>6. ~Interlocked(g, k, k)
    BY DEF Interlocked
  <2>7. RelaysAfter(g, c, {k}, {}) = (c.relays \ gone) \cup {k}
    BY <1>4, <2>1, <2>4, <2>5, <2>6 DEF RelaysAfter, Ctls
  <2>8. IsSetRelays(g, c, t, {k}, (c.relays \ gone) \cup {k}, d)
    BY <2>3, <2>7, SetRelaysFields
  <2>9. f = [d EXCEPT !.onSince = [d.onSince EXCEPT ![k] = t]]
    BY <1>1, <1>4, <2>3 DEF CommandRelay
  <2>10. /\ f \in Ctls /\ f.relays = d.relays /\ f.capped = d.capped
         /\ \A ch \in Ch : f.onSince[ch] = IF ch = k THEN t ELSE d.onSince[ch]
    BY <2>8, <2>9 DEF IsSetRelays, Ctls
  <2>11. ASSUME NEW ch \in Ch
         PROVE  e.onSince[ch] = f.onSince[ch]
    <3>1. CASE ch = k
      BY <2>1, <2>2, <2>6, <2>10, <3>1 DEF IsSetRelay
    <3>2. CASE ch # k /\ ch \in gone
      BY <2>1, <2>2, <2>8, <2>10, <3>2 DEF IsSetRelay, IsSetRelays
    <3>3. CASE ch # k /\ ch \notin gone
      <4>1. e.onSince[ch] = c.onSince[ch] /\ f.onSince[ch] = d.onSince[ch]
        BY <2>2, <2>10, <3>3 DEF IsSetRelay
      <4>2. ch \in c.relays => Rivals(g, c, {k}, ch) = {}
        BY <2>1, <2>4, <2>5, <3>3
      <4>3. d.onSince[ch] = c.onSince[ch]
        BY <2>8, <3>3, <4>2 DEF IsSetRelays, Untimed
      <4>4. QED
        BY <4>1, <4>3
    <3>4. QED
      BY <3>1, <3>2, <3>3
  <2>12. /\ e \in Ctls /\ e.relays = f.relays /\ e.capped = f.capped
    BY <2>2, <2>8, <2>10 DEF IsSetRelay, IsSetRelays
  <2>13. QED
    BY <1>1, <2>10, <2>11, <2>12, SameCtl
<1>5. QED
  BY <1>2, <1>3, <1>4

-----------------------------------------------------------------------------
(***************************************************************************)
(* One more channel of boot.                                               *)
(***************************************************************************)

\* Every channel that may go on has, up to itself, a relay of its set on.
Covered(g, on, chs) == \A ch \in chs : \E l \in on : l <= ch /\ (l = ch \/ Interlocked(g, l, ch))

\* From nothing on, the lowest of each set come on and stay.
LEMMA LowestStay ==
  ASSUME NEW g, NEW c \in Ctls, c.relays = {}, NEW chs \in SUBSET Ch, chs \cap c.capped = {},
         NEW low, low = LowestOfSets(g, chs)
  PROVE  RelaysAfter(g, c, low, {}) = low
<1>1. ASSUME NEW ch \in low
      PROVE  Rivals(g, c, low, ch) = {}
  <2>1. ASSUME NEW o \in low, Interlocked(g, ch, o)
        PROVE  FALSE
    <3>1. Interlocked(g, o, ch)
      BY <2>1 DEF Interlocked
    <3>2. ch < o /\ o < ch /\ ch \in Int /\ o \in Int
      BY <1>1, <2>1, <3>1, RelaysAssumption DEF LowestOfSets, Ch
    <3>3. QED
      BY <3>2
  <2>2. QED
    BY <2>1 DEF Rivals
<1>2. low \subseteq chs
  BY DEF LowestOfSets
<1>3. QED
  BY <1>1, <1>2 DEF RelaysAfter

\* The next relay joins the lowest unless one of them shares a set with it.
LEMMA LowestGrow ==
  ASSUME NEW g, NEW k \in Ch, NEW chs \in SUBSET (1..k - 1),
         NEW low, low = LowestOfSets(g, chs), Covered(g, low, chs)
  PROVE  LowestOfSets(g, chs \cup {k}) =
           IF \E o \in low : Interlocked(g, o, k) THEN low ELSE low \cup {k}
<1>1. k \in Int /\ \A o \in chs : o \in Int /\ o < k
  BY RelaysAssumption DEF Ch
<1>2. ASSUME NEW ch \in chs
      PROVE  ch \in LowestOfSets(g, chs \cup {k}) <=> ch \in low
  BY <1>1 DEF LowestOfSets
<1>3. k \in LowestOfSets(g, chs \cup {k}) <=> ~\E o \in low : Interlocked(g, o, k)
  <2>1. low \subseteq chs
    BY DEF LowestOfSets
  <2>2. ASSUME NEW o \in chs, Interlocked(g, k, o)
        PROVE  \E l \in low : Interlocked(g, l, k)
    <3>1. PICK l \in low : l = o \/ Interlocked(g, l, o)
      BY DEF Covered
    <3>2. l # k
      BY <1>1, <2>1
    <3>3. Interlocked(g, l, k)
      BY <2>2, <3>1, <3>2 DEF Interlocked
    <3>4. QED
      BY <3>3
  <2>3. ASSUME NEW o \in low, Interlocked(g, o, k)
        PROVE  Interlocked(g, k, o) /\ ~(k < o)
    BY <1>1, <2>1, <2>3 DEF Interlocked
  <2>4. ~Interlocked(g, k, k)
    BY DEF Interlocked
  <2>5. QED
    BY <2>1, <2>2, <2>3, <2>4 DEF LowestOfSets
<1>4. k \notin chs
  BY <1>1
<1>5. LowestOfSets(g, chs \cup {k}) \subseteq chs \cup {k} /\ low \subseteq chs
  BY DEF LowestOfSets
<1>6. PICK new : new = LowestOfSets(g, chs \cup {k})
  OBVIOUS
<1>7. CASE \E o \in low : Interlocked(g, o, k)
  <2>1. new = low
    BY <1>2, <1>3, <1>4, <1>5, <1>6, <1>7
  <2>2. QED
    BY <1>6, <1>7, <2>1
<1>8. CASE ~\E o \in low : Interlocked(g, o, k)
  <2>1. new = low \cup {k}
    BY <1>2, <1>3, <1>4, <1>5, <1>6, <1>8
  <2>2. QED
    BY <1>6, <1>8, <2>1
<1>9. QED
  BY <1>7, <1>8

\* Whoever does not join has a rival that did.
LEMMA CoveredGrow ==
  ASSUME NEW g, NEW k \in Ch, NEW chs \in SUBSET (1..k - 1),
         Covered(g, LowestOfSets(g, chs), chs)
  PROVE  Covered(g, LowestOfSets(g, chs \cup {k}), chs \cup {k})
<1>low. PICK low : low = LowestOfSets(g, chs)
  OBVIOUS
<1>new. PICK new : new = LowestOfSets(g, chs \cup {k})
  OBVIOUS
<1>1. k \in Int /\ \A o \in chs : o \in Int /\ o < k
  BY RelaysAssumption DEF Ch
<1>2. new = IF \E o \in low : Interlocked(g, o, k) THEN low ELSE low \cup {k}
  BY <1>low, <1>new, LowestGrow
<1>3. low \subseteq new /\ low \subseteq chs
  BY <1>2, <1>low DEF LowestOfSets
<1>4. \E l \in new : l <= k /\ (l = k \/ Interlocked(g, l, k))
  <2>1. CASE \E o \in low : Interlocked(g, o, k)
    <3>1. PICK o \in low : Interlocked(g, o, k)
      BY <2>1
    <3>2. o \in new /\ o < k /\ o \in Int
      BY <1>1, <1>3
    <3>3. QED
      BY <1>1, <3>1, <3>2
  <2>2. CASE ~\E o \in low : Interlocked(g, o, k)
    BY <1>1, <1>2, <2>2
  <2>3. QED
    BY <2>1, <2>2
<1>5. Covered(g, new, chs \cup {k})
  BY <1>3, <1>4, <1>low DEF Covered
<1>6. QED
  BY <1>5, <1>new

-----------------------------------------------------------------------------
(***************************************************************************)
(* The inductive invariant: what a loop has done so far is the outcome of  *)
(* the channels that had their turn.                                       *)
(***************************************************************************)
Done == 1..next - 1

Ons == Asked("on") \cap Done
Offs == Asked("off") \cap Done

OneAsked ==
  \E ch \in Ch : job.asks[ch] # "keep" /\ \A o \in Ch : job.asks[o] # "keep" => o = ch

SoFar ==
  /\ before \in Ctls
  /\ Untimed(before)
  /\ ctl = OutcomeUpTo(next - 1)
  /\ job.kind = "command" => OneAsked
  /\ job.kind = "boot" =>
       /\ before.relays = {}
       /\ \A ch \in Ch : job.asks[ch] # "off"
       /\ Covered(cfg, LowestOfSets(cfg, Ons \ before.capped), Ons \ before.capped)

LoopInv ==
  /\ ctl \in Ctls
  /\ Untimed(ctl)
  /\ next \in 1..N + 1
  /\ rounds \in Nat
  /\ job \in [kind : Kinds, asks : Asks]
  /\ rounds = 0 => next = N + 1
  /\ rounds > 0 => SoFar

\* No loop is under way at first.
LEMMA LoopStart == Init => LoopInv
  BY RelaysAssumption DEF Init, LoopInv, Ctls, Untimed, Kinds, Asks, Ch

\* A message begins its loop with nothing done.
LEMMA BeginStep ==
  ASSUME LoopInv, NEW kind \in Kinds, NEW asks \in Asks, Begin(kind, asks)
  PROVE  LoopInv'
<1>1. /\ job' = [kind |-> kind, asks |-> asks]
      /\ before' = ctl /\ ctl' = ctl /\ next' = 1 /\ rounds' = rounds + 1 /\ cfg' = cfg
      /\ rounds \in Nat
  BY DEF Begin, LoopInv
<1>2. Ons' = {} /\ Offs' = {} /\ 1..next' - 1 = {}
  BY <1>1 DEF Ons, Offs, Done
<1>3. ctl \in Ctls /\ Untimed(ctl)
  BY DEF LoopInv
<1>4. SetRelays(cfg, ctl, rounds', {}, {}) = ctl
  BY <1>1, <1>3, NoneAsked
<1>5. LowestOfSets(cfg, {} \ ctl.capped) = {}
  BY DEF LowestOfSets
<1>6. kind = "command" => OneAsked'
  <2>1. ASSUME kind = "command"
        PROVE  OneAsked'
    <3>1. {ch \in Ch : asks[ch] # "keep"} \subseteq Ch /\ IsFiniteSet(Ch)
      BY FS_Interval, RelaysAssumption DEF Ch
    <3>2. PICK ch : {o \in Ch : asks[o] # "keep"} = {ch}
      BY <2>1, <3>1, FS_Subset, FS_Singleton DEF Begin
    <3>3. QED
      BY <1>1, <3>2 DEF OneAsked
  <2>2. QED
    BY <2>1
<1>7. OutcomeUpTo(next - 1)' = ctl
  <2>1. (Asked("on") \cap 1..next - 1)' = {} /\ (Asked("off") \cap 1..next - 1)' = {}
    BY <1>2 DEF Ons, Offs, Done
  <2>2. QED
    BY <1>1, <1>4, <1>5, <2>1 DEF OutcomeUpTo, Kinds
<1>8. kind = "boot" => ctl.relays = {} /\ \A ch \in Ch : asks[ch] # "off"
  BY DEF Begin
<1>9. Covered(cfg, LowestOfSets(cfg, Ons' \ ctl.capped), Ons' \ ctl.capped)
  BY <1>2 DEF Covered
<1>10. SoFar'
  BY <1>1, <1>3, <1>6, <1>7, <1>8, <1>9 DEF SoFar, Untimed
<1>11. QED
  BY <1>1, <1>3, <1>10, RelaysAssumption DEF LoopInv, Untimed

\* The turn of a channel k of a running loop, told without primes.
Turned(k, c) ==
  LET on == job.asks[k] = "on"
      called == job.asks[k] # "keep" /\ ~Taken(k)
  IN c = IF called THEN SetRelay(cfg, ctl, rounds, k, on, job.kind = "command") ELSE ctl

OnsWith(k) == IF job.asks[k] = "on" THEN Ons \cup {k} ELSE Ons
OffsWith(k) == IF job.asks[k] = "off" THEN Offs \cup {k} ELSE Offs

\* The channels that had their turn are below the next.
LEMMA DoneTypes ==
  ASSUME LoopInv, NEW k \in Ch, k = next
  PROVE  /\ Ons \in SUBSET (1..k - 1) /\ Offs \in SUBSET (1..k - 1)
         /\ Ons \in SUBSET Ch /\ Offs \in SUBSET Ch
         /\ k \notin Ons /\ k \notin Offs
         /\ job.asks[k] \in {"on", "off", "keep"}
         /\ rounds \in Nat
  BY RelaysAssumption DEF LoopInv, Ons, Offs, Done, Asked, Ch, Asks

\* One more turn of a loop is the step for one more channel.
LEMMA LoopTurn ==
  ASSUME LoopInv, SoFar, job.kind = "loop", NEW k \in Ch, k = next, NEW c, Turned(k, c)
  PROVE  c = SetRelays(cfg, before, rounds, OnsWith(k), OffsWith(k))
<1>1. ctl = SetRelays(cfg, before, rounds, Ons, Offs)
  BY DEF SoFar, OutcomeUpTo, Ons, Offs, Done
<1>2. /\ before \in Ctls /\ rounds \in Nat
      /\ Ons \in SUBSET (1..k - 1) /\ Offs \in SUBSET (1..k - 1)
      /\ Ons \in SUBSET Ch /\ Offs \in SUBSET Ch
      /\ k \notin Ons
      /\ job.asks[k] \in {"on", "off", "keep"}
  BY DoneTypes DEF SoFar
<1>3. ~Taken(k)
  BY DEF Taken
<1>4. CASE job.asks[k] = "on"
  <2>1. c = SetRelay(cfg, ctl, rounds, k, TRUE, FALSE)
    BY <1>3, <1>4 DEF Turned
  <2>2. c = SetRelays(cfg, before, rounds, Ons \cup {k}, Offs)
    <3>1. OnExtends(cfg, before, rounds, k, Ons, Offs)
      BY <1>2, OneMoreOn
    <3>2. QED
      BY <1>1, <2>1, <3>1 DEF OnExtends
  <2>3. QED
    BY <1>4, <2>2 DEF OnsWith, OffsWith
<1>5. CASE job.asks[k] = "off"
  <2>1. c = SetRelay(cfg, ctl, rounds, k, FALSE, FALSE)
    BY <1>3, <1>5 DEF Turned
  <2>2. c = SetRelays(cfg, before, rounds, Ons, Offs \cup {k})
    <3>1. OffExtends(cfg, before, rounds, k, Ons, Offs)
      BY <1>2, OneMoreOff
    <3>2. QED
      BY <1>1, <2>1, <3>1 DEF OffExtends
  <2>3. QED
    BY <1>5, <2>2 DEF OnsWith, OffsWith
<1>6. CASE job.asks[k] = "keep"
  BY <1>1, <1>6 DEF Turned, OnsWith, OffsWith
<1>7. QED
  BY <1>2, <1>4, <1>5, <1>6

\* A command has at most one channel that counts.
LEMMA CommandTurn ==
  ASSUME LoopInv, SoFar, job.kind = "command", NEW k \in Ch, k = next, NEW c, Turned(k, c)
  PROVE  c = IF OnsWith(k) \cup OffsWith(k) = {} THEN before
             ELSE LET ch == CHOOSE ch \in OnsWith(k) \cup OffsWith(k) : TRUE
                  IN CommandRelay(cfg, before, rounds, ch, ch \in OnsWith(k))
<1>1. /\ before \in Ctls /\ Untimed(before) /\ rounds \in Nat
      /\ Ons \in SUBSET Ch /\ Offs \in SUBSET Ch /\ k \notin Ons
      /\ job.asks[k] \in {"on", "off", "keep"}
  BY DoneTypes DEF SoFar
<1>2. CASE job.asks[k] = "keep"
  BY <1>2 DEF Turned, OnsWith, OffsWith, SoFar, OutcomeUpTo, Ons, Offs, Done
<1>3. CASE job.asks[k] # "keep"
  <2>1. \A o \in Ch : job.asks[o] # "keep" => o = k
    BY <1>3 DEF SoFar, OneAsked
  <2>2. Ons = {} /\ Offs = {}
    BY <1>1, <2>1, DoneTypes DEF Ons, Offs, Asked
  <2>3. ctl = before
    BY <2>2 DEF SoFar, OutcomeUpTo, Ons, Offs, Done
  <2>4. OnsWith(k) \cup OffsWith(k) = {k} /\ (k \in OnsWith(k) <=> job.asks[k] = "on")
    BY <1>1, <1>3, <2>2 DEF OnsWith, OffsWith
  <2>5. PICK on \in BOOLEAN : on = (job.asks[k] = "on")
    OBVIOUS
  <2>6. c = SetRelay(cfg, before, rounds, k, on, TRUE)
    BY <1>3, <2>3, <2>5 DEF Turned, Taken
  <2>7. c = CommandRelay(cfg, before, rounds, k, on)
    BY <1>1, <2>6, OneCommand
  <2>8. on = (k \in OnsWith(k))
    BY <2>4, <2>5
  <2>9. (CHOOSE ch \in {k} : TRUE) = k
    OBVIOUS
  <2>10. QED
    BY <2>4, <2>7, <2>8, <2>9
<1>4. QED
  BY <1>2, <1>3

\* One more turn of the boot switches on what it may.
LEMMA BootTurn ==
  ASSUME LoopInv, SoFar, job.kind = "boot", NEW k \in Ch, k = next, NEW c, Turned(k, c),
         NEW new, new = LowestOfSets(cfg, OnsWith(k) \ before.capped)
  PROVE  /\ c = SetRelays(cfg, before, rounds, new, {})
         /\ Covered(cfg, new, OnsWith(k) \ before.capped)
<1>1. PICK chs : chs = Ons \ before.capped
  OBVIOUS
<1>2. PICK low : low = LowestOfSets(cfg, chs)
  OBVIOUS
<1>3. /\ before \in Ctls /\ rounds \in Nat /\ before.relays = {}
      /\ chs \in SUBSET (1..k - 1) /\ chs \in SUBSET Ch /\ chs \cap before.capped = {}
      /\ job.asks[k] \in {"on", "keep"}
  BY <1>1, DoneTypes DEF SoFar
<1>4. ctl = SetRelays(cfg, before, rounds, low, {})
  BY <1>1, <1>2 DEF SoFar, OutcomeUpTo, Ons, Done
<1>5. Covered(cfg, low, chs)
  BY <1>1, <1>2 DEF SoFar
<1>6. low \subseteq chs
  BY <1>2 DEF LowestOfSets
<1>7. ctl.relays = low /\ ctl.capped = before.capped
  <2>1. RelaysAfter(cfg, before, low, {}) = low
    BY <1>2, <1>3, LowestStay
  <2>2. low \in SUBSET Ch
    BY <1>3, <1>6
  <2>3. IsSetRelays(cfg, before, rounds, low, low, ctl)
    BY <1>3, <1>4, <2>1, <2>2, SetRelaysFields
  <2>4. QED
    BY <2>3 DEF IsSetRelays
<1>8. CASE job.asks[k] = "keep"
  BY <1>1, <1>2, <1>4, <1>5, <1>8 DEF Turned, OnsWith
<1>9. CASE job.asks[k] = "on" /\ k \in before.capped
  <2>1. OnsWith(k) \ before.capped = chs
    BY <1>1, <1>9 DEF OnsWith
  <2>2. c = ctl
    BY <1>7, <1>9 DEF Turned, SetRelay
  <2>3. QED
    BY <1>2, <1>4, <1>5, <2>1, <2>2
<1>10. CASE job.asks[k] = "on" /\ k \notin before.capped
  <2>1. OnsWith(k) \ before.capped = chs \cup {k}
    BY <1>1, <1>10 DEF OnsWith
  <2>2. Covered(cfg, new, chs \cup {k})
    <3>1. Covered(cfg, LowestOfSets(cfg, chs), chs)
      BY <1>2, <1>5
    <3>2. Covered(cfg, LowestOfSets(cfg, chs \cup {k}), chs \cup {k})
      BY <1>3, <3>1, CoveredGrow
    <3>3. QED
      BY <2>1, <3>2
  <2>3. new = IF \E o \in low : Interlocked(cfg, o, k) THEN low ELSE low \cup {k}
    <3>1. LowestOfSets(cfg, chs \cup {k}) =
            IF \E o \in low : Interlocked(cfg, o, k) THEN low ELSE low \cup {k}
      BY <1>2, <1>3, <1>5, LowestGrow
    <3>2. QED
      BY <2>1, <3>1
  <2>4. Taken(k) <=> \E o \in low : Interlocked(cfg, o, k)
    <3>1. \A o \in low : o < k
      BY <1>3, <1>6, RelaysAssumption DEF Ch
    <3>2. QED
      BY <1>7, <3>1 DEF Taken
  <2>5. CASE Taken(k)
    BY <1>4, <2>1, <2>2, <2>3, <2>4, <2>5 DEF Turned
  <2>6. CASE ~Taken(k)
    <3>1. c = SetRelay(cfg, ctl, rounds, k, TRUE, FALSE)
      BY <1>10, <2>6 DEF Turned
    <3>2. low \in SUBSET (1..k - 1)
      BY <1>3, <1>6
    <3>3. PICK none \in SUBSET (1..k - 1) : none = {}
      OBVIOUS
    <3>4. OnExtends(cfg, before, rounds, k, low, none)
      BY <1>3, <3>2, OneMoreOn
    <3>5. c = SetRelays(cfg, before, rounds, low \cup {k}, none)
      BY <1>4, <3>1, <3>3, <3>4 DEF OnExtends
    <3>6. new = low \cup {k}
      BY <2>3, <2>4, <2>6
    <3>7. QED
      BY <2>1, <2>2, <3>3, <3>5, <3>6
  <2>7. QED
    BY <2>5, <2>6
<1>11. QED
  BY <1>3, <1>8, <1>9, <1>10

\* Every turn keeps that the loop has come to the step.
LEMMA TurnStep ==
  ASSUME LoopInv, Turn
  PROVE  LoopInv'
<1>1. PICK k \in Ch : k = next
  BY RelaysAssumption DEF LoopInv, Turn, Ch
<1>2. /\ next' = k + 1 /\ k + 1 \in 1..N + 1
      /\ UNCHANGED <<cfg, job, before, rounds>>
      /\ Turned(k, ctl')
  BY <1>1, RelaysAssumption DEF Turn, Turned, Ch
<1>3. /\ rounds \in Nat /\ rounds > 0 /\ SoFar
      /\ ctl \in Ctls /\ Untimed(ctl)
      /\ job.kind \in Kinds /\ job.asks[k] \in {"on", "off", "keep"}
  BY <1>1, DoneTypes, RelaysAssumption DEF LoopInv, Turn, Ch
<1>4. Ons' = OnsWith(k) /\ Offs' = OffsWith(k)
  <2>1. 1..next' - 1 = (1..next - 1) \cup {k}
    BY <1>1, <1>2, RelaysAssumption DEF Ch
  <2>2. \A how \in {"on", "off"} :
          (Asked(how) \cap Done)' = IF job.asks[k] = how THEN (Asked(how) \cap Done) \cup {k}
                                    ELSE Asked(how) \cap Done
    BY <1>2, <2>1 DEF Asked, Done
  <2>3. QED
    BY <2>2 DEF Ons, Offs, OnsWith, OffsWith
<1>5. ctl' = OutcomeUpTo(next - 1)'
  <2>1. CASE job.kind = "loop"
    <3>1. ctl' = SetRelays(cfg, before, rounds, OnsWith(k), OffsWith(k))
      BY <1>1, <1>2, <1>3, <2>1, LoopTurn
    <3>2. QED
      BY <1>2, <1>4, <2>1, <3>1 DEF OutcomeUpTo, Ons, Offs, Done
  <2>2. CASE job.kind = "command"
    <3>1. ctl' = IF OnsWith(k) \cup OffsWith(k) = {} THEN before
                 ELSE LET ch == CHOOSE ch \in OnsWith(k) \cup OffsWith(k) : TRUE
                      IN CommandRelay(cfg, before, rounds, ch, ch \in OnsWith(k))
      BY <1>1, <1>2, <1>3, <2>2, CommandTurn
    <3>2. QED
      BY <1>2, <1>4, <2>2, <3>1 DEF OutcomeUpTo, Ons, Offs, Done
  <2>3. CASE job.kind = "boot"
    <3>1. ctl' = SetRelays(cfg, before, rounds, LowestOfSets(cfg, OnsWith(k) \ before.capped), {})
      BY <1>1, <1>2, <1>3, <2>3, BootTurn
    <3>2. QED
      BY <1>2, <1>4, <2>3, <3>1 DEF OutcomeUpTo, Ons, Done
  <2>4. QED
    BY <1>3, <2>1, <2>2, <2>3 DEF Kinds
<1>6. job.kind = "boot" =>
        Covered(cfg, LowestOfSets(cfg, OnsWith(k) \ before.capped), OnsWith(k) \ before.capped)
  BY <1>1, <1>2, <1>3, BootTurn
<1>7. ctl' \in Ctls /\ Untimed(ctl')
  <2>1. CASE ctl' = ctl
    BY <1>3, <2>1
  <2>2. CASE ctl' # ctl
    <3>1. PICK on \in BOOLEAN : on = (job.asks[k] = "on")
      OBVIOUS
    <3>2. PICK restart \in BOOLEAN : restart = (job.kind = "command")
      OBVIOUS
    <3>3. ctl' = SetRelay(cfg, ctl, rounds, k, on, restart)
      BY <1>2, <2>2, <3>1, <3>2 DEF Turned
    <3>4. ~(on /\ k \in ctl.capped)
      BY <2>2, <3>3 DEF SetRelay
    <3>5. PICK gone : gone = GivingWay(cfg, ctl, k, on)
      OBVIOUS
    <3>6. IsSetRelay(ctl, rounds, k, on, restart, gone, ctl')
      BY <1>3, <3>3, <3>4, <3>5, SetRelayFields
    <3>7. ~on => gone = {}
      BY <3>5 DEF GivingWay
    <3>8. QED
      BY <1>3, <3>6, <3>7 DEF IsSetRelay, Untimed
  <2>3. QED
    BY <2>1, <2>2
<1>8. SoFar'
  BY <1>2, <1>3, <1>4, <1>5, <1>6 DEF SoFar, OneAsked, Untimed
<1>9. QED
  BY <1>2, <1>3, <1>7, <1>8 DEF LoopInv, Untimed

\* An action applied to a pin changes no loop.
LEMMA ApplyStep ==
  ASSUME LoopInv, Apply \/ UNCHANGED vars
  PROVE  LoopInv'
<1>1. UNCHANGED <<cfg, ctl, job, before, next, rounds>>
  BY DEF Apply, vars
<1>2. OutcomeUpTo(next - 1)' = OutcomeUpTo(next - 1)
  BY <1>1 DEF OutcomeUpTo, Asked
<1>3. SoFar => SoFar'
  BY <1>1, <1>2 DEF SoFar, Untimed, OneAsked, Ons, Done, Asked
<1>4. QED
  BY <1>1, <1>3 DEF LoopInv, Untimed

\* At every moment of a loop its channels so far come to one step on sets.
THEOREM LoopInvariant == Spec => []LoopInv
<1>1. LoopInv /\ [Next]_vars => LoopInv'
  BY BeginStep, TurnStep, ApplyStep DEF Next
<1>2. QED
  BY <1>1, LoopStart, PTL DEF Spec

\* A loop of set_relay calls, a command and the loop of boot come to the step
\* SetRelays, CommandRelay and LowestOfSets that module Arbiter takes for them.
THEOREM LoopOutcome == Spec => []LoopIsOneStep
<1>1. LoopInv => LoopIsOneStep
  <2>1. ASSUME LoopInv, next = N + 1, rounds > 0
        PROVE  ctl = OutcomeUpTo(N)
    <3>1. next - 1 = N
      BY <2>1, RelaysAssumption
    <3>2. QED
      BY <2>1, <3>1 DEF LoopInv, SoFar
  <2>2. QED
    BY <2>1 DEF LoopIsOneStep
<1>2. QED
  BY <1>1, LoopInvariant, PTL

-----------------------------------------------------------------------------
(***************************************************************************)
(* Pins.  The actions not yet applied lead from the pins to the relays the *)
(* controller believes in, over states that are all safe.  As never two    *)
(* relays of a set are on, at most one gives way, and its action is before *)
(* that of the relay that goes on.                                         *)
(***************************************************************************)
SwitchActions == [ch : Ch, on : BOOLEAN]

Safe(s) == s \in SUBSET Ch /\ \A ch, o \in s : ~Interlocked(cfg, ch, o)

Act(s, a) == IF a.on THEN s \cup {a.ch} ELSE s \ {a.ch}

\* f is the way from p to s that the actions q take.
Way(f, p, q, s) ==
  /\ f[0] = p
  /\ f[Len(q)] = s
  /\ \A i \in 1..Len(q) : f[i] = Act(f[i - 1], q[i])
  /\ \A i \in 0..Len(q) : Safe(f[i])

SafeWay(p, q, s) == \E f : Way(f, p, q, s)

PinsInv ==
  /\ out \in Seq(SwitchActions)
  /\ SafeWay(pins, out, ctl.relays)

\* Without actions left the pins are as believed.
LEMMA WayEmpty ==
  ASSUME NEW p, NEW s
  PROVE  SafeWay(p, <<>>, s) <=> p = s /\ Safe(s)
<1>1. ASSUME p = s, Safe(s)
      PROVE  Way([i \in {0} |-> s], p, <<>>, s)
  BY <1>1 DEF Way
<1>2. ASSUME NEW f, Way(f, p, <<>>, s)
      PROVE  p = s /\ Safe(s)
  BY <1>2 DEF Way
<1>3. QED
  BY <1>1, <1>2 DEF SafeWay

\* One more action that is safe to take keeps the way safe.
LEMMA WayFurther ==
  ASSUME NEW p, NEW q \in Seq(SwitchActions), NEW s, SafeWay(p, q, s),
         NEW a \in SwitchActions, Safe(Act(s, a))
  PROVE  Append(q, a) \in Seq(SwitchActions) /\ SafeWay(p, Append(q, a), Act(s, a))
<1>1. PICK f : Way(f, p, q, s)
  BY DEF SafeWay
<1>2. PICK n \in Nat : n = Len(q)
  BY LenProperties
<1>3. /\ Append(q, a) \in Seq(SwitchActions) /\ Len(Append(q, a)) = n + 1
      /\ \A i \in 1..n : Append(q, a)[i] = q[i]
      /\ Append(q, a)[n + 1] = a
  BY <1>2, AppendProperties
<1>4. PICK h : h = [i \in 0..n + 1 |-> IF i = n + 1 THEN Act(s, a) ELSE f[i]]
  OBVIOUS
<1>5. h[n + 1] = Act(s, a) /\ \A i \in 0..n : h[i] = f[i]
  BY <1>4
<1>6. /\ f[0] = p /\ f[n] = s
      /\ \A i \in 1..n : f[i] = Act(f[i - 1], q[i])
      /\ \A i \in 0..n : Safe(f[i])
  BY <1>1, <1>2 DEF Way
<1>7. ASSUME NEW i \in 1..n + 1
      PROVE  h[i] = Act(h[i - 1], Append(q, a)[i])
  <2>1. CASE i = n + 1
    <3>1. i - 1 = n /\ n \in 0..n
      BY <2>1
    <3>2. QED
      BY <1>3, <1>5, <1>6, <2>1, <3>1
  <2>2. CASE i # n + 1
    <3>1. i \in 1..n /\ i - 1 \in 0..n /\ i \in 0..n
      BY <2>2
    <3>2. QED
      BY <1>3, <1>5, <1>6, <3>1
  <2>3. QED
    BY <2>1, <2>2
<1>8. ASSUME NEW i \in 0..n + 1
      PROVE  Safe(h[i])
  <2>1. CASE i = n + 1
    <3>1. h[i] = Act(s, a)
      BY <1>5, <2>1, Zenon
    <3>2. QED
      BY <3>1, Zenon
  <2>2. CASE i # n + 1
    <3>1. i \in 0..n
      BY <2>2
    <3>2. h[i] = f[i] /\ Safe(f[i])
      BY <1>5, <1>6, <3>1, Zenon
    <3>3. QED
      BY <3>2, Zenon
  <2>3. QED
    BY <2>1, <2>2
<1>9. Way(h, p, Append(q, a), Act(s, a))
  BY <1>3, <1>5, <1>6, <1>7, <1>8 DEF Way
<1>10. QED
  BY <1>3, <1>9 DEF SafeWay

\* The first action of a safe way leaves a safe way.
LEMMA WayStarted ==
  ASSUME NEW p, NEW q \in Seq(SwitchActions), q # <<>>, NEW s, SafeWay(p, q, s)
  PROVE  SafeWay(Act(p, Head(q)), Tail(q), s)
<1>1. PICK f : Way(f, p, q, s)
  BY DEF SafeWay
<1>2. PICK n \in Nat : n + 1 = Len(q)
  <2>1. Len(q) \in Nat /\ Len(q) # 0
    BY LenProperties, EmptySeq
  <2>2. Len(q) - 1 \in Nat /\ (Len(q) - 1) + 1 = Len(q)
    BY <2>1
  <2>3. QED
    BY <2>2
<1>3. /\ Len(Tail(q)) = n /\ Head(q) = q[1]
      /\ \A i \in 1..n : Tail(q)[i] = q[i + 1]
  BY <1>2, HeadTailProperties
<1>4. PICK h : h = [i \in 0..n |-> f[i + 1]]
  OBVIOUS
<1>5. /\ f[0] = p /\ f[n + 1] = s
      /\ \A i \in 1..n + 1 : f[i] = Act(f[i - 1], q[i])
      /\ \A i \in 0..n + 1 : Safe(f[i])
  BY <1>1, <1>2 DEF Way
<1>6. h[0] = Act(p, Head(q))
  <2>1. f[1] = Act(f[1 - 1], q[1])
    BY <1>5
  <2>2. QED
    BY <1>3, <1>4, <1>5, <2>1
<1>7. ASSUME NEW i \in 1..n
      PROVE  h[i] = Act(h[i - 1], Tail(q)[i])
  <2>1. f[i + 1] = Act(f[(i + 1) - 1], q[i + 1])
    BY <1>5
  <2>2. h[i] = f[i + 1] /\ h[i - 1] = f[i] /\ (i + 1) - 1 = i
    BY <1>4
  <2>3. QED
    BY <1>3, <2>1, <2>2
<1>8. h[n] = s /\ \A i \in 0..n : Safe(h[i])
  BY <1>4, <1>5
<1>9. Way(h, Act(p, Head(q)), Tail(q), s)
  BY <1>3, <1>6, <1>7, <1>8 DEF Way
<1>10. QED
  BY <1>9 DEF SafeWay

\* A safe way is safe at both ends.
LEMMA WayEnds ==
  ASSUME NEW p, NEW q \in Seq(SwitchActions), NEW s, SafeWay(p, q, s)
  PROVE  Safe(p) /\ Safe(s)
<1>1. PICK f : Way(f, p, q, s)
  BY DEF SafeWay
<1>2. Len(q) \in 0..Len(q) /\ 0 \in 0..Len(q)
  BY LenProperties
<1>3. QED
  BY <1>1, <1>2 DEF Way

\* At most one relay gives way.
LEMMA OneGivesWay ==
  ASSUME Safe(ctl.relays), NEW k \in Ch, NEW on \in BOOLEAN
  PROVE  \/ GivingWay(cfg, ctl, k, on) = {}
         \/ \E o \in ctl.relays : GivingWay(cfg, ctl, k, on) = {o} /\ on /\ Interlocked(cfg, k, o)
<1>1. ASSUME NEW o \in GivingWay(cfg, ctl, k, on), NEW x \in GivingWay(cfg, ctl, k, on)
      PROVE  o = x
  <2>1. o \in ctl.relays /\ x \in ctl.relays /\ Interlocked(cfg, k, o) /\ Interlocked(cfg, k, x)
    BY DEF GivingWay
  <2>2. o # x => Interlocked(cfg, o, x)
    BY <2>1 DEF Interlocked
  <2>3. QED
    BY <2>1, <2>2 DEF Safe
<1>2. QED
  BY <1>1 DEF GivingWay

\* No relay, or one, in ascending order.
LEMMA AscendingShort ==
  /\ Ascending({}) = <<>>
  /\ \A o \in Ch : Ascending({o}) = <<o>>
<1>1. Ascending({}) = <<>>
  BY FS_EmptySet DEF Ascending
<1>2. ASSUME NEW o \in Ch
      PROVE  Ascending({o}) = <<o>>
  <2>1. Cardinality({o}) = 1
    BY FS_Singleton
  <2>2. {x \in {o} : x < o} = {}
    BY RelaysAssumption DEF Ch
  <2>3. ASSUME NEW i \in 1..1
        PROVE  (CHOOSE ch \in {o} : Cardinality({x \in {o} : x < ch}) = i - 1) = o
    BY <2>2, FS_EmptySet
  <2> DEFINE e(i) == CHOOSE ch \in {o} : Cardinality({x \in {o} : x < ch}) = i - 1
  <2>4. Ascending({o}) = [i \in 1..1 |-> e(i)]
    BY <2>1 DEF Ascending
  <2>5. \A i \in 1..1 : e(i) = o
    BY <2>3
  <2> HIDE DEF e
  <2>6. QED
    BY <2>4, <2>5
<1>3. QED
  BY <1>1, <1>2

\* The actions of a call, when it is not refused.
LEMMA ActionsOfCall ==
  ASSUME NEW k \in Ch, NEW on \in BOOLEAN, ~(on /\ k \in ctl.capped)
  PROVE  LET own == IF (k \in ctl.relays) = on THEN <<>> ELSE <<Action(k, on)>>
             gone == GivingWay(cfg, ctl, k, on)
         IN /\ gone = {} => Actions(cfg, ctl, k, on) = own
            /\ \A o \in Ch : gone = {o} => Actions(cfg, ctl, k, on) = <<Action(o, FALSE)>> \o own
<1> DEFINE own == IF (k \in ctl.relays) = on THEN <<>> ELSE <<Action(k, on)>>
           gone == GivingWay(cfg, ctl, k, on)
<1>1. own \in Seq(SwitchActions)
  <2>1. PICK a \in SwitchActions : a = Action(k, on)
    BY DEF Action, SwitchActions
  <2>2. <<>> \in Seq(SwitchActions) /\ <<a>> \in Seq(SwitchActions)
    BY EmptySeq
  <2>3. QED
    BY <2>1, <2>2
<1>2. PICK chs : chs = Ascending(gone)
  OBVIOUS
<1>3. Actions(cfg, ctl, k, on) = [i \in DOMAIN chs |-> Action(chs[i], FALSE)] \o own
  BY <1>2 DEF Actions
<1> HIDE DEF own, gone
<1>4. ASSUME gone = {}
      PROVE  Actions(cfg, ctl, k, on) = own
  <2>1. chs = <<>>
    BY <1>2, <1>4, AscendingShort
  <2>2. [i \in DOMAIN chs |-> Action(chs[i], FALSE)] = <<>>
    BY <2>1
  <2>3. QED
    BY <1>1, <1>3, <2>2, ConcatEmptySeq
<1>5. ASSUME NEW o \in Ch, gone = {o}
      PROVE  Actions(cfg, ctl, k, on) = <<Action(o, FALSE)>> \o own
  <2>1. chs = <<o>>
    BY <1>2, <1>5, AscendingShort
  <2>2. DOMAIN chs = 1..1 /\ chs[1] = o
    BY <2>1
  <2> DEFINE e(i) == Action(chs[i], FALSE)
  <2>3. [i \in DOMAIN chs |-> e(i)] = <<Action(o, FALSE)>>
    <3>1. PICK a : a = Action(o, FALSE)
      OBVIOUS
    <3>2. ASSUME NEW i \in 1..1
          PROVE  e(i) = a
      <4>1. i = 1
        OBVIOUS
      <4>2. QED
        BY <2>2, <3>1, <4>1
    <3> HIDE DEF e
    <3>3. [i \in 1..1 |-> e(i)] = <<a>>
      BY <3>2
    <3>4. QED
      BY <2>2, <3>1, <3>3
  <2>4. QED
    BY <1>3, <2>3
<1>6. QED
  BY <1>4, <1>5 DEF own, gone

\* One more action queued after those that are left.
LEMMA OutFurther ==
  ASSUME NEW q \in Seq(SwitchActions), SafeWay(pins, q, ctl.relays),
         NEW a \in SwitchActions, Safe(Act(ctl.relays, a))
  PROVE  q \o <<a>> \in Seq(SwitchActions) /\ SafeWay(pins, q \o <<a>>, Act(ctl.relays, a))
<1>1. q \o <<a>> = Append(q, a)
  BY AppendIsConcat
<1>2. QED
  BY <1>1, WayFurther

\* The actions of one call of set_relay, the rival off first, keep the way safe.
LEMMA PinsTurn ==
  ASSUME LoopInv, PinsInv, NEW k \in Ch, NEW on \in BOOLEAN, NEW restart \in BOOLEAN,
         NEW c, c = SetRelay(cfg, ctl, rounds, k, on, restart),
         NEW q, q = out \o Actions(cfg, ctl, k, on)
  PROVE  q \in Seq(SwitchActions) /\ SafeWay(pins, q, c.relays)
<1>1. /\ ctl \in Ctls /\ rounds \in Nat
      /\ out \in Seq(SwitchActions) /\ SafeWay(pins, out, ctl.relays)
      /\ Safe(ctl.relays)
  BY WayEnds DEF LoopInv, PinsInv
<1>2. CASE on /\ k \in ctl.capped
  <2>1. c = ctl /\ Actions(cfg, ctl, k, on) = <<>>
    BY <1>2 DEF SetRelay, Actions
  <2>2. QED
    BY <1>1, <2>1, ConcatEmptySeq
<1>3. CASE ~(on /\ k \in ctl.capped)
  <2>1. PICK gone : gone = GivingWay(cfg, ctl, k, on)
    OBVIOUS
  <2>2. PICK own : own = IF (k \in ctl.relays) = on THEN <<>> ELSE <<Action(k, on)>>
    OBVIOUS
  <2>3. c.relays = IF on THEN (ctl.relays \ gone) \cup {k} ELSE ctl.relays \ {k}
    <3>1. IsSetRelay(ctl, rounds, k, on, restart, gone, c)
      BY <1>1, <1>3, <2>1, SetRelayFields
    <3>2. QED
      BY <3>1 DEF IsSetRelay
  <2>4. Action(k, on) \in SwitchActions /\ Action(k, on).ch = k /\ Action(k, on).on = on
    BY DEF Action, SwitchActions
  <2>5. Safe(c.relays)
    <3>1. \A o \in ctl.relays : on /\ Interlocked(cfg, k, o) => o \in gone
      BY <2>1 DEF GivingWay
    <3>2. \A o \in ctl.relays : Interlocked(cfg, o, k) => Interlocked(cfg, k, o)
      BY DEF Interlocked
    <3>3. ~Interlocked(cfg, k, k)
      BY DEF Interlocked
    <3>4. QED
      BY <1>1, <2>3, <3>1, <3>2, <3>3 DEF Safe
  <2>6. CASE gone = {}
    <3>1. q = out \o own
      BY <1>3, <2>1, <2>2, <2>6, ActionsOfCall
    <3>2. c.relays = Act(ctl.relays, Action(k, on))
      BY <2>3, <2>4, <2>6 DEF Act
    <3>3. CASE (k \in ctl.relays) = on
      <4>1. c.relays = ctl.relays
        BY <2>3, <2>6, <3>3
      <4>2. q = out
        BY <1>1, <2>2, <3>1, <3>3, ConcatEmptySeq
      <4>3. QED
        BY <1>1, <4>1, <4>2
    <3>4. CASE (k \in ctl.relays) # on
      <4>1. q = out \o <<Action(k, on)>>
        BY <2>2, <3>1, <3>4
      <4>2. QED
        BY <1>1, <2>4, <2>5, <3>2, <4>1, OutFurther
    <3>5. QED
      BY <3>3, <3>4
  <2>7. ASSUME NEW o \in ctl.relays, gone = {o}, on, Interlocked(cfg, k, o)
        PROVE  q \in Seq(SwitchActions) /\ SafeWay(pins, q, c.relays)
    <3>1. k \notin ctl.relays /\ o \in Ch /\ o # k
      BY <1>1, <2>7 DEF Safe, Interlocked
    <3>2. own = <<Action(k, on)>>
      BY <2>2, <2>7, <3>1
    <3>3. Actions(cfg, ctl, k, on) = <<Action(o, FALSE)>> \o own
      BY <1>3, <2>1, <2>2, <2>7, <3>1, ActionsOfCall
    <3>4. PICK off \in SwitchActions : off = Action(o, FALSE)
      BY <3>1 DEF Action, SwitchActions
    <3>5. PICK go \in SwitchActions : go = Action(k, on)
      BY <2>4
    <3>6. Act(ctl.relays, off) = ctl.relays \ {o} /\ Safe(ctl.relays \ {o})
      BY <1>1, <3>4 DEF Action, Act, Safe
    <3>7. /\ Append(out, off) \in Seq(SwitchActions)
          /\ SafeWay(pins, Append(out, off), Act(ctl.relays, off))
      BY <1>1, <3>6, WayFurther
    <3>8. PICK q1 \in Seq(SwitchActions) : q1 = Append(out, off) /\ SafeWay(pins, q1, ctl.relays \ {o})
      BY <3>6, <3>7
    <3>9. c.relays = Act(ctl.relays \ {o}, go)
      BY <2>3, <2>4, <2>7, <3>5 DEF Act
    <3>10. Append(q1, go) \in Seq(SwitchActions) /\ SafeWay(pins, Append(q1, go), c.relays)
      BY <2>5, <3>8, <3>9, WayFurther
    <3>11. q = Append(q1, go)
      <4>1. <<off>> \in Seq(SwitchActions) /\ <<go>> \in Seq(SwitchActions)
        OBVIOUS
      <4>2. q = out \o (<<off>> \o <<go>>)
        BY <3>2, <3>3, <3>4, <3>5
      <4>3. q = (out \o <<off>>) \o <<go>>
        BY <1>1, <4>1, <4>2, ConcatAssociative
      <4>4. q1 = out \o <<off>> /\ Append(q1, go) = q1 \o <<go>>
        BY <1>1, <3>8, AppendIsConcat
      <4>5. QED
        BY <4>3, <4>4
    <3>12. QED
      BY <3>10, <3>11
  <2>8. QED
    BY <1>1, <2>1, <2>6, <2>7, OneGivesWay
<1>4. QED
  BY <1>2, <1>3

\* No pin is on at first.
LEMMA PinsStart == Init => PinsInv
<1>1. SUFFICES ASSUME Init
               PROVE  PinsInv
  OBVIOUS
<1>2. Safe(ctl.relays) /\ pins = ctl.relays /\ out = <<>>
  <2>1. ctl.relays \in SUBSET Ch
    BY <1>1, LoopStart DEF LoopInv, Ctls
  <2>2. /\ \A ch, o \in ctl.relays : ~Interlocked(cfg, ch, o)
        /\ pins = ctl.relays /\ out = <<>>
    BY <1>1 DEF Init
  <2>3. QED
    BY <2>1, <2>2 DEF Safe
<1>3. QED
  <2>1. <<>> \in Seq(SwitchActions)
    BY EmptySeq
  <2>2. SafeWay(pins, <<>>, ctl.relays)
    BY <1>2, WayEmpty
  <2>3. QED
    BY <1>2, <2>1, <2>2 DEF PinsInv

\* Every step keeps the way from the pins to the relays safe.
LEMMA PinsStep ==
  ASSUME LoopInv, PinsInv, [Next]_vars
  PROVE  PinsInv'
<1>1. ASSUME NEW p, NEW q, NEW s, SafeWay(p, q, s), UNCHANGED cfg
      PROVE  SafeWay(p, q, s)'
  BY <1>1 DEF SafeWay, Way, Safe
<1>2. CASE UNCHANGED vars \/ \E kind \in Kinds, asks \in Asks : Begin(kind, asks)
  <2>1. UNCHANGED <<cfg, ctl, out, pins>>
    BY <1>2 DEF vars, Begin
  <2>2. QED
    BY <2>1 DEF PinsInv, SafeWay, Way, Safe
<1>3. CASE Apply
  <2>1. /\ out \in Seq(SwitchActions) /\ out # <<>> /\ SafeWay(pins, out, ctl.relays)
        /\ out' = Tail(out) /\ pins' = Act(pins, Head(out))
        /\ UNCHANGED <<cfg, ctl>>
    BY <1>3 DEF Apply, PinsInv, Act
  <2>2. SafeWay(pins', out', ctl.relays) /\ out' \in Seq(SwitchActions)
    BY <2>1, WayStarted, HeadTailProperties
  <2>3. QED
    BY <2>1, <2>2 DEF PinsInv, SafeWay, Way, Safe
<1>4. CASE Turn
  <2>1. PICK k \in Ch : k = next
    BY <1>4, RelaysAssumption DEF LoopInv, Turn, Ch
  <2>2. PICK on \in BOOLEAN : on = (job.asks[k] = "on")
    OBVIOUS
  <2>3. PICK restart \in BOOLEAN : restart = (job.kind = "command")
    OBVIOUS
  <2>4. /\ UNCHANGED <<cfg, pins>>
        /\ \/ UNCHANGED <<ctl, out>>
           \/ /\ ctl' = SetRelay(cfg, ctl, rounds, k, on, restart)
              /\ out' = out \o Actions(cfg, ctl, k, on)
    BY <1>4, <2>1, <2>2, <2>3 DEF Turn
  <2>5. out' \in Seq(SwitchActions) /\ SafeWay(pins, out', ctl'.relays)
    BY <2>4, PinsTurn DEF PinsInv
  <2>6. QED
    BY <2>4, <2>5 DEF PinsInv, SafeWay, Way, Safe
<1>5. QED
  BY <1>2, <1>3, <1>4 DEF Next

\* Break before make, for any number of relays, loops and actions outstanding:
\* no two relays of a set are physically on while the actions are applied.
THEOREM BreakBeforeMake == Spec => []PinsNeverOverlap
<1>1. Init => LoopInv /\ PinsInv
  BY LoopStart, PinsStart
<1>2. LoopInv /\ PinsInv /\ [Next]_vars => (LoopInv /\ PinsInv)'
  BY BeginStep, TurnStep, ApplyStep, PinsStep DEF Next
<1>3. LoopInv /\ PinsInv => PinsNeverOverlap
  <2>1. ASSUME LoopInv, PinsInv
        PROVE  PinsNeverOverlap
    <3>1. Safe(pins)
      BY <2>1, WayEnds DEF PinsInv
    <3>2. out = <<>> => pins = ctl.relays
      BY <2>1, WayEmpty DEF PinsInv
    <3>3. QED
      BY <3>1, <3>2 DEF PinsNeverOverlap, Safe
  <2>2. QED
    BY <2>1
<1>4. QED
  BY <1>1, <1>2, <1>3, PTL DEF Spec
=============================================================================
