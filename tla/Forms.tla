------------------------------- MODULE Forms -------------------------------
(***************************************************************************)
(* The text forms of the settings: the weekly plan and the configuration   *)
(* as JSON (core/src/schedule.rs, config.rs), which the board saves, Home  *)
(* Assistant sends and older firmware left behind; and the options of the  *)
(* selects (firmware/src/entities.rs).                                     *)
(*                                                                         *)
(* A JSON object is a function on the keys it has; characters stand for    *)
(* what the parsers tell apart.  A parser returns Refused for an error.    *)
(***************************************************************************)
EXTENDS Integers, Sequences

CONSTANTS
  NumChannels, \* CHANNELS
  Refused      \* Err or None

ASSUME FormsAssumption == NumChannels \in Nat \ {0}

Channels == 1 .. NumChannels

-----------------------------------------------------------------------------
(***************************************************************************)
(* schedule.rs: the days of a block, its minutes, the blocks of a channel. *)
(***************************************************************************)

\* The letter of the weekday in either case, one of the four blanks, another one.
Characters == {"letter", "blank", "other"}

ParseDays(text) ==
  IF Len(text) # 7 \/ \E i \in DOMAIN text : text[i] = "other" THEN Refused
  ELSE {i \in 1 .. 7 : text[i] = "letter"}

ShowDays(days) == [i \in 1 .. 7 |-> IF i \in days THEN "letter" ELSE "blank"]

ValidBlock(b) == b.from < b.to /\ b.to <= 1440

\* Object keys of "channels" and the numbers they parse to; they are read in
\* alphabetical order, so of two keys for a channel the last one stands.
KeyOrder == <<"+1", "0", "01", "1", "2", "3", "x">>
NumberOf(key) == CASE key \in {"+1", "01", "1"} -> 1 [] key = "2" -> 2 [] key = "3" -> 3 [] key \in {"0", "x"} -> 0

ReadChannels(object) ==
  IF \E key \in DOMAIN object : NumberOf(key) \notin Channels THEN Refused
  ELSE [ch \in Channels |->
          LET keys == {i \in DOMAIN KeyOrder : KeyOrder[i] \in DOMAIN object /\ NumberOf(KeyOrder[i]) = ch}
          IN IF keys = {} THEN <<>>
             ELSE object[KeyOrder[CHOOSE i \in keys : \A j \in keys : j <= i]]]

PlainKeys == {"1", "2", "3"}

WriteChannels(channels) ==
  [key \in {k \in PlainKeys : NumberOf(k) \in Channels /\ channels[NumberOf(k)] # <<>>}
     |-> channels[NumberOf(key)]]

\* Mutant: a plan is read and not validated.
ReadPlanUnchecked(object) == ReadChannels(object)

\* Schedule::from_json: one bad block refuses the whole plan.
ReadPlan(object) ==
  LET channels == ReadChannels(object)
  IN IF channels # Refused /\ \A ch \in Channels : \A i \in DOMAIN channels[ch] : ValidBlock(channels[ch][i])
     THEN channels ELSE Refused

-----------------------------------------------------------------------------
(***************************************************************************)
(* config.rs: exclusive sets, which firmware before 0.17 kept as a switch  *)
(* and a flag per relay.                                                   *)
(***************************************************************************)
MaxExclusiveSets == 3

Get(object, key, default) == IF key \in DOMAIN object THEN object[key] ELSE default

JoinsSetA(c, ch) ==
  Get(c, "exclusive", FALSE) /\ Get(ch, "exclusive_set", 0) = 0 /\ Get(ch, "exclusive_member", TRUE)

ReadSet(c, ch) ==
  LET set == IF JoinsSetA(c, ch) THEN 1 ELSE Get(ch, "exclusive_set", 0)
  IN IF set > MaxExclusiveSets THEN 0 ELSE set

\* Config::from_json of an object c whose channels are objects.
ReadConfig(c) ==
  [sets |-> [i \in DOMAIN c.channels |-> ReadSet(c, c.channels[i])], buzzer |-> Get(c, "buzzer", TRUE)]

\* Config::to_json: the old keys are never written.
WriteConfig(cfg) ==
  [channels |-> [i \in DOMAIN cfg.sets |-> [exclusive_set |-> cfg.sets[i]]], buzzer |-> cfg.buzzer]

-----------------------------------------------------------------------------
(***************************************************************************)
(* The options of the selects.  An option is compared without its case and *)
(* the blanks around it, which are left out.                               *)
(***************************************************************************)
SetLabel(set) == CASE set = 1 -> "A" [] set = 2 -> "B" [] set = 3 -> "C" [] set \notin 1 .. 3 -> "none"

ParseSet(label) ==
  CASE label \in {"none", "-", ""} -> 0
    [] label = "A" -> 1 [] label = "B" -> 2 [] label = "C" -> 3
    [] label \notin {"none", "-", "", "A", "B", "C"} -> Refused

ModeValues == {"auto", "manual", "off"}

\* A label says more than the value it starts with.
Label(value) == <<value, "and what it means">>
Bare(value) == <<value>>

ModeLabel(mode) == Label(mode)

ParseMode(option) ==
  IF \E m \in ModeValues : option = Bare(m) THEN CHOOSE m \in ModeValues : option = Bare(m) ELSE Refused

ModeFromOption(option) ==
  LET labelled == {m \in ModeValues : option = ModeLabel(m)}
      starting == {m \in ModeValues : option # <<>> /\ option[1] = m}
  IN CASE labelled # {} -> CHOOSE m \in labelled : TRUE
       [] labelled = {} /\ ParseMode(option) # Refused -> ParseMode(option)
       [] labelled = {} /\ ParseMode(option) = Refused ->
            IF starting = {} THEN Refused ELSE CHOOSE m \in starting : TRUE
=============================================================================
