------------------------------ MODULE MCForms ------------------------------
(***************************************************************************)
(* The pure functions of the program against their references, one input a *)
(* state: registers, text forms, header bytes and commands are chosen at   *)
(* the start; every year is walked through day by day, as the chip counts  *)
(* it.                                                                     *)
(***************************************************************************)
EXTENDS Calendar, Forms, Headers, Entities, FiniteSetsExt

CONSTANTS FirstYear, LastYear  \* of the walk

\* The chip's two digits and century bit end with the year 2199.
ASSUME YearsAssumption == FirstYear \in 1 .. 2199 /\ LastYear \in 1 .. 2199

VARIABLE input

Is(kind) == input.kind = kind

MCChips ==
  [kind : {"chip"}, twelve : BOOLEAN, pm : BOOLEAN, hour : {0, 1, 11, 12, 13, 19},
   date : {2000, 2023, 2024, 2027} \X {0, 1, 2, 4, 12, 13} \X {0, 1, 28, 29, 30, 31, 32}]

MCDays == [kind : {"days"}, text : [1 .. 7 -> Characters] \cup [1 .. 6 -> {"letter"}] \cup [1 .. 8 -> {"blank"}]]

MCBlocks ==
  {<<>>, <<[from |-> 0, to |-> 1440]>>, <<[from |-> 360, to |-> 420], [from |-> 420, to |-> 420]>>,
   <<[from |-> 1439, to |-> 1441]>>}
MCPlans == UNION {[kind : {"plan"}, object : [keys -> MCBlocks]] : keys \in kSubset(2, {KeyOrder[i] : i \in DOMAIN KeyOrder})}

MCMembers == {{}} \cup {{<<"exclusive_member", b>>} : b \in BOOLEAN}
MCSets == {{}} \cup {{<<"exclusive_set", n>>} : n \in {0, 1, 3, 4, 255}}
AsObject(pairs) == [key \in {p[1] : p \in pairs} |-> (CHOOSE p \in pairs : p[1] = key)[2]]
MCChannels == {AsObject(m \cup s) : m \in MCMembers, s \in MCSets}
MCTops == {[exclusive |-> b, channels |-> <<c, d>>] : b \in BOOLEAN, c \in MCChannels, d \in MCChannels}
MCConfigs == {[kind |-> "config", object |-> c] : c \in MCTops \cup
                {[channels |-> <<c>>, buzzer |-> b] : c \in MCChannels, b \in BOOLEAN}}

MCOptions == [kind : {"option"}, set : 0 .. 4, mode : ModeValues]

Going == {b \in Bytes : b.more}
Short == UNION {[1 .. n -> Bytes] : n \in 0 .. 3}
\* After three bytes only numbers that go on.
Start == UNION {[1 .. n -> Going] : n \in 3 .. 5}
MCBuffers == [kind : {"buffer"}, bytes : Short] \cup {[kind |-> "buffer", bytes |-> Append(s, b)] : s \in Start, b \in Bytes}
MCHeaders ==
  [kind : {"header"}, id : 0 .. Modulus - 1,
   length : {0, 1, Base - 1, Base, Base * Base * Base - 1, Base * Base * Base,
             MaxPayload, MaxPayload + 1, Modulus - 1}]

MCCommands == [kind : {"command"}, message : Requests, key : Registry(1 .. 2)]

Init ==
  \/ input \in {[kind |-> "day", date |-> Date(y, 1, 1)] : y \in FirstYear .. LastYear}
  \/ input \in MCChips \/ input \in MCDays \/ input \in MCPlans \/ input \in MCConfigs \/ input \in MCOptions
  \/ input \in MCBuffers \/ input \in MCHeaders \/ input \in MCCommands

DayPasses ==
  /\ Is("day") /\ input.date # Date(LastYear, 12, 31)
  /\ input' = [input EXCEPT !.date = DayAfter(@)]

Next == DayPasses

Spec == Init /\ [][Next]_input

-----------------------------------------------------------------------------
\* Whatever time the board is given between 2024 and the end of the protocol's 32
\* bits in 2106, a restart reads it back from the chip to the second, from days
\* counted as the calendar does; a chip that shows no such date gives no time.
RtcKeepsTime ==
  /\ Is("day") =>
       /\ DayCounted(input.date)
       /\ input.date[1] >= 2024 => \A second \in {0, 43199, 86399} : ReadBack(input.date, second)
  /\ Is("chip") =>
       Decode(Registers(input.date, input.hour, input.twelve, input.pm))
         = Shown(input.date, input.hour, input.twelve, input.pm)

\* A block that is active at some minutes, and all of them are of one day.
OfOneDay(block) ==
  LET minutes == block.from .. block.to - 1
  IN minutes # {} /\ minutes \subseteq 0 .. 1439

\* What the board saves it reads back, whoever wrote it first: the days of a block,
\* the plan of every channel, the sets that firmware before 0.17 kept otherwise.  A
\* plan that names a channel the board has not, or has a block that is never active or
\* goes on past midnight, is refused whole, and no other (of two keys for a channel,
\* only the one that counts is asked).  A select's option is the one that is published
\* when it has been chosen.
SettingsReadBack ==
  /\ Is("days") =>
       LET days == ParseDays(input.text)
       IN days # Refused => ParseDays(ShowDays(days)) = days
  /\ Is("plan") =>
       LET plan == ReadPlan(input.object)
           keys == DOMAIN input.object
           unknown == {key \in keys : NumberOf(key) \notin Channels}
           bad == {key \in keys : \E i \in DOMAIN input.object[key] : ~OfOneDay(input.object[key][i])}
           alone == {key \in keys : \A k \in keys : NumberOf(k) = NumberOf(key) => k = key}
       IN /\ (unknown # {} \/ bad \cap alone # {}) => plan = Refused
          /\ ((unknown = {} /\ bad = {}) \/ plan # Refused) =>
               \A key \in keys : \E k \in keys :
                 NumberOf(k) = NumberOf(key) /\ plan[NumberOf(key)] = input.object[k]
          /\ plan # Refused =>
               /\ ReadPlan(WriteChannels(plan)) = plan
               /\ \A ch \in Channels : \A i \in DOMAIN plan[ch] : OfOneDay(plan[ch][i])
  /\ Is("config") =>
       LET cfg == ReadConfig(input.object)
       IN /\ ReadConfig(WriteConfig(cfg)) = cfg
          /\ \A i \in DOMAIN cfg.sets :
               LET ch == input.object.channels[i]
               IN cfg.sets[i] =
                    CASE Get(ch, "exclusive_set", 0) \in 1 .. MaxExclusiveSets -> ch.exclusive_set
                      [] Get(ch, "exclusive_set", 0) > MaxExclusiveSets -> 0
                      [] OTHER -> IF Get(input.object, "exclusive", FALSE) /\ ch # [exclusive_member |-> FALSE]
                                       /\ ch # [exclusive_member |-> FALSE, exclusive_set |-> 0]
                                  THEN 1 ELSE 0
  /\ Is("option") =>
       /\ input.set <= MaxExclusiveSets => ParseSet(SetLabel(input.set)) = input.set
       /\ \A option \in {ModeLabel(input.mode), Bare(input.mode)} : ModeFromOption(option) = input.mode

\* A length or identifier is read as it was written, by both readers, which agree on
\* every sequence of bytes, and a header is taken only when all of it has arrived;
\* then it is refused if a payload of its length is too large, at one byte too many.
HeadersAgree ==
  /\ Is("buffer") =>
       /\ Parse(input.bytes) # Incomplete => Read(input.bytes) = Parse(input.bytes)
       /\ Len(Parse(input.bytes)) = 2 =>
            \A n \in 0 .. Parse(input.bytes)[2] - 1 : Parse(SubSeq(input.bytes, 1, n)) = Incomplete
  /\ Is("header") =>
       LET bytes == Header(input.length, input.id)
       IN \A n \in 0 .. Len(bytes) :
            ParseHeader(SubSeq(bytes, 1, n) \o (IF n = Len(bytes) THEN <<Byte(0, TRUE)>> ELSE <<>>))
              = IF n < Len(bytes) THEN Incomplete
                ELSE IF input.length > MaxPayload THEN TooLarge ELSE <<input.length, input.id, n>>

\* Every entity works from Home Assistant: it is listed as what it is, and by its key;
\* if it has a state, one that fits is published at boot (the signal strength: when
\* there is one) and by whoever acts on it; its command, and no other, acts on it.
EntitiesServed ==
  Is("command") =>
    LET group == input.key[1]
        kind == KindOf(group)
        id == input.message.id
        own == CommandOf(id) = (CASE kind = "switch" -> "Switch" [] kind = "number" -> "Number"
                                  [] kind = "select" -> "Select" [] kind = "button" -> "Button"
                                  [] kind = "update" -> "Update" [] kind = "service" -> "Service"
                                  [] OTHER -> "no command")
        fits(p) == HasState(KindOf(p.group)) /\ StateMessage(KindOf(p.group), p.type) # NoMessage
        keyed(m) == "key" \in m.fields
    IN /\ {k \in Kinds : ListMessage[k].id = ListMessage[kind].id} = {kind}
       /\ keyed(ListMessage[kind]) /\ (CommandOf(id) # "none" => keyed(input.message))
       /\ HasState(kind) => \E p \in BootPublished \cup {Published("rssi", "Float")} : p.group = group /\ fits(p)
       /\ \A p \in BootPublished \cup OtherPublished : fits(p)
       /\ CommandOf(id) # "none" =>
            /\ Acts(id, input.key) <=> own
            /\ \A p \in ArmFor(id, input.key).shows : fits(p)
            /\ own /\ kind \in {"switch", "number", "select"} =>
                 \E p \in ArmFor(id, input.key).shows : p.group = group
=============================================================================
