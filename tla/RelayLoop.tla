----------------------------- MODULE RelayLoop -----------------------------
(***************************************************************************)
(* The loops over channels that switch relays, one set_relay call at a     *)
(* time (core/src/controller.rs), and the loop of the firmware that puts   *)
(* the resulting SetRelay actions on the pins (main.rs, apply).  A message *)
(* may run several loops before its actions are applied.                   *)
(*                                                                         *)
(* The other modules take a loop as one step, SetRelays of module Relays.  *)
(* This module is why they may.                                            *)
(***************************************************************************)
EXTENDS Relays, Sequences, FiniteSets

CONSTANT MaxRounds          \* bound on the loops of a behaviour

ASSUME RoundsAssumption == MaxRounds \in Nat

Kinds == {"loop", "command", "boot"}
Asks == [Ch -> {"on", "off", "keep"}]

VARIABLES
  cfg,      \* the exclusive sets
  ctl,      \* relays, onSince and capped
  job,      \* the loop that runs: its kind and what it asks of each channel
  before,   \* ctl when it began
  next,     \* the channel whose turn it is, N + 1 when the loop is done
  rounds,   \* loops begun; also the time of the running loop
  out,      \* SetRelay actions not yet applied
  pins      \* relays that are physically on

vars == <<cfg, ctl, job, before, next, rounds, out, pins>>

Asked(how) == {ch \in Ch : job.asks[ch] = how}

Ascending(chs) ==
  [i \in 1..Cardinality(chs) |->
     CHOOSE ch \in chs : Cardinality({o \in chs : o < ch}) = i - 1]

Action(ch, on) == [ch |-> ch, on |-> on]

\* set_relay, and the actions it appends: the others of the set go off first.
GivingWay(g, c, ch, on) == {o \in c.relays : on /\ Interlocked(g, ch, o)}

SetRelay(g, c, t, ch, on, restart) ==
  LET gone == GivingWay(g, c, ch, on)
      timed == on /\ (restart \/ ch \notin c.relays)
  IN IF on /\ ch \in c.capped THEN c
     ELSE [c EXCEPT !.relays = IF on THEN (@ \ gone) \cup {ch} ELSE @ \ {ch},
                    !.onSince = [o \in Ch |->
                       IF o \in gone \/ (o = ch /\ ~on) THEN None
                       ELSE IF o = ch /\ timed THEN t ELSE c.onSince[o]]]

\* Mutant: the relay goes on before the others of its set go off.
ActionsMakeFirst(g, c, ch, on) ==
  LET gone == Ascending(GivingWay(g, c, ch, on))
  IN IF on /\ ch \in c.capped THEN <<>>
     ELSE (IF (ch \in c.relays) = on THEN <<>> ELSE <<Action(ch, on)>>)
            \o [i \in DOMAIN gone |-> Action(gone[i], FALSE)]

Actions(g, c, ch, on) ==
  LET gone == Ascending(GivingWay(g, c, ch, on))
  IN IF on /\ ch \in c.capped THEN <<>>
     ELSE [i \in DOMAIN gone |-> Action(gone[i], FALSE)]
            \o (IF (ch \in c.relays) = on THEN <<>> ELSE <<Action(ch, on)>>)

Init ==
  /\ cfg \in [exclusiveSet : [Ch -> 0..MaxSets]]
  /\ ctl \in [relays : SUBSET Ch, onSince : [Ch -> {0, None}], capped : SUBSET Ch]
  /\ ctl.relays \cap ctl.capped = {}
  /\ \A ch \in Ch : ctl.onSince[ch] = 0 <=> ch \in ctl.relays
  /\ \A ch, o \in ctl.relays : ~Interlocked(cfg, ch, o)
  /\ job = [kind |-> "loop", asks |-> [ch \in Ch |-> "keep"]]
  /\ before = ctl
  /\ next = N + 1
  /\ rounds = 0
  /\ out = <<>>
  /\ pins = ctl.relays

\* A loop may ask anything of every channel, a command asks one; boot finds all
\* relays off and asks the power-on relays on.
Begin(kind, asks) ==
  /\ next = N + 1
  /\ rounds < MaxRounds
  /\ kind = "command" => Cardinality({ch \in Ch : asks[ch] # "keep"}) = 1
  /\ kind = "boot" => rounds = 0 /\ ctl.relays = {} /\ \A ch \in Ch : asks[ch] # "off"
  /\ job' = [kind |-> kind, asks |-> asks]
  /\ before' = ctl
  /\ next' = 1
  /\ rounds' = rounds + 1
  /\ UNCHANGED <<cfg, ctl, out, pins>>

\* Mutant: boot does not look at the set.
TakenNever(ch) == FALSE

\* boot skips a channel whose set already has a lower relay on.
Taken(ch) == job.kind = "boot" /\ \E o \in ctl.relays : o < ch /\ Interlocked(cfg, o, ch)

Turn ==
  LET on == job.asks[next] = "on"
      called == job.asks[next] # "keep" /\ ~Taken(next)
  IN /\ next <= N
     /\ next' = next + 1
     /\ ctl' = IF called
               THEN SetRelay(cfg, ctl, rounds, next, on, job.kind = "command") ELSE ctl
     /\ out' = IF called THEN out \o Actions(cfg, ctl, next, on) ELSE out
     /\ UNCHANGED <<cfg, job, before, rounds, pins>>

\* After the last loop of the message the actions reach the pins one by one.
Apply ==
  /\ next = N + 1
  /\ out # <<>>
  /\ LET a == Head(out)
     IN pins' = IF a.on THEN pins \cup {a.ch} ELSE pins \ {a.ch}
  /\ out' = Tail(out)
  /\ UNCHANGED <<cfg, ctl, job, before, next, rounds>>

Next == (\E kind \in Kinds, asks \in Asks : Begin(kind, asks)) \/ Turn \/ Apply

Spec == Init /\ [][Next]_vars

-----------------------------------------------------------------------------
\* What the running loop comes to when its channels up to `last` had their
\* turn, as one step on sets.
OutcomeUpTo(last) ==
  LET ons == Asked("on") \cap 1..last
      offs == Asked("off") \cap 1..last
  IN CASE job.kind = "loop" -> SetRelays(cfg, before, rounds, ons, offs)
       [] job.kind = "boot" ->
            SetRelays(cfg, before, rounds, LowestOfSets(cfg, ons \ before.capped), {})
       [] job.kind = "command" ->
            IF ons \cup offs = {} THEN before
            ELSE LET ch == CHOOSE ch \in ons \cup offs : TRUE
                 IN CommandRelay(cfg, before, rounds, ch, ch \in ons)

\* A loop of set_relay calls in ascending order comes to the one step the other
\* modules take for it, with the same timers.
LoopIsOneStep == next = N + 1 /\ rounds > 0 => ctl = OutcomeUpTo(N)

\* Break before make: no two relays of a set are physically on at any moment,
\* also between the actions of several loops; and when all are applied the pins
\* are what the controller believes.
PinsNeverOverlap ==
  /\ \A ch, o \in pins : ~Interlocked(cfg, ch, o)
  /\ next = N + 1 /\ out = <<>> => pins = ctl.relays
=============================================================================
