------------------------------- MODULE Relays -------------------------------
(***************************************************************************)
(* Switching relays (core/src/controller.rs: set_relay and the loops that  *)
(* call it once per channel).  A state `c` is a record with at least the   *)
(* fields relays (the set of channels that are on), onSince (the timers of *)
(* the safeguard) and capped; a configuration `g` has exclusiveSet.        *)
(*                                                                         *)
(* The loops are written here as one step on sets; RelayLoop runs them     *)
(* channel by channel and shows that they come to the same.                *)
(***************************************************************************)
EXTENDS Integers

CONSTANTS
  N,              \* number of relays (CHANNELS)
  MaxSets,        \* number of exclusive sets (MAX_EXCLUSIVE_SETS)
  None            \* Option::None

\* CHANNELS is positive, and None is no number.
ASSUME RelaysAssumption ==
  /\ N \in Nat \ {0}
  /\ MaxSets \in Nat
  /\ None \notin Nat

Ch == 1..N

\* Two different channels of the same exclusive set; 0 is "no set".
Interlocked(g, ch, other) ==
  /\ ch # other
  /\ g.exclusiveSet[ch] # 0
  /\ g.exclusiveSet[ch] = g.exclusiveSet[other]

\* set_relay called without restart_timer on every channel of `ons` (on) and
\* `offs` (off), in ascending order.  A capped channel refuses to go on; going
\* on switches the rest of the set off, so of the channels of one set asked on
\* the last one stays.  A channel whose turn came after another of its set had
\* switched it off starts a new on-time.
Rivals(g, c, ons, ch) == {other \in ons \ c.capped : Interlocked(g, ch, other)}

\* Mutant: a capped channel goes on like any other.
RelaysAfterUncapped(g, c, ons, offs) ==
  {ch \in ons : \A other \in ons : Interlocked(g, ch, other) => other < ch}
    \cup {ch \in c.relays \ (ons \cup offs) : \A other \in ons : ~Interlocked(g, ch, other)}

RelaysAfter(g, c, ons, offs) ==
  {ch \in ons \ c.capped : \A other \in Rivals(g, c, ons, ch) : other < ch}
    \cup {ch \in c.relays \ ((ons \ c.capped) \cup offs) : Rivals(g, c, ons, ch) = {}}

\* Mutant: the timer of a relay that goes off keeps running.
SetRelaysKeepTimers(g, c, t, ons, offs) ==
  LET on == RelaysAfter(g, c, ons, offs)
  IN [c EXCEPT !.relays = on,
               !.onSince = [ch \in Ch |->
                  IF ch \in on \ c.relays THEN t ELSE c.onSince[ch]]]

SetRelays(g, c, t, ons, offs) ==
  LET on == RelaysAfter(g, c, ons, offs)
      undisturbed == {ch \in on \cap c.relays : Rivals(g, c, ons, ch) = {}}
  IN [c EXCEPT !.relays = on,
               !.onSince = [ch \in Ch |->
                  IF ch \in undisturbed THEN c.onSince[ch]
                  ELSE IF ch \in on THEN t ELSE None]]

\* set_relay with restart_timer, as an HA command calls it: a repeated ON gives
\* the relay a fresh safeguard window.
CommandRelay(g, c, t, ch, on) ==
  LET d == SetRelays(g, c, t, IF on THEN {ch} ELSE {}, IF on THEN {} ELSE {ch})
  IN [d EXCEPT !.onSince =
        IF on /\ ch \notin c.capped THEN [d.onSince EXCEPT ![ch] = t] ELSE @]

\* The lowest channel of each exclusive set among `chs`, and those in no set.
LowestOfSets(g, chs) ==
  {ch \in chs : \A other \in chs : Interlocked(g, ch, other) => ch < other}

AllOff(g, c, t) == SetRelays(g, c, t, {}, Ch)

\* In each exclusive set keep the lowest relay that is on.
EnforceExclusive(g, c, t) ==
  SetRelays(g, c, t, {},
            {ch \in Ch : \E first \in c.relays : first < ch /\ Interlocked(g, first, ch)})
=============================================================================
