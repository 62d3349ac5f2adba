----------------------------- MODULE Provisioning -----------------------------
(***************************************************************************)
(* The network settings: the build-time seed, the setup page, the keys in  *)
(* flash and the factory reset (firmware/src/settings.rs, portal.rs and    *)
(* main.rs).  Each key is written by a call of its own and the power may   *)
(* fail between two; the setup page computes a save from the settings it   *)
(* sees and the main loop handles it later.                                *)
(*                                                                         *)
(* Abstractions.  A network is its ssid, with the password of that name.   *)
(* The node name and the friendly name are written, compared and adopted   *)
(* like the API key and are left out.  API keys are numbers; the board     *)
(* numbers those it generates, the owner's are OwnerKeys.                  *)
(***************************************************************************)
EXTENDS Naturals, Sequences

CONSTANTS
  Networks,      \* the owner's networks
  OwnerKeys,     \* API keys typed into the setup page
  SeededBuilds,  \* firmware images built with a secrets.env, the same for all
  SeedNetwork,   \* the network it names
  SeedKey,       \* the API key it names, or NoKey
  NoNetwork,     \* the empty ssid
  None,          \* a key that is not in flash
  MaxInbox,      \* bound on unhandled saves
  MaxKeys        \* bound on generated keys

\* The empty API key.
NoKey == 0

\* Names of networks, keys that are given and keys that are made up are told apart,
\* and so are a missing and an empty one.
ASSUME ProvisioningAssumption ==
  /\ {MaxInbox, MaxKeys, SeedKey} \subseteq Nat
  /\ OwnerKeys \subseteq Nat
  /\ (Networks \cup OwnerKeys \cup {SeedNetwork, SeedKey}) \cap ({NoNetwork} \cup 1 .. MaxKeys) = {}
  /\ NoNetwork \notin 0 .. MaxKeys
  /\ None \notin Networks \cup OwnerKeys \cup {SeedNetwork, SeedKey, NoNetwork} \cup 0 .. MaxKeys

VARIABLES
  flash,       \* the keys of NS_NET; mark is seedhash
  current,     \* PortalContext.current
  key,         \* the psk the API listener was started with; NoKey until it is
  inbox,       \* Msg::Provision not handled yet
  doing,       \* the rest of the boot, the save or the reset under way
  restarting,  \* restart_at is set
  made,        \* keys generated so far
  forgotten,   \* history: what the last factory reset erased and nobody gave again
  broken       \* history: the last factory reset was cut short or a write of it failed

provVars == <<flash, current, key, inbox, doing, restarting, made, forgotten, broken>>

Settings(ssid, psk) == [ssid |-> ssid, pass |-> ssid, psk |-> psk]
Blank == Settings(NoNetwork, NoKey)

Do(step) == <<[op |-> step]>>
Put(k, v) == [op |-> "put", key |-> k, value |-> v]
Remove(k) == [op |-> "put", key |-> k, value |-> None]

SaveNet(s) == <<Put("ssid", s.ssid), Put("pass", s.pass), Put("psk", s.psk)>>

\* A build without a seed has no fingerprint to compare or to record.
MarkSeeded(build) == IF build \in SeededBuilds THEN <<Put("mark", SeedNetwork)>> ELSE <<>>

\* Mutant: the compiled-in credentials are also used when flash holds none.
SeedDueIfEmpty(build) ==
  build \in SeededBuilds /\ (flash.mark # SeedNetwork \/ flash.ssid = None)

SeedDue(build) == build \in SeededBuilds /\ flash.mark # SeedNetwork

OrElse(v, default) == IF v = None THEN default ELSE v

\* load_net: a missing ssid is no settings at all, a missing psk is an empty one.
LoadNet ==
  IF flash.ssid = None THEN Blank
  ELSE [ssid |-> flash.ssid, pass |-> OrElse(flash.pass, NoNetwork), psk |-> OrElse(flash.psk, NoKey)]

BootNet(build) == IF SeedDue(build) THEN Settings(SeedNetwork, SeedKey) ELSE LoadNet

\* A boot of this build: seed the flash, choose the settings, make sure there is
\* an API key, start the services.
Boots(build) ==
  LET net == BootNet(build)
      bare == net.psk = NoKey
      keyed == IF bare THEN [net EXCEPT !.psk = made + 1] ELSE net
  IN /\ bare => made < MaxKeys
     /\ made' = IF bare THEN made + 1 ELSE made
     /\ doing' = [new |-> keyed,
                  left |-> (IF SeedDue(build) THEN SaveNet(net) \o MarkSeeded(build) ELSE <<>>)
                           \o (IF bare THEN SaveNet(keyed) ELSE <<>>) \o Do("start")]
     /\ current' = Blank
     /\ key' = NoKey
     /\ inbox' = <<>>
     /\ restarting' = FALSE
     /\ UNCHANGED flash

Step == Head(doing.left)
Rest == [doing EXCEPT !.left = Tail(@)]
Busy == doing.left # <<>>
Started == key # NoKey
Left(op) == \E i \in DOMAIN doing.left : doing.left[i].op = op

\* One call of set_str or remove.
Write ==
  /\ Busy /\ Step.op = "put"
  /\ flash' = [flash EXCEPT ![Step.key] = Step.value]
  /\ doing' = Rest
  /\ UNCHANGED <<current, key, inbox, restarting, made, forgotten, broken>>

Seeding == ~Started /\ \E i \in DOMAIN doing.left : doing.left[i] = Put("mark", SeedNetwork)

\* A write or a removal fails.  factory_reset passes over a removal and its error at
\* the mark is logged; an error while seeding ends main and the board stands still; a
\* save of the setup page, or of a generated key, is given up and the error logged.
WriteFails ==
  /\ Busy /\ Step.op = "put"
  /\ doing' = [doing EXCEPT !.left = IF Left("wiped") THEN Tail(@)
                                    ELSE IF Seeding THEN <<>> ELSE <<@[Len(@)]>>]
  /\ broken' = (broken \/ Left("wiped"))
  /\ UNCHANGED <<flash, current, key, inbox, restarting, made, forgotten>>

\* The end of a boot.
Start ==
  /\ Busy /\ Step.op = "start"
  /\ current' = doing.new
  /\ key' = doing.new.psk
  /\ doing' = Rest
  /\ UNCHANGED <<flash, inbox, restarting, made, forgotten, broken>>

\* POST /api/save: through the access point, or with the key of the settings the
\* page sees; an empty key keeps the one of those settings.
PortalSave(viaAp, claimed, ssid, psk) ==
  /\ Started /\ Len(inbox) < MaxInbox
  /\ viaAp \/ current.psk = NoKey \/ claimed = current.psk
  /\ ssid # NoNetwork
  /\ inbox' = Append(inbox, Settings(ssid, IF psk = NoKey THEN current.psk ELSE psk))
  /\ UNCHANGED <<flash, current, key, doing, restarting, made, forgotten, broken>>

\* Msg::Provision
Provision(build) ==
  /\ ~Busy /\ inbox # <<>>
  /\ inbox' = Tail(inbox)
  /\ doing' = [new |-> Head(inbox), left |-> SaveNet(Head(inbox)) \o MarkSeeded(build) \o Do("adopt")]
  /\ forgotten' = forgotten \ {Head(inbox).ssid, Head(inbox).psk}
  /\ UNCHANGED <<flash, current, key, restarting, made, broken>>

\* Mutant: only the names are compared.
NeedsRestartForNames(new) == FALSE

NeedsRestart(new) == new.psk # current.psk

\* What Provision does once the settings are saved, or were not.
Adopt ==
  /\ Busy /\ Step.op = "adopt"
  /\ restarting' = (restarting \/ NeedsRestart(doing.new))
  /\ current' = doing.new
  /\ doing' = Rest
  /\ UNCHANGED <<flash, key, inbox, made, forgotten, broken>>

\* restart_at has come.
RestartDue == ~Busy /\ restarting

\* Msg::FactoryReset, up to the restart at its end.
FactoryReset(build) ==
  /\ ~Busy
  /\ doing' = [new |-> Blank,
               left |-> <<Remove("ssid"), Remove("pass"), Remove("psk")>>
                        \o MarkSeeded(build) \o Do("wiped")]
  /\ broken' = FALSE
  /\ UNCHANGED <<flash, current, key, inbox, restarting, made, forgotten>>

Wiped == Busy /\ Step.op = "wiped"

\* All a board may have been told or have made up so far.
Everything == Networks \cup OwnerKeys \cup {SeedNetwork, SeedKey} \cup 1 .. made

ProvInit ==
  /\ flash = [k \in {"ssid", "pass", "psk", "mark"} |-> None]
  /\ current = Blank
  /\ key = NoKey
  /\ inbox = <<>>
  /\ restarting = FALSE
  /\ made = 0
  /\ forgotten = {}
  /\ broken = FALSE
  /\ doing = [new |-> Blank, left |-> <<>>]

-----------------------------------------------------------------------------
\* After a factory reset that was neither cut short nor had a write fail, none of the
\* networks and API keys from before it is in use, the compiled-in ones included, until
\* they are given again: whatever saves, seeds and restarts are cut or fail later.
ResetForgets == Started => {current.ssid, key} \cap forgotten = {}
=============================================================================
