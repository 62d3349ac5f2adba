------------------------------ MODULE Lifecycle ------------------------------
(***************************************************************************)
(* A board from its first boot on: its network settings (Provisioning) and *)
(* its firmware (Update), which meet in the restarts.  Each may restart    *)
(* the board under the other: new settings, a factory reset and the button *)
(* of Home Assistant in the middle of a download or before a new image was *)
(* confirmed, an installed image in the middle of a save.                  *)
(***************************************************************************)
EXTENDS Provisioning, Update

CONSTANTS
  MaxCuts,     \* bound on restarts in the middle of a boot, a save or a reset
  MaxFails,    \* bound on failed writes
  MaxEvents    \* bound on what the owner and Home Assistant ask for

ASSUME LifecycleAssumption == {MaxCuts, MaxFails, MaxEvents} \subseteq Nat

\* What is left of each bound.
VARIABLES cuts, fails, events

faults == <<cuts, fails>>
vars == <<provVars, updVars, faults, events>>

\* The board comes up again, whatever it was doing.
Restart ==
  /\ RestartUpdate
  /\ Boots(slots'.running)

\* A restart in the middle of something, and one in between.
Cut == Busy /\ cuts > 0 /\ cuts' = cuts - 1 /\ broken' = (broken \/ Left("wiped"))
NoCut == ~Busy /\ UNCHANGED <<cuts, broken>>
Event == events > 0 /\ events' = events - 1

\* A unit is flashed over USB with a build that has its secrets (firmware/README.md:29).
Init ==
  /\ ProvInit /\ UpdInit
  /\ slots.running \in SeededBuilds
  /\ cuts = MaxCuts /\ fails = MaxFails
  /\ events = MaxEvents

\* The first boot, and the next one of a board that stands still.
PowerOn == ~Started /\ ~Busy /\ Restart /\ UNCHANGED <<forgotten, broken, faults, events>>

PowerCut == Cut /\ Restart /\ UNCHANGED <<forgotten, fails, events>>

\* Between two messages a power cut is like Command::Button restart.
RestartButton == Event /\ Started /\ ~Busy /\ Restart /\ UNCHANGED <<forgotten, broken, faults>>

NewSettings == RestartDue /\ Restart /\ UNCHANGED <<forgotten, broken, faults, events>>

ResetDone ==
  /\ Wiped /\ Restart
  /\ forgotten' = IF broken THEN forgotten ELSE Everything
  /\ UNCHANGED <<broken, faults, events>>

\* The thread does not ask what the main loop is doing; in the middle of a save
\* or a reset it is as bad as a power cut.
NewImage ==
  /\ \E t \in Threads : Installed(t)
  /\ Restart
  /\ Cut \/ NoCut
  /\ UNCHANGED <<forgotten, fails, events>>

\* The main loop and the setup page, on the network settings.
Settle ==
  /\ \/ Write \/ Start \/ Adopt \/ Provision(slots.running)
  /\ UNCHANGED <<updVars, faults, events>>

Owner ==
  /\ Event
  /\ \/ FactoryReset(slots.running) /\ Started
     \/ \E viaAp \in BOOLEAN, claimed \in {current.psk, key}, ssid \in Networks \cup {NoNetwork},
          psk \in OwnerKeys \cup {NoKey} : PortalSave(viaAp, claimed, ssid, psk)
  /\ UNCHANGED <<updVars, faults>>

SaveFails ==
  /\ fails > 0 /\ fails' = fails - 1
  /\ WriteFails
  /\ UNCHANGED <<updVars, cuts, events>>

\* The main loop on firmware updates, between two messages about settings.
Listening == Started /\ ~Busy

Requests ==
  /\ Listening /\ Event
  /\ \/ \E i \in Images : OtaService(i)
     \/ OtaServiceRefused
     \/ Install
     \/ \E i \in Images \cup {NoImage} : UpdateCheck(i)
  /\ UNCHANGED <<provVars, faults>>

Reports == Listening /\ HandleMail /\ UNCHANGED <<provVars, faults, events>>

ConfirmImage == Listening /\ Confirm /\ UNCHANGED <<provVars, faults, events>>

Downloads ==
  /\ \E t \in Threads : BeginWrite(t) \/ Fail(t) \/ Progress(t) \/ Complete(t)
  /\ UNCHANGED <<provVars, faults, events>>

Next ==
  \/ PowerOn \/ PowerCut \/ RestartButton \/ NewSettings \/ ResetDone \/ NewImage
  \/ Settle \/ Owner \/ SaveFails \/ Requests \/ Reports \/ ConfirmImage \/ Downloads

\* A download ends: it is finite, and the server answers or the read times out.
DownloadEnds == \E t \in Threads : (Fail(t) \/ Complete(t)) /\ UNCHANGED <<provVars, faults, events>>

Fairness ==
  /\ WF_vars(Settle) /\ WF_vars(NewSettings) /\ WF_vars(ResetDone)
  /\ WF_vars(NewImage) /\ WF_vars(Reports) /\ WF_vars(DownloadEnds)

Spec == Init /\ [][Next]_vars /\ Fairness

-----------------------------------------------------------------------------
\* The board serves the API with the key it has in flash, or is about to restart
\* to do so: else Home Assistant, which has one of the two, is locked out at some
\* later restart or until then.  Restarts at a bad moment and failed writes do not
\* break that, but for those in a factory reset: it may leave the old key without its
\* network, and if then the one that is made up cannot be written it comes back.
KeyInForce ==
  ~broken /\ Started /\ ~Busy /\ ~restarting => flash.psk \in {None, NoKey, key}
=============================================================================
