-------------------------------- MODULE Update --------------------------------
(***************************************************************************)
(* Firmware updates: the main loop that starts them and reports on them    *)
(* (firmware/src/main.rs), the download threads (ota.rs), the check for a  *)
(* newer version (updater.rs) and the bootloader, which returns to the     *)
(* previous image when a new one is restarted before it was confirmed.     *)
(*                                                                         *)
(* Abstractions.  Percentages are left out.  A status of a thread is its   *)
(* first word.  Commands come at any time; statuses and check results wait *)
(* in the main loop's channel in the order they were sent.                 *)
(***************************************************************************)
EXTENDS Naturals, Sequences, FiniteSets

CONSTANTS
  Images,       \* firmware images
  Newer,        \* Newer[i]: the images whose version is newer than that of i
  Threads,      \* download threads
  NoImage,      \* no image; no version known
  MaxMail       \* bound on messages sent while others are not handled

ASSUME UpdateAssumption ==
  /\ NoImage \notin Images
  /\ Newer \in [Images -> SUBSET Images]
  /\ MaxMail \in Nat

VARIABLES
  slots,      \* otadata: the running image, whether it is pending verification,
              \* the image that boots next and the one to fall back to
  app,        \* the main loop: ota_running, image_confirmed, in_progress, latest
  download,   \* the download threads: the image each installs and how far it is
  mail,       \* Msg::OtaStatus and Msg::UpdateInfo not handled yet
  crossed     \* history: a refusal was handled while an update was under way

updVars == <<slots, app, download, mail, crossed>>

Alive(t) == download[t].at # "none"
Free == {t \in Threads : ~Alive(t)}

\* EspOta::new fails while another thread has one.
Taken == \E t \in Threads : download[t].at = "writing"

Post(m) == mail' = Append(mail, m)
Status(word) == [kind |-> word, image |-> NoImage]
Room == Len(mail) < MaxMail

\* spawn_ota
Spawn(i) ==
  /\ Room
  /\ \E t \in Free : download' = [download EXCEPT ![t] = [image |-> i, at |-> "http"]]
  /\ Post(Status("downloading"))
  /\ app' = [app EXCEPT !.running = TRUE]
  /\ UNCHANGED <<slots, crossed>>

\* Command::Service ota with a url of an image.
OtaService(i) == ~app.running /\ Spawn(i)

\* The same with something that is no url.
OtaServiceRefused ==
  /\ ~app.running /\ Room
  /\ Post(Status("rejected"))
  /\ UNCHANGED <<slots, app, download, crossed>>

\* Mutant: the update entity does not ask whether an update runs.
MayInstallAnyway == app.latest # NoImage /\ app.latest \in Newer[slots.running]

MayInstall == app.latest # NoImage /\ app.latest \in Newer[slots.running] /\ ~app.running

\* Command::Update 1
Install == MayInstall /\ Spawn(app.latest)

\* Command::Update 2 and the check of Msg::Tick, with the answer of the server.
UpdateCheck(i) ==
  /\ Room
  /\ Post([kind |-> "info", image |-> i])
  /\ UNCHANGED <<slots, app, download, crossed>>

\* Mutant: a failure leaves the update running.
ToldStuck(a, word) ==
  CASE word = "downloading" -> [a EXCEPT !.shown = TRUE]
    [] word = "installed" -> a
    [] word \in {"failed", "rejected"} -> [a EXCEPT !.shown = FALSE]

\* Mutant: the end of an attempt does not reach the update entity.
ToldSilently(a, word) ==
  CASE word = "downloading" -> [a EXCEPT !.shown = TRUE]
    [] word = "installed" -> a
    [] word \in {"failed", "rejected"} -> [a EXCEPT !.running = FALSE]

\* Msg::OtaStatus
Told(a, word) ==
  CASE word = "downloading" -> [a EXCEPT !.shown = TRUE]
    [] word = "installed" -> a
    [] word \in {"failed", "rejected"} -> [a EXCEPT !.shown = FALSE, !.running = FALSE]

\* Msg::UpdateInfo and Msg::OtaStatus
HandleMail ==
  /\ mail # <<>>
  /\ mail' = Tail(mail)
  /\ LET m == Head(mail)
     IN /\ app' = CASE m.kind = "info" /\ m.image # NoImage -> [app EXCEPT !.latest = m.image]
                    [] m.kind = "info" /\ m.image = NoImage -> app
                    [] m.kind # "info" -> Told(app, m.kind)
        /\ crossed' = (crossed \/ (m.kind = "rejected" /\ app.running))
  /\ UNCHANGED <<slots, download>>

\* Msg::Tick: a client got through, or the image ran for five minutes.  That the
\* image could not be marked is only logged.
Confirm ==
  /\ ~app.confirmed
  /\ app' = [app EXCEPT !.confirmed = TRUE]
  /\ slots' = IF Taken THEN slots ELSE [slots EXCEPT !.pending = FALSE]
  /\ UNCHANGED <<download, mail, crossed>>

Moves(t, to) == download' = [download EXCEPT ![t].at = to]
Ends(t) == download' = [download EXCEPT ![t] = [image |-> NoImage, at |-> "none"]]

\* The server answered: install_from_url takes the updater and erases the slot.
BeginWrite(t) ==
  /\ download[t].at = "http" /\ ~Taken
  /\ Moves(t, "writing")
  /\ UNCHANGED <<slots, app, mail, crossed>>

\* No answer, the updater is taken, an image not yet verified, a short download.
Fail(t) ==
  /\ download[t].at \in {"http", "writing"}
  /\ Ends(t)
  /\ Post(Status("failed"))
  /\ UNCHANGED <<slots, app, crossed>>

\* One of the messages of the progress.
Progress(t) ==
  /\ download[t].at = "writing" /\ ~slots.pending /\ Room
  /\ Post(Status("downloading"))
  /\ UNCHANGED <<slots, app, download, crossed>>

\* The image is complete; two seconds later the thread restarts the board.
Complete(t) ==
  /\ download[t].at = "writing" /\ ~slots.pending
  /\ Moves(t, "installed")
  /\ Post(Status("installed"))
  /\ slots' = [slots EXCEPT !.next = download[t].image]
  /\ UNCHANGED <<app, crossed>>

Installed(t) == download[t].at = "installed"

\* The bootloader: the image to boot next, pending if it was not run before; one
\* that is still pending gives way to the one before it.
BootSlots ==
  IF slots.next # slots.running
  THEN [running |-> slots.next, pending |-> TRUE, next |-> slots.next, fallback |-> slots.running]
  ELSE IF slots.pending
  THEN [running |-> slots.fallback, pending |-> FALSE, next |-> slots.fallback, fallback |-> slots.fallback]
  ELSE slots

Idle == [t \in Threads |-> [image |-> NoImage, at |-> "none"]]
BootApp == [running |-> FALSE, confirmed |-> FALSE, shown |-> FALSE, latest |-> NoImage]

RestartUpdate ==
  /\ slots' = BootSlots
  /\ app' = BootApp
  /\ download' = Idle
  /\ mail' = <<>>
  /\ crossed' = FALSE

UpdInit ==
  /\ \E i \in Images :
       slots = [running |-> i, pending |-> FALSE, next |-> i, fallback |-> i]
  /\ app = BootApp
  /\ download = Idle
  /\ mail = <<>>
  /\ crossed = FALSE

-----------------------------------------------------------------------------
\* When all that was sent is handled, the update entity shows an update under way
\* only if a thread still works on it.
ProgressTruthful == mail = <<>> /\ app.shown => \E t \in Threads : Alive(t)

\* Only one download at a time, unless a refusal was handled before the end of one
\* was: what the board tells apart by the first word of a status it cannot tell
\* apart by sender.
OneDownload == Cardinality({t \in Threads : Alive(t)}) <= 1 \/ crossed

\* main.rs:496: "A failed attempt must not block the next one."
AttemptEnds == app.running ~> ~app.running
=============================================================================
