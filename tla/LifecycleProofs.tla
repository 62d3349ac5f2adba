--------------------------- MODULE LifecycleProofs ---------------------------
(***************************************************************************)
(* Firmware updates and network settings over restarts, for any number of  *)
(* images, threads, requests, power cuts and failed writes.                *)
(*                                                                         *)
(* Firmware updates first.  The main loop learns how an attempt ended from *)
(* a message that does not say whose end it was.  So both arguments are    *)
(* about what is in `mail`: the failure of the one thread is the only one  *)
(* on its way, and behind every report of progress of a thread that is     *)
(* gone there is its end.                                                  *)
(***************************************************************************)
EXTENDS Lifecycle, TLAPS, SequenceTheorems, FiniteSetTheorems

Words == {"downloading", "installed", "failed", "rejected", "info"}
Mails == [kind : Words, image : Images \cup {NoImage}]
Apps == [running : BOOLEAN, confirmed : BOOLEAN, shown : BOOLEAN, latest : Images \cup {NoImage}]
Attempts == [Threads -> [image : Images \cup {NoImage}, at : {"none", "http", "writing", "installed"}]]

UpdTypes ==
  /\ mail \in Seq(Mails)
  /\ app \in Apps
  /\ download \in Attempts
  /\ crossed \in BOOLEAN

Has(s, word) == \E i \in DOMAIN s : s[i].kind = word

\* At most one attempt is not over: its thread runs or its failure is on its way.
Alone(d, s) ==
  /\ \A t, u \in Threads : d[t].at # "none" /\ d[u].at # "none" => t = u
  /\ \A t \in Threads : d[t].at # "none" => ~Has(s, "failed")
  /\ \A i, j \in DOMAIN s : s[i].kind = "failed" /\ s[j].kind = "failed" => i = j

NoneLeft(d, s) == (\A t \in Threads : d[t].at = "none") /\ ~Has(s, "failed")

\* Unless a refusal was taken for its end, an attempt that is not over is known.
OneInv == crossed \/ (Alone(download, mail) /\ (app.running \/ NoneLeft(download, mail)))

End(m) == m.kind \in {"failed", "rejected"}

\* What is or will be shown of threads that are gone will be taken back.
TakenBack(a, s) ==
  /\ \A i \in DOMAIN s : s[i].kind = "downloading" => \E j \in DOMAIN s : j > i /\ End(s[j])
  /\ a.shown => \E j \in DOMAIN s : End(s[j])

ShownInv == (\A t \in Threads : download[t].at = "none") => TakenBack(app, mail)

\* The inductive invariant.
UpdateInv == UpdTypes /\ OneInv /\ ShownInv

-----------------------------------------------------------------------------
\* A message is put behind the others.
LEMMA Posted ==
  ASSUME NEW s \in Seq(Mails), NEW m \in Mails
  PROVE  /\ Append(s, m) \in Seq(Mails)
         /\ \A i \in DOMAIN s : i \in DOMAIN Append(s, m) /\ Append(s, m)[i] = s[i]
         /\ \E k \in DOMAIN Append(s, m) :
              /\ Append(s, m)[k] = m
              /\ \A i \in DOMAIN s : i < k
              /\ \A i \in DOMAIN Append(s, m) : i \in DOMAIN s \/ i = k
<1>1. Append(s, m) \in Seq(Mails)
  OBVIOUS
<1>2. Len(s) \in Nat /\ DOMAIN s = 1 .. Len(s) /\ Len(Append(s, m)) = Len(s) + 1
  OBVIOUS
<1>3. DOMAIN Append(s, m) = 1 .. Len(s) + 1
  BY <1>1, <1>2
<1>4. \A i \in 1 .. Len(s) : Append(s, m)[i] = s[i]
  OBVIOUS
<1>5. Append(s, m)[Len(s) + 1] = m
  OBVIOUS
<1>6. ASSUME NEW i \in DOMAIN s PROVE i \in DOMAIN Append(s, m) /\ Append(s, m)[i] = s[i]
  BY <1>2, <1>3, <1>4
<1>7. \A n \in Nat : /\ n + 1 \in 1 .. n + 1
                     /\ \A i \in 1 .. n : i < n + 1
                     /\ \A i \in 1 .. n + 1 : i \in 1 .. n \/ i = n + 1
  OBVIOUS
<1>8. Len(s) + 1 \in DOMAIN Append(s, m)
      /\ (\A i \in DOMAIN s : i < Len(s) + 1)
      /\ \A i \in DOMAIN Append(s, m) : i \in DOMAIN s \/ i = Len(s) + 1
  BY <1>2, <1>3, <1>7
<1>9. QED
  BY <1>1, <1>5, <1>6, <1>8

\* The first of a sequence is taken out.
LEMMA Received ==
  ASSUME NEW S, NEW s \in Seq(S), s # <<>>
  PROVE  /\ Tail(s) \in Seq(S)
         /\ Head(s) \in S /\ Head(s) = s[1] /\ 1 \in DOMAIN s
         /\ \A i \in DOMAIN s : i \in Nat /\ i >= 1
         /\ \A i \in DOMAIN Tail(s) : i + 1 \in DOMAIN s /\ Tail(s)[i] = s[i + 1] /\ i >= 1 /\ i \in Nat
         /\ \A i \in DOMAIN s : i > 1 => i - 1 \in DOMAIN Tail(s) /\ Tail(s)[i - 1] = s[i]
<1>1. Tail(s) \in Seq(S) /\ Head(s) \in S /\ Head(s) = s[1]
  OBVIOUS
<1>2. Len(s) \in Nat /\ Len(s) >= 1 /\ DOMAIN s = 1 .. Len(s)
  OBVIOUS
<1>3. Len(Tail(s)) = Len(s) - 1 /\ DOMAIN Tail(s) = 1 .. Len(Tail(s))
  BY <1>1
<1>4. \A i \in 1 .. Len(s) - 1 : Tail(s)[i] = s[i + 1]
  BY <1>2
<1>5. \A n \in Nat : n >= 1 =>
        /\ 1 \in 1 .. n
        /\ \A i \in 1 .. n : i \in Nat /\ i >= 1
        /\ \A i \in 1 .. n - 1 : i + 1 \in 1 .. n /\ i >= 1 /\ i \in Nat
        /\ \A i \in 1 .. n : i > 1 => i - 1 \in 1 .. n - 1 /\ (i - 1) + 1 = i
  OBVIOUS
<1>6. 1 \in DOMAIN s /\ \A i \in DOMAIN s : i \in Nat /\ i >= 1
  BY <1>2, <1>5
<1>7. ASSUME NEW i \in DOMAIN Tail(s)
      PROVE  i + 1 \in DOMAIN s /\ Tail(s)[i] = s[i + 1] /\ i >= 1 /\ i \in Nat
  BY <1>2, <1>3, <1>4, <1>5
<1>8. ASSUME NEW i \in DOMAIN s, i > 1
      PROVE  i - 1 \in DOMAIN Tail(s) /\ Tail(s)[i - 1] = s[i]
  <2>1. i - 1 \in 1 .. Len(s) - 1 /\ (i - 1) + 1 = i
    BY <1>2, <1>5, <1>8
  <2>2. QED
    BY <2>1, <1>3, <1>4
<1>9. QED
  BY <1>1, <1>6, <1>7, <1>8

-----------------------------------------------------------------------------
\* What a message behind the others means for the two arguments.
LEMMA PostedAlone ==
  ASSUME NEW s \in Seq(Mails), NEW m \in Mails, m.kind # "failed"
  PROVE  /\ Has(Append(s, m), "failed") => Has(s, "failed")
         /\ (\A i, j \in DOMAIN s : s[i].kind = "failed" /\ s[j].kind = "failed" => i = j)
            => \A i, j \in DOMAIN Append(s, m) :
                 Append(s, m)[i].kind = "failed" /\ Append(s, m)[j].kind = "failed" => i = j
<1>1. \A i \in DOMAIN Append(s, m) : Append(s, m)[i].kind = "failed" => i \in DOMAIN s /\ s[i].kind = "failed"
  BY Posted
<1>2. QED
  BY <1>1 DEF Has

\* With no failure on its way, the one posted is the only one.
LEMMA PostedFailure ==
  ASSUME NEW s \in Seq(Mails), NEW m \in Mails, ~Has(s, "failed")
  PROVE  \A i, j \in DOMAIN Append(s, m) :
           Append(s, m)[i].kind = "failed" /\ Append(s, m)[j].kind = "failed" => i = j
<1>1. PICK k \in DOMAIN Append(s, m) : \A i \in DOMAIN Append(s, m) : i \in DOMAIN s \/ i = k
  BY Posted
<1>2. \A i \in DOMAIN Append(s, m) : Append(s, m)[i].kind = "failed" => i = k
  BY <1>1, Posted DEF Has
<1>3. QED
  BY <1>2

\* Behind an end nothing is left to take back.
LEMMA PostedEnd ==
  ASSUME NEW s \in Seq(Mails), NEW m \in Mails, NEW a, End(m)
  PROVE  TakenBack(a, Append(s, m))
<1>1. PICK k \in DOMAIN Append(s, m) :
        /\ Append(s, m)[k] = m
        /\ \A i \in DOMAIN s : i < k
        /\ \A i \in DOMAIN Append(s, m) : i \in DOMAIN s \/ i = k
  BY Posted
<1>2. End(Append(s, m)[k]) /\ Append(s, m)[k].kind # "downloading"
  BY <1>1 DEF End
<1>3. \A i \in DOMAIN Append(s, m) : Append(s, m)[i].kind = "downloading" => k > i
  <2> SUFFICES ASSUME NEW i \in DOMAIN Append(s, m), Append(s, m)[i].kind = "downloading" PROVE k > i
    OBVIOUS
  <2>1. i # k
    BY <1>2
  <2>2. i < k
    BY <1>1, <2>1
  <2>3. QED
    BY <2>2
<1>4. QED
  BY <1>2, <1>3 DEF TakenBack

\* Version information changes nothing that is to be taken back.
LEMMA PostedInfo ==
  ASSUME NEW s \in Seq(Mails), NEW m \in Mails, NEW a, m.kind = "info", TakenBack(a, s)
  PROVE  TakenBack(a, Append(s, m))
<1>1. \A i \in DOMAIN Append(s, m) : Append(s, m)[i].kind = "downloading"
        => i \in DOMAIN s /\ s[i].kind = "downloading"
  BY Posted
<1>2. \A j \in DOMAIN s : End(s[j]) => j \in DOMAIN Append(s, m) /\ End(Append(s, m)[j])
  BY Posted
<1>3. QED
  BY <1>1, <1>2 DEF TakenBack

-----------------------------------------------------------------------------
\* A message is handled.
LEMMA ReceivedAlone ==
  ASSUME NEW s \in Seq(Mails), s # <<>>,
         \A i, j \in DOMAIN s : s[i].kind = "failed" /\ s[j].kind = "failed" => i = j
  PROVE  /\ Has(Tail(s), "failed") => Has(s, "failed")
         /\ \A i, j \in DOMAIN Tail(s) : Tail(s)[i].kind = "failed" /\ Tail(s)[j].kind = "failed" => i = j
         /\ Head(s).kind = "failed" => Has(s, "failed") /\ ~Has(Tail(s), "failed")
<1>1. \A i \in DOMAIN Tail(s) : Tail(s)[i].kind = "failed" => i + 1 \in DOMAIN s /\ s[i + 1].kind = "failed"
  BY Received
<1>2. Has(Tail(s), "failed") => Has(s, "failed")
  BY <1>1 DEF Has
<1>3. ASSUME NEW i \in DOMAIN Tail(s), NEW j \in DOMAIN Tail(s),
             Tail(s)[i].kind = "failed", Tail(s)[j].kind = "failed"
      PROVE  i = j
  <2>1. i + 1 = j + 1
    BY <1>1, <1>3
  <2>2. i \in Nat /\ j \in Nat
    BY Received
  <2>3. QED
    BY <2>1, <2>2
<1>4. ASSUME Head(s).kind = "failed" PROVE Has(s, "failed") /\ ~Has(Tail(s), "failed")
  <2>1. 1 \in DOMAIN s /\ s[1].kind = "failed"
    BY <1>4, Received
  <2>2. ASSUME NEW i \in DOMAIN Tail(s), Tail(s)[i].kind = "failed" PROVE FALSE
    <3>1. i + 1 = 1
      BY <1>1, <2>1, <2>2
    <3>2. i \in Nat /\ i >= 1
      BY Received
    <3>3. QED
      BY <3>1, <3>2
  <2>3. QED
    BY <2>1, <2>2 DEF Has
<1>5. QED
  BY <1>2, <1>3, <1>4

\* The main loop's record after a message is one of three.
LEMMA Learns ==
  ASSUME UpdTypes, HandleMail
  PROVE  /\ app' \in Apps
         /\ Head(mail).kind = "downloading" => app' = [app EXCEPT !.shown = TRUE]
         /\ End(Head(mail)) => app' = [app EXCEPT !.shown = FALSE, !.running = FALSE]
         /\ Head(mail).kind \in {"info", "installed"} => app'.shown = app.shown /\ app'.running = app.running
         /\ ~End(Head(mail)) => app'.running = app.running
<1>1. mail \in Seq(Mails) /\ mail # <<>> /\ app \in Apps
  BY DEF UpdTypes, HandleMail
<1>2. Head(mail) \in Mails
  BY <1>1, Received
<1>3. Head(mail).kind \in Words /\ Head(mail).image \in Images \cup {NoImage}
  BY <1>2 DEF Mails
<1>4. CASE Head(mail).kind = "info"
  <2>1. app' = IF Head(mail).image # NoImage THEN [app EXCEPT !.latest = Head(mail).image] ELSE app
    BY <1>4 DEF HandleMail
  <2>2. QED
    BY <1>1, <1>3, <1>4, <2>1 DEF Apps, End
<1>5. CASE Head(mail).kind = "downloading"
  <2>1. app' = [app EXCEPT !.shown = TRUE]
    BY <1>5 DEF HandleMail, Told
  <2>2. QED
    BY <1>1, <1>5, <2>1 DEF Apps, End
<1>6. CASE Head(mail).kind = "installed"
  <2>1. app' = app
    BY <1>6 DEF HandleMail, Told
  <2>2. QED
    BY <1>1, <1>6, <2>1 DEF Apps, End
<1>7. CASE End(Head(mail))
  <2>1. app' = [app EXCEPT !.shown = FALSE, !.running = FALSE]
    BY <1>7 DEF HandleMail, Told, End
  <2>2. QED
    BY <1>1, <1>7, <2>1 DEF Apps, End
<1>8. QED
  BY <1>3, <1>4, <1>5, <1>6, <1>7 DEF Words, End

\* What a handled report shows is taken back by one behind it.
LEMMA ReceivedBack ==
  ASSUME UpdTypes, HandleMail, TakenBack(app, mail)
  PROVE  TakenBack(app', Tail(mail))
<1> DEFINE s == mail
           r == Tail(mail)
<1>1. s \in Seq(Mails) /\ s # <<>>
  BY DEF UpdTypes, HandleMail
<1>2. ASSUME NEW i \in DOMAIN r, r[i].kind = "downloading"
      PROVE  \E j \in DOMAIN r : j > i /\ End(r[j])
  <2>1. i + 1 \in DOMAIN s /\ s[i + 1].kind = "downloading" /\ i \in Nat /\ i >= 1
    BY <1>1, <1>2, Received
  <2>2. PICK j \in DOMAIN s : j > i + 1 /\ End(s[j])
    BY <2>1 DEF TakenBack
  <2>3. j \in Nat
    BY <1>1, Received
  <2>4. j > 1 /\ j - 1 > i
    BY <2>1, <2>2, <2>3
  <2>5. j - 1 \in DOMAIN r /\ r[j - 1] = s[j]
    BY <1>1, <2>4, Received
  <2>6. QED
    BY <2>2, <2>4, <2>5
<1>3. ASSUME NEW j \in DOMAIN s, End(s[j]), j # 1 PROVE \E k \in DOMAIN r : End(r[k])
  <2>1. j \in Nat /\ j >= 1
    BY <1>1, Received
  <2>2. j > 1
    BY <1>3, <2>1
  <2>3. QED
    BY <1>1, <1>3, <2>2, Received
<1>4. ASSUME app'.shown PROVE \E k \in DOMAIN r : End(r[k])
  <2>1. Head(s) = s[1] /\ 1 \in DOMAIN s /\ Head(s) \in Mails
    BY <1>1, Received
  <2>2. CASE s[1].kind = "downloading"
    <3>1. PICK j \in DOMAIN s : j > 1 /\ End(s[j])
      BY <2>1, <2>2 DEF TakenBack
    <3>2. QED
      BY <3>1, <1>3
  <2>3. CASE End(s[1])
    <3>1. app' = [app EXCEPT !.shown = FALSE, !.running = FALSE] /\ app \in Apps
      BY <2>1, <2>3, Learns DEF UpdTypes
    <3>2. QED
      BY <1>4, <3>1 DEF Apps
  <2>4. CASE s[1].kind \in {"info", "installed"}
    <3>1. app.shown
      BY <1>4, <2>1, <2>4, Learns
    <3>2. PICK j \in DOMAIN s : End(s[j])
      BY <3>1 DEF TakenBack
    <3>3. j # 1
      BY <2>4, <3>2 DEF End
    <3>4. QED
      BY <3>2, <3>3, <1>3
  <2>5. QED
    BY <2>1, <2>2, <2>3, <2>4 DEF Mails, Words, End
<1>5. QED
  BY <1>2, <1>4 DEF TakenBack

-----------------------------------------------------------------------------
\* The steps, one lemma each.
LEMMA StatusIsMail == ASSUME NEW w \in Words PROVE Status(w) \in Mails /\ Status(w).kind = w
BY DEF Status, Mails

\* After a restart no thread and no report is left.
LEMMA InvRestart == ASSUME UpdateInv, RestartUpdate PROVE UpdateInv'
<1>1. mail' = <<>> /\ crossed' = FALSE /\ app' = BootApp /\ download' = Idle
  BY DEF RestartUpdate
<1>2. DOMAIN mail' = {}
  BY <1>1
<1>3. app' \in Apps /\ ~app'.shown
  BY <1>1 DEF BootApp, Apps
<1>4. download' \in Attempts /\ \A t \in Threads : download'[t].at = "none"
  BY <1>1 DEF Idle, Attempts
<1>5. mail' \in Seq(Mails)
  BY <1>1
<1>6. UpdTypes'
  BY <1>1, <1>3, <1>4, <1>5 DEF UpdTypes
<1>7. Alone(download', mail') /\ NoneLeft(download', mail')
  BY <1>2, <1>4 DEF Alone, NoneLeft, Has
<1>8. TakenBack(app', mail')
  BY <1>2, <1>3 DEF TakenBack
<1>9. QED
  BY <1>6, <1>7, <1>8 DEF UpdateInv, OneInv, ShownInv

\* An attempt begins when none is under way.
LEMMA InvSpawn ==
  ASSUME UpdateInv, NEW i \in Images, ~app.running, Spawn(i)
  PROVE  UpdateInv'
<1> USE DEF UpdateInv
<1>1. mail \in Seq(Mails) /\ app \in Apps /\ download \in Attempts /\ crossed \in BOOLEAN
  BY DEF UpdTypes
<1>2. PICK t \in Threads : download' = [download EXCEPT ![t] = [image |-> i, at |-> "http"]]
  BY DEF Spawn, Free
<1>3. mail' = Append(mail, Status("downloading")) /\ app' = [app EXCEPT !.running = TRUE] /\ crossed' = crossed
  BY DEF Spawn, Post
<1>4. Status("downloading") \in Mails /\ Status("downloading").kind = "downloading"
  BY StatusIsMail DEF Words
<1>5. /\ download' \in Attempts
      /\ download'[t].at = "http"
      /\ \A u \in Threads : u # t => download'[u] = download[u]
  BY <1>1, <1>2 DEF Attempts
<1>6. app' \in Apps /\ app'.running
  BY <1>1, <1>3 DEF Apps
<1>7. UpdTypes'
  BY <1>1, <1>3, <1>4, <1>5, <1>6, Posted DEF UpdTypes
<1>8. ASSUME ~crossed PROVE Alone(download', mail')
  <2>1. Alone(download, mail) /\ NoneLeft(download, mail)
    BY <1>8 DEF OneInv
  <2>2. \A u, v \in Threads : download'[u].at # "none" /\ download'[v].at # "none" => u = v
    BY <2>1, <1>5 DEF NoneLeft
  <2>3. ~Has(mail', "failed")
    BY <2>1, <1>1, <1>3, <1>4, PostedAlone DEF NoneLeft
  <2>4. QED
    BY <2>2, <2>3 DEF Alone, Has
<1>9. QED
  BY <1>3, <1>5, <1>6, <1>7, <1>8 DEF OneInv, ShownInv

\* A message that is no failure, while the threads stay as they are.
LEMMA InvPost ==
  ASSUME UpdateInv, NEW m \in Mails, m.kind # "failed",
         mail' = Append(mail, m), UNCHANGED <<app, crossed>>, download' \in Attempts,
         \A t \in Threads : download'[t].at = "none" <=> download[t].at = "none",
         m.kind \in {"info", "rejected"} \/ \E t \in Threads : download[t].at # "none"
  PROVE  UpdateInv'
<1> USE DEF UpdateInv
<1>1. mail \in Seq(Mails) /\ app \in Apps /\ crossed \in BOOLEAN
  BY DEF UpdTypes
<1>2. UpdTypes'
  BY <1>1, Posted DEF UpdTypes
<1>3. Has(mail', "failed") => Has(mail, "failed")
  BY <1>1, PostedAlone
<1>4. Alone(download, mail) => Alone(download', mail')
  BY <1>1, <1>3, PostedAlone DEF Alone
<1>5. NoneLeft(download, mail) => NoneLeft(download', mail')
  BY <1>3 DEF NoneLeft
<1>6. OneInv'
  BY <1>4, <1>5 DEF OneInv
<1>7. ASSUME \A t \in Threads : download'[t].at = "none" PROVE TakenBack(app', mail')
  <2>1. TakenBack(app, mail)
    BY <1>7 DEF ShownInv
  <2>2. CASE m.kind = "info"
    BY <1>1, <2>1, <2>2, PostedInfo
  <2>3. CASE m.kind = "rejected"
    BY <1>1, <2>3, PostedEnd DEF End
  <2>4. QED
    BY <1>7, <2>2, <2>3
<1>8. QED
  BY <1>2, <1>6, <1>7 DEF ShownInv

\* A download that fails posts its failure and ends.
LEMMA InvFail == ASSUME UpdateInv, NEW t \in Threads, Fail(t) PROVE UpdateInv'
<1> USE DEF UpdateInv
<1>1. mail \in Seq(Mails) /\ app \in Apps /\ download \in Attempts /\ crossed \in BOOLEAN
  BY DEF UpdTypes
<1>2. /\ download[t].at # "none"
      /\ download' = [download EXCEPT ![t] = [image |-> NoImage, at |-> "none"]]
      /\ mail' = Append(mail, Status("failed"))
      /\ app' = app /\ crossed' = crossed
  BY DEF Fail, Ends, Post
<1>3. Status("failed") \in Mails /\ Status("failed").kind = "failed"
  BY StatusIsMail DEF Words
<1>4. /\ download' \in Attempts
      /\ download'[t].at = "none"
      /\ \A u \in Threads : u # t => download'[u] = download[u]
  BY <1>1, <1>2 DEF Attempts
<1>5. UpdTypes'
  BY <1>1, <1>2, <1>3, <1>4, Posted DEF UpdTypes
<1>6. ASSUME ~crossed PROVE Alone(download', mail') /\ app.running
  <2>1. Alone(download, mail) /\ (app.running \/ NoneLeft(download, mail))
    BY <1>6 DEF OneInv
  <2>2. app.running
    BY <2>1, <1>2 DEF NoneLeft
  <2>3. ~Has(mail, "failed") /\ \A u \in Threads : u # t => download[u].at = "none"
    BY <2>1, <1>2 DEF Alone
  <2>4. \A u \in Threads : download'[u].at = "none"
    BY <2>3, <1>4
  <2>5. \A i, j \in DOMAIN mail' : mail'[i].kind = "failed" /\ mail'[j].kind = "failed" => i = j
    BY <1>1, <1>2, <1>3, <2>3, PostedFailure
  <2>6. QED
    BY <2>2, <2>4, <2>5 DEF Alone
<1>7. TakenBack(app', mail')
  BY <1>1, <1>2, <1>3, PostedEnd DEF End
<1>8. QED
  BY <1>2, <1>5, <1>6, <1>7 DEF OneInv, ShownInv

\* The main loop takes a report.
LEMMA InvReport == ASSUME UpdateInv, HandleMail PROVE UpdateInv'
<1> USE DEF UpdateInv
<1>1. /\ mail \in Seq(Mails) /\ mail # <<>> /\ app \in Apps /\ download \in Attempts
      /\ mail' = Tail(mail) /\ download' = download
      /\ crossed \in BOOLEAN /\ crossed' = (crossed \/ (Head(mail).kind = "rejected" /\ app.running))
  BY DEF UpdTypes, HandleMail
<1>2. UpdTypes'
  BY <1>1, Received, Learns DEF UpdTypes
<1>3. ASSUME ~crossed'
      PROVE  Alone(download', mail') /\ (app'.running \/ NoneLeft(download', mail'))
  <2>1. ~crossed /\ (Head(mail).kind = "rejected" => ~app.running)
    BY <1>1, <1>3
  <2>2. Alone(download, mail) /\ (app.running \/ NoneLeft(download, mail))
    BY <2>1 DEF OneInv
  <2>3. /\ Has(mail', "failed") => Has(mail, "failed")
        /\ \A i, j \in DOMAIN mail' : mail'[i].kind = "failed" /\ mail'[j].kind = "failed" => i = j
        /\ Head(mail).kind = "failed" => Has(mail, "failed") /\ ~Has(mail', "failed")
    BY <1>1, <2>2, ReceivedAlone DEF Alone
  <2>4. Alone(download', mail')
    BY <1>1, <2>2, <2>3 DEF Alone
  <2>5. NoneLeft(download, mail) => NoneLeft(download', mail')
    BY <1>1, <2>3 DEF NoneLeft
  <2>6. CASE Head(mail).kind = "failed"
    BY <1>1, <2>2, <2>3, <2>4, <2>6 DEF Alone, NoneLeft
  <2>7. CASE Head(mail).kind = "rejected"
    BY <2>1, <2>2, <2>4, <2>5, <2>7
  <2>8. CASE ~End(Head(mail))
    BY <2>2, <2>4, <2>5, <2>8, Learns
  <2>9. QED
    BY <2>6, <2>7, <2>8 DEF End
<1>4. ASSUME \A t \in Threads : download'[t].at = "none" PROVE TakenBack(app', mail')
  <2>1. TakenBack(app, mail)
    BY <1>1, <1>4 DEF ShownInv
  <2>2. QED
    BY <1>1, <2>1, ReceivedBack
<1>5. QED
  BY <1>2, <1>3, <1>4 DEF OneInv, ShownInv

\* Whatever a download thread does.
LEMMA InvDownloads ==
  ASSUME UpdateInv, NEW t \in Threads, BeginWrite(t) \/ Fail(t) \/ Progress(t) \/ Complete(t)
  PROVE  UpdateInv'
<1>1. mail \in Seq(Mails) /\ app \in Apps /\ download \in Attempts /\ crossed \in BOOLEAN
  BY DEF UpdateInv, UpdTypes
<1>2. ASSUME NEW to \in {"writing", "installed"}, Moves(t, to), download[t].at # "none"
      PROVE  download' \in Attempts /\ \A u \in Threads : download'[u].at = "none" <=> download[u].at = "none"
  BY <1>1, <1>2 DEF Moves, Attempts
<1>3. CASE BeginWrite(t)
  <2>1. UNCHANGED <<mail, app, crossed>> /\ Moves(t, "writing") /\ download[t].at # "none"
    BY <1>3 DEF BeginWrite
  <2>2. download' \in Attempts /\ \A u \in Threads : download'[u].at = "none" <=> download[u].at = "none"
    BY <1>2, <2>1
  <2>3. QED
    BY <2>1, <2>2 DEF UpdateInv, UpdTypes, OneInv, ShownInv, Alone, NoneLeft
<1>4. CASE Fail(t)
  BY <1>4, InvFail
<1>5. CASE Progress(t)
  <2>1. /\ download[t].at # "none" /\ mail' = Append(mail, Status("downloading"))
        /\ UNCHANGED <<app, crossed, download>>
    BY <1>5 DEF Progress, Post
  <2>2. Status("downloading") \in Mails /\ Status("downloading").kind # "failed"
    BY StatusIsMail DEF Words
  <2>3. QED
    BY <1>1, <2>1, <2>2, InvPost
<1>6. CASE Complete(t)
  <2>1. /\ download[t].at # "none" /\ mail' = Append(mail, Status("installed"))
        /\ UNCHANGED <<app, crossed>> /\ Moves(t, "installed")
    BY <1>6 DEF Complete, Post
  <2>2. Status("installed") \in Mails /\ Status("installed").kind # "failed"
    BY StatusIsMail DEF Words
  <2>3. QED
    BY <1>2, <2>1, <2>2, InvPost
<1>7. QED
  BY <1>3, <1>4, <1>5, <1>6

\* Whatever Home Assistant or the version check asks.
LEMMA InvRequests == ASSUME UpdateInv, Requests PROVE UpdateInv'
<1>1. mail \in Seq(Mails) /\ app \in Apps /\ download \in Attempts
  BY DEF UpdateInv, UpdTypes
<1>2. ASSUME NEW i \in Images, OtaService(i) PROVE UpdateInv'
  BY <1>2, InvSpawn DEF OtaService
<1>3. CASE OtaServiceRefused
  <2>1. mail' = Append(mail, Status("rejected")) /\ UNCHANGED <<app, crossed, download>>
    BY <1>3 DEF OtaServiceRefused, Post
  <2>2. Status("rejected") \in Mails /\ Status("rejected").kind = "rejected"
    BY StatusIsMail DEF Words
  <2>3. QED
    BY <1>1, <2>1, <2>2, InvPost
<1>4. CASE Install
  <2>1. app.latest \in Images /\ ~app.running /\ Spawn(app.latest)
    BY <1>1, <1>4 DEF Install, MayInstall, Apps
  <2>2. QED
    BY <2>1, InvSpawn
<1>5. ASSUME NEW i \in Images \cup {NoImage}, UpdateCheck(i) PROVE UpdateInv'
  <2>1. mail' = Append(mail, [kind |-> "info", image |-> i]) /\ UNCHANGED <<app, crossed, download>>
    BY <1>5 DEF UpdateCheck, Post
  <2>2. [kind |-> "info", image |-> i] \in Mails
    BY DEF Mails, Words
  <2>3. QED
    BY <1>1, <2>1, <2>2, InvPost
<1>6. QED
  BY <1>2, <1>3, <1>4, <1>5 DEF Requests

\* What leaves the updates alone keeps their invariant.
LEMMA InvSame == ASSUME UpdateInv, UNCHANGED updVars PROVE UpdateInv'
BY DEF UpdateInv, UpdTypes, OneInv, ShownInv, updVars

\* A confirmation concerns no attempt.
LEMMA InvConfirm == ASSUME UpdateInv, Confirm PROVE UpdateInv'
<1>1. UNCHANGED <<download, mail, crossed>> /\ app' = [app EXCEPT !.confirmed = TRUE] /\ app \in Apps
  BY DEF Confirm, UpdateInv, UpdTypes
<1>2. app' \in Apps /\ app'.running = app.running /\ app'.shown = app.shown
  BY <1>1 DEF Apps
<1>3. TakenBack(app, mail) => TakenBack(app', mail')
  BY <1>1, <1>2 DEF TakenBack
<1>4. QED
  BY <1>1, <1>2, <1>3 DEF UpdateInv, UpdTypes, OneInv, ShownInv

\* The board starts without an attempt.
LEMMA InvInit == ASSUME Init PROVE UpdateInv
<1>1. mail = <<>> /\ crossed = FALSE /\ app = BootApp /\ download = Idle
  BY DEF Init, UpdInit
<1>2. DOMAIN mail = {} /\ mail \in Seq(Mails)
  BY <1>1
<1>3. app \in Apps /\ ~app.shown
  BY <1>1 DEF BootApp, Apps
<1>4. download \in Attempts /\ \A t \in Threads : download[t].at = "none"
  BY <1>1 DEF Idle, Attempts
<1>5. Alone(download, mail) /\ NoneLeft(download, mail) /\ TakenBack(app, mail)
  BY <1>2, <1>3, <1>4 DEF Alone, NoneLeft, Has, TakenBack
<1>6. QED
  BY <1>1, <1>2, <1>3, <1>4, <1>5 DEF UpdateInv, UpdTypes, OneInv, ShownInv

\* The inductive invariant of firmware updates, whatever the owner does to the
\* network settings meanwhile and whenever the board restarts.
THEOREM UpdateInvariant == Spec => []UpdateInv
<1>1. Init => UpdateInv
  BY InvInit
<1>2. UpdateInv /\ [Next]_vars => UpdateInv'
  <2> SUFFICES ASSUME UpdateInv, [Next]_vars PROVE UpdateInv'
    OBVIOUS
  <2>1. CASE PowerOn \/ PowerCut \/ RestartButton \/ NewSettings \/ ResetDone \/ NewImage
    <3>1. RestartUpdate
      BY <2>1 DEF PowerOn, PowerCut, RestartButton, NewSettings, ResetDone, NewImage, Restart
    <3>2. QED
      BY <3>1, InvRestart
  <2>2. CASE Settle \/ Owner \/ SaveFails \/ UNCHANGED vars
    <3>1. UNCHANGED updVars
      BY <2>2 DEF Settle, Owner, SaveFails, vars
    <3>2. QED
      BY <3>1, InvSame
  <2>3. CASE Requests
    BY <2>3, InvRequests
  <2>4. CASE Reports
    BY <2>4, InvReport DEF Reports
  <2>5. CASE ConfirmImage
    BY <2>5, InvConfirm DEF ConfirmImage
  <2>6. CASE Downloads
    BY <2>6, InvDownloads DEF Downloads
  <2>7. QED
    BY <2>1, <2>2, <2>3, <2>4, <2>5, <2>6 DEF Next
<1>3. QED
  BY <1>1, <1>2, PTL DEF Spec

\* Never two downloads at a time, unless a refusal was taken for the end of one:
\* for any number of threads, of requests and of messages on their way.
THEOREM LifecycleOneDownload == Spec => []OneDownload
<1>1. UpdateInv => OneDownload
  <2> SUFFICES ASSUME UpdateInv, ~crossed PROVE Cardinality({t \in Threads : Alive(t)}) <= 1
    BY DEF OneDownload
  <2> DEFINE A == {t \in Threads : Alive(t)}
  <2>1. \A t, u \in A : t = u
    BY DEF UpdateInv, OneInv, Alone, Alive
  <2>2. CASE A = {}
    <3>1. Cardinality(A) = 0
      BY <2>2, FS_EmptySet
    <3>2. QED
      BY <3>1
  <2>3. CASE A # {}
    <3>1. PICK t \in A : TRUE
      BY <2>3
    <3>2. A = {t}
      BY <2>1, <3>1
    <3>3. Cardinality(A) = 1
      BY <3>2, FS_Singleton
    <3>4. QED
      BY <3>3
  <2>4. QED
    BY <2>2, <2>3
<1>2. QED
  BY <1>1, UpdateInvariant, PTL

\* Home Assistant is never left with an update that no thread works on: what was
\* shown of it is taken back by a message behind.
THEOREM LifecycleTruthful == Spec => []ProgressTruthful
<1>1. UpdateInv => ProgressTruthful
  <2> SUFFICES ASSUME UpdateInv, mail = <<>>, app.shown PROVE \E t \in Threads : Alive(t)
    BY DEF ProgressTruthful
  <2>1. DOMAIN mail = {}
    OBVIOUS
  <2>2. ~TakenBack(app, mail)
    BY <2>1 DEF TakenBack
  <2>3. QED
    BY <2>2 DEF UpdateInv, ShownInv, Alive
<1>2. QED
  BY <1>1, UpdateInvariant, PTL

-----------------------------------------------------------------------------
(***************************************************************************)
(* The network settings.  The argument is about the steps left to do, as   *)
(* in BoardProofs: which keys they still write and in which order.         *)
(***************************************************************************)
Values == Networks \cup OwnerKeys \cup {SeedNetwork, SeedKey, NoNetwork, None} \cup 0 .. MaxKeys
Nets == [ssid : Values \ {None}, pass : Values, psk : Values]
Marking == Put("mark", SeedNetwork)
Puts == [op : {"put"}, key : {"ssid", "pass", "psk"}, value : Values] \cup {Marking}
Lasts == [op : {"start", "adopt", "wiped"}]
Steps == Puts \cup Lasts

IsPut(s, i, k) == s[i].op = "put" /\ s[i].key = k
Writes(s, k) == \E i \in DOMAIN s : IsPut(s, i, k)
LastOp(s) == s[Len(s)].op

\* Writes, and one step at the end that is none.
Shaped(s) == s # <<>> => s[Len(s)] \in Lasts /\ \A i \in DOMAIN s : i < Len(s) => s[i] \in Puts

ProvTypes ==
  /\ flash \in [{"ssid", "pass", "psk", "mark"} -> Values]
  /\ doing \in [new : Nets, left : Seq(Steps)]
  /\ Shaped(doing.left)
  /\ current \in Nets
  /\ key \in Values
  /\ inbox \in Seq(Nets) /\ (inbox # <<>> => Started)
  /\ restarting \in BOOLEAN /\ broken \in BOOLEAN
  /\ made \in 0 .. MaxKeys
  /\ forgotten \subseteq Networks \cup OwnerKeys \cup {SeedNetwork, SeedKey} \cup 1 .. made
  /\ cuts \in 0 .. MaxCuts /\ fails \in 0 .. MaxFails

Marks(s) == \E i \in DOMAIN s : s[i] = Marking

\* The key written before the mark is the seed's.
Seeds(s) ==
  \A i, j \in DOMAIN s : i < j /\ s[j] = Marking /\ IsPut(s, i, "psk") => s[i].value = SeedKey

\* Until the build-time seed is in flash the board runs the image it was flashed
\* with, writes nothing but the seed and does nothing else.
Phase(s, f) ==
  /\ Started => f.mark = SeedNetwork
  /\ f.mark # SeedNetwork =>
       /\ slots.running \in SeededBuilds /\ slots.next = slots.running /\ ~slots.pending
       /\ \A t \in Threads : ~Alive(t)
       /\ forgotten = {}
       /\ s # <<>> => Marks(s)
       /\ f.psk \in {None, SeedKey} /\ Seeds(s)
  /\ s # <<>> => IF Started THEN LastOp(s) \in {"adopt", "wiped"}
                 ELSE LastOp(s) = "start" /\ doing.new.psk # NoKey

\* What is in use, in flash or about to be written was not forgotten.
NetClean(v, gone) == v = None \/ v \notin gone
KeyClean(v, gone) == v \in {None, NoKey} \/ v \notin gone

Clean(s, f, gone) ==
  /\ NetClean(f.ssid, gone) /\ KeyClean(f.psk, gone)
  /\ \A i \in DOMAIN s : /\ IsPut(s, i, "ssid") => NetClean(s[i].value, gone)
                         /\ IsPut(s, i, "psk") => KeyClean(s[i].value, gone)

Resets(s, f) ==
  s # <<>> /\ LastOp(s) = "wiped" => \A k \in {"ssid", "psk"} :
    /\ \A i \in DOMAIN s : IsPut(s, i, k) => s[i].value = None
    /\ broken \/ f[k] = None \/ Writes(s, k)

ForgetInv ==
  /\ Clean(doing.left, flash, forgotten)
  /\ doing.new.ssid \notin forgotten /\ KeyClean(doing.new.psk, forgotten)
  /\ current.ssid \notin forgotten /\ KeyClean(current.psk, forgotten)
  /\ KeyClean(key, forgotten)
  /\ Resets(doing.left, flash)

\* The network is written before the key.
Ordered(s, f) ==
  s = <<>> \/ LastOp(s) # "wiped" =>
  /\ f.ssid = None => f.psk \in {None, NoKey}
  /\ \A i \in DOMAIN s : IsPut(s, i, "ssid") => s[i].value # None
  /\ \A i \in DOMAIN s : IsPut(s, i, "psk") => f.ssid # None \/ \E j \in DOMAIN s : j < i /\ IsPut(s, j, "ssid")

\* A boot comes to the key it chose, or to none in flash; a save to that of the
\* board, or to a restart.
Booting(s, f) ==
  s # <<>> /\ LastOp(s) = "start" =>
    /\ \A i \in DOMAIN s : IsPut(s, i, "psk") => s[i].value \in {NoKey, doing.new.psk}
    /\ ~broken => f.psk \in {None, NoKey, doing.new.psk}

Saving(s, f) ==
  s # <<>> /\ LastOp(s) = "adopt" =>
    /\ \A i \in DOMAIN s : IsPut(s, i, "psk") => s[i].value = doing.new.psk
    /\ ~broken /\ ~restarting => f.psk \in {None, NoKey, key, doing.new.psk}

Settled(s, f) ==
  s = <<>> /\ ~broken /\ Started /\ ~restarting => f.psk \in {None, NoKey, key}

KeyInv ==
  /\ Started /\ ~restarting => current.psk = key
  /\ ~broken => Ordered(doing.left, flash)
  /\ Booting(doing.left, flash) /\ Saving(doing.left, flash) /\ Settled(doing.left, flash)

\* The inductive invariant of the network settings.
ProvInv == ProvTypes /\ Phase(doing.left, flash) /\ ForgetInv /\ KeyInv

-----------------------------------------------------------------------------
\* The first step is done.
LEMMA Popped ==
  ASSUME NEW s \in Seq(Steps), s # <<>>, Shaped(s), Head(s).op = "put"
  PROVE  /\ Tail(s) \in Seq(Steps) /\ Shaped(Tail(s)) /\ Tail(s) # <<>>
         /\ LastOp(Tail(s)) = LastOp(s)
         /\ Head(s) = s[1] /\ Head(s) \in Puts /\ 1 \in DOMAIN s
         /\ \A i \in DOMAIN Tail(s) : i \in Nat /\ i + 1 \in DOMAIN s /\ Tail(s)[i] = s[i + 1]
         /\ \A i \in DOMAIN s : i \in Nat /\ (i = 1 \/ (i > 1 /\ i - 1 \in DOMAIN Tail(s) /\ Tail(s)[i - 1] = s[i]))
<1>1. Len(s) \in Nat /\ Len(s) >= 1 /\ DOMAIN s = 1 .. Len(s) /\ Head(s) = s[1] /\ Tail(s) \in Seq(Steps)
  OBVIOUS
<1>2. Len(Tail(s)) = Len(s) - 1 /\ DOMAIN Tail(s) = 1 .. Len(s) - 1
  BY <1>1
<1>3. \A i \in 1 .. Len(s) - 1 : Tail(s)[i] = s[i + 1]
  BY <1>1
<1>4. s[Len(s)] \in Lasts /\ \A i \in DOMAIN s : i < Len(s) => s[i] \in Puts
  BY DEF Shaped
<1>5. Len(s) # 1
  <2>1. s[Len(s)].op # "put"
    BY <1>4 DEF Lasts
  <2>2. QED
    BY <1>1, <2>1
<1>6. \A n \in Nat : n >= 1 /\ n # 1 =>
        /\ 1 \in 1 .. n /\ 1 < n /\ n - 1 \in 1 .. n - 1 /\ (n - 1) + 1 = n
        /\ \A i \in 1 .. n - 1 : i + 1 \in 1 .. n /\ i \in Nat /\ (i < n - 1 => i + 1 < n)
        /\ \A i \in 1 .. n : i \in Nat /\ (i = 1 \/ (i > 1 /\ i - 1 \in 1 .. n - 1 /\ (i - 1) + 1 = i))
  OBVIOUS
<1>7. 1 \in DOMAIN s /\ Head(s) \in Puts
  BY <1>1, <1>4, <1>5, <1>6
<1>8. Tail(s) # <<>> /\ LastOp(Tail(s)) = LastOp(s) /\ Tail(s)[Len(Tail(s))] = s[Len(s)]
  <2>1. Len(s) - 1 \in 1 .. Len(s) - 1 /\ (Len(s) - 1) + 1 = Len(s)
    BY <1>1, <1>5, <1>6
  <2>2. Tail(s)[Len(s) - 1] = s[Len(s)]
    BY <1>3, <2>1
  <2>3. Tail(s) # <<>>
    <3>1. Len(Tail(s)) # 0
      BY <1>1, <1>2, <1>5
    <3>2. QED
      BY <3>1, EmptySeq, Zenon
  <2>4. QED
    BY <1>2, <2>2, <2>3 DEF LastOp
<1>9. \A i \in DOMAIN Tail(s) : i \in Nat /\ i + 1 \in DOMAIN s /\ Tail(s)[i] = s[i + 1]
  BY <1>1, <1>2, <1>3, <1>5, <1>6
<1>10. \A i \in DOMAIN s : i \in Nat /\ (i = 1 \/ (i > 1 /\ i - 1 \in DOMAIN Tail(s) /\ Tail(s)[i - 1] = s[i]))
  BY <1>1, <1>2, <1>3, <1>5, <1>6
<1>11. ASSUME NEW i \in DOMAIN Tail(s), i < Len(Tail(s)) PROVE Tail(s)[i] \in Puts
  <2>1. i + 1 < Len(s) /\ i + 1 \in DOMAIN s
    BY <1>1, <1>2, <1>5, <1>6, <1>11
  <2>2. QED
    BY <1>4, <1>9, <2>1
<1>12. Shaped(Tail(s))
  BY <1>4, <1>8, <1>11 DEF Shaped
<1>13. QED
  BY <1>1, <1>7, <1>8, <1>9, <1>10, <1>12

\* The last step is no write.
LEMMA AtEnd ==
  ASSUME NEW s \in Seq(Steps), s # <<>>, Shaped(s), Head(s).op # "put"
  PROVE  Tail(s) = <<>> /\ LastOp(s) = Head(s).op /\ \A i \in DOMAIN s : s[i].op # "put"
<1>1. Len(s) \in Nat /\ Len(s) >= 1 /\ DOMAIN s = 1 .. Len(s) /\ Head(s) = s[1] /\ Tail(s) \in Seq(Steps)
  OBVIOUS
<1>2. s[1].op # "put"
  BY <1>1
<1>3. \A p \in Puts : p.op = "put"
  BY DEF Puts, Marking, Put
<1>4. ~(1 < Len(s))
  BY <1>1, <1>2, <1>3 DEF Shaped
<1>5. Len(s) = 1
  BY <1>1, <1>4
<1>6. Tail(s) = <<>>
  <2>1. Len(Tail(s)) = 0
    BY <1>1, <1>5
  <2>2. QED
    BY <1>1, <2>1, EmptySeq
<1>7. \A i \in DOMAIN s : i = 1
  BY <1>1, <1>5
<1>8. QED
  BY <1>1, <1>2, <1>5, <1>6, <1>7 DEF LastOp

-----------------------------------------------------------------------------
FlashKeys == {"ssid", "pass", "psk", "mark"}

\* The writes of one key, and the only one that marks a seeded build.
LEMMA PutsAre ==
  ASSUME NEW p \in Puts
  PROVE  /\ p.op = "put" /\ p.key \in FlashKeys /\ p.value \in Values
         /\ p.key = "mark" <=> p = Marking
         /\ p = Marking => p.value = SeedNetwork
<1>1. CASE p = Marking
  <2>1. p.op = "put" /\ p.key = "mark" /\ p.value = SeedNetwork
    BY <1>1 DEF Marking, Put
  <2>2. QED
    BY <1>1, <2>1 DEF FlashKeys, Values
<1>2. CASE p \in [op : {"put"}, key : {"ssid", "pass", "psk"}, value : Values]
  <2>1. p.op = "put" /\ p.key \in {"ssid", "pass", "psk"} /\ p.value \in Values
    BY <1>2
  <2>2. p # Marking
    BY <2>1 DEF Marking, Put
  <2>3. QED
    BY <2>1, <2>2 DEF FlashKeys
<1>3. QED
  BY <1>1, <1>2 DEF Puts

\* One write is done: what that makes of flash and of the steps left.
LEMMA Written ==
  ASSUME ProvTypes, Write
  PROVE  /\ doing.left \in Seq(Steps) /\ doing.left # <<>> /\ Shaped(doing.left)
         /\ Head(doing.left) \in Puts /\ Head(doing.left).op = "put"
         /\ doing'.left = Tail(doing.left) /\ doing'.new = doing.new
         /\ doing' \in [new : Nets, left : Seq(Steps)] /\ Shaped(doing'.left)
         /\ doing'.left # <<>> /\ LastOp(doing'.left) = LastOp(doing.left)
         /\ flash' \in [FlashKeys -> Values]
         /\ flash'[Head(doing.left).key] = Head(doing.left).value
         /\ \A k \in FlashKeys : k # Head(doing.left).key => flash'[k] = flash[k]
<1>1. /\ doing \in [new : Nets, left : Seq(Steps)] /\ Shaped(doing.left)
      /\ flash \in [FlashKeys -> Values]
      /\ doing.left # <<>> /\ Head(doing.left).op = "put"
      /\ flash' = [flash EXCEPT ![Head(doing.left).key] = Head(doing.left).value]
      /\ doing' = [doing EXCEPT !.left = Tail(@)]
  BY DEF ProvTypes, Write, Busy, Step, Rest, FlashKeys
<1>2. doing.left \in Seq(Steps)
  BY <1>1
<1>3. /\ Tail(doing.left) \in Seq(Steps) /\ Shaped(Tail(doing.left)) /\ Tail(doing.left) # <<>>
      /\ LastOp(Tail(doing.left)) = LastOp(doing.left) /\ Head(doing.left) \in Puts
  BY <1>1, <1>2, Popped
<1>4. Head(doing.left).key \in FlashKeys /\ Head(doing.left).value \in Values
  BY <1>3, PutsAre
<1>5. doing'.left = Tail(doing.left) /\ doing'.new = doing.new /\ doing' \in [new : Nets, left : Seq(Steps)]
  BY <1>1, <1>3
<1>6. flash' \in [FlashKeys -> Values]
  BY <1>1, <1>4
<1>7. flash'[Head(doing.left).key] = Head(doing.left).value
  BY <1>1, <1>4
<1>8. \A k \in FlashKeys : k # Head(doing.left).key => flash'[k] = flash[k]
  BY <1>1, <1>4
<1>9. QED
  BY <1>1, <1>2, <1>3, <1>5, <1>6, <1>7, <1>8

\* One write of one key reaches flash.
LEMMA InvWrite == ASSUME ProvInv, Write, UNCHANGED <<updVars, faults>> PROVE ProvInv'
<1> DEFINE s == doing.left
           r == Tail(doing.left)
           h == Head(doing.left)
<1> USE DEF ProvInv
<1>1. /\ s \in Seq(Steps) /\ s # <<>> /\ Shaped(s) /\ h \in Puts /\ h.op = "put"
      /\ doing'.left = r /\ doing'.new = doing.new
      /\ r # <<>> /\ LastOp(r) = LastOp(s)
      /\ flash'[h.key] = h.value
      /\ \A k \in FlashKeys : k # h.key => flash'[k] = flash[k]
  BY Written
<1>2. UNCHANGED <<current, key, inbox, restarting, made, forgotten, broken, slots, app, download, mail, crossed, cuts, fails>>
  BY DEF Write, updVars, faults
<1>3. ProvTypes'
  BY <1>2, Written DEF ProvTypes, FlashKeys, Started
<1>4. /\ \A i \in DOMAIN r : i \in Nat /\ i + 1 \in DOMAIN s /\ r[i] = s[i + 1]
      /\ \A i \in DOMAIN s : i \in Nat /\ (i = 1 \/ (i > 1 /\ i - 1 \in DOMAIN r /\ r[i - 1] = s[i]))
      /\ h = s[1] /\ 1 \in DOMAIN s
  BY <1>1, Popped
<1>5. h.key \in FlashKeys /\ (h.key = "mark" <=> h = Marking) /\ (h = Marking => h.value = SeedNetwork)
  BY <1>1, PutsAre
<1> HIDE DEF s, r, h
<1>6. ASSUME NEW k \in FlashKeys
      PROVE  /\ \A i \in DOMAIN r : IsPut(r, i, k) => i + 1 \in DOMAIN s /\ IsPut(s, i + 1, k) /\ r[i].value = s[i + 1].value
             /\ Writes(s, k) => Writes(r, k) \/ h.key = k
             /\ h.key = k => IsPut(s, 1, k) /\ s[1].value = flash'[k]
  <2>1. \A i \in DOMAIN r : IsPut(r, i, k) => i + 1 \in DOMAIN s /\ IsPut(s, i + 1, k) /\ r[i].value = s[i + 1].value
    BY <1>4 DEF IsPut
  <2>2. Writes(s, k) => Writes(r, k) \/ h.key = k
    BY <1>4 DEF IsPut, Writes
  <2>3. h.key = k => IsPut(s, 1, k) /\ s[1].value = flash'[k]
    BY <1>1, <1>4 DEF IsPut
  <2>4. QED
    BY <2>1, <2>2, <2>3
<1>7. {"ssid", "psk", "mark"} \subseteq FlashKeys /\ flash' \in [FlashKeys -> Values]
  BY Written DEF FlashKeys
<1>8. Phase(s, flash) /\ ForgetInv /\ KeyInv
  BY DEF s
<1>9. Phase(r, flash')
  <2>1. CASE h.key = "mark"
    <3>1. flash'.mark = SeedNetwork
      BY <1>1, <1>5, <2>1
    <3>2. QED
      BY <1>1, <1>2, <1>8, <3>1 DEF Phase, Started
  <2>2. CASE h.key # "mark"
    <3>1. flash'.mark = flash.mark
      BY <1>1, <1>7, <2>2
    <3>2. Marks(s) => \E j \in DOMAIN s : s[j] = Marking /\ 1 < j /\ j - 1 \in DOMAIN r /\ r[j - 1] = Marking
      BY <1>4, <1>5, <2>2 DEF Marks
    <3>3. Marks(s) => Marks(r)
      BY <3>2 DEF Marks
    <3>4. Marks(s) /\ Seeds(s) /\ flash.psk \in {None, SeedKey} => flash'.psk \in {None, SeedKey}
      BY <1>1, <1>4, <1>6, <1>7, <3>2 DEF Seeds
    <3>5. ASSUME Seeds(s), NEW i \in DOMAIN r, NEW j \in DOMAIN r, i < j, r[j] = Marking, IsPut(r, i, "psk")
          PROVE  r[i].value = SeedKey
      <4>1. i + 1 \in DOMAIN s /\ j + 1 \in DOMAIN s /\ i + 1 < j + 1 /\ s[j + 1] = Marking
        BY <1>4, <3>5
      <4>2. QED
        BY <1>6, <1>7, <3>5, <4>1 DEF Seeds
    <3>6. Seeds(s) => Seeds(r)
      BY <3>5 DEF Seeds
    <3>7. QED
      BY <1>1, <1>2, <1>8, <3>1, <3>3, <3>4, <3>6 DEF Phase, Started, Alive
  <2>3. QED
    BY <2>1, <2>2
<1>10. Clean(r, flash', forgotten)
  <2>1. Clean(s, flash, forgotten)
    BY <1>8 DEF ForgetInv, s
  <2>2. NetClean(flash'.ssid, forgotten)
    BY <1>1, <1>4, <1>6, <1>7, <2>1 DEF Clean
  <2>3. KeyClean(flash'.psk, forgotten)
    BY <1>1, <1>4, <1>6, <1>7, <2>1 DEF Clean
  <2>4. ASSUME NEW i \in DOMAIN r PROVE IsPut(r, i, "ssid") => NetClean(r[i].value, forgotten)
    BY <1>6, <1>7, <2>1 DEF Clean
  <2>5. ASSUME NEW i \in DOMAIN r PROVE IsPut(r, i, "psk") => KeyClean(r[i].value, forgotten)
    BY <1>6, <1>7, <2>1 DEF Clean
  <2>6. QED
    BY <2>2, <2>3, <2>4, <2>5 DEF Clean
<1>11. Resets(r, flash')
  <2> SUFFICES ASSUME LastOp(s) = "wiped", NEW k \in {"ssid", "psk"}
               PROVE  /\ \A i \in DOMAIN r : IsPut(r, i, k) => r[i].value = None
                      /\ broken \/ flash'[k] = None \/ Writes(r, k)
    BY <1>1 DEF Resets
  <2>1. (\A i \in DOMAIN s : IsPut(s, i, k) => s[i].value = None) /\ (broken \/ flash[k] = None \/ Writes(s, k)) /\ k \in FlashKeys
    BY <1>1, <1>7, <1>8 DEF ForgetInv, Resets, s
  <2>2. \A i \in DOMAIN r : IsPut(r, i, k) => r[i].value = None
    BY <1>6, <2>1
  <2>3. CASE h.key = k
    BY <1>4, <1>6, <2>1, <2>2, <2>3
  <2>4. CASE h.key # k
    BY <1>1, <1>6, <2>1, <2>2, <2>4
  <2>5. QED
    BY <2>3, <2>4
<1>12. ForgetInv'
  <2>1. Resets(doing.left, flash)'
    BY <1>1, <1>2, <1>11 DEF Resets, Writes, IsPut, LastOp
  <2>2. QED
    BY <1>1, <1>2, <1>8, <1>10, <2>1 DEF ForgetInv
<1>13. Ordered(s, flash) => Ordered(r, flash')
  <2> SUFFICES ASSUME Ordered(s, flash), LastOp(s) # "wiped" PROVE Ordered(r, flash')
    BY <1>1 DEF Ordered
  <2>1. /\ flash.ssid = None => flash.psk \in {None, NoKey}
        /\ \A i \in DOMAIN s : IsPut(s, i, "ssid") => s[i].value # None
        /\ \A i \in DOMAIN s : IsPut(s, i, "psk") => flash.ssid # None \/ \E j \in DOMAIN s : j < i /\ IsPut(s, j, "ssid")
    BY <1>1 DEF Ordered
  <2>2. flash.ssid # None => flash'.ssid # None
    BY <1>1, <1>4, <1>6, <1>7, <2>1
  <2>3. h.key = "ssid" => flash'.ssid # None
    BY <1>4, <1>6, <1>7, <2>1
  <2>4. h.key = "psk" => flash.ssid # None
    BY <1>4, <1>6, <1>7, <2>1
  <2>5. flash'.ssid = None => flash'.psk \in {None, NoKey}
    BY <1>1, <1>7, <2>1, <2>2, <2>4
  <2>6. \A i \in DOMAIN r : IsPut(r, i, "ssid") => r[i].value # None
    BY <1>6, <1>7, <2>1
  <2>7. ASSUME NEW i \in DOMAIN r, IsPut(r, i, "psk"), flash'.ssid = None
        PROVE  \E j \in DOMAIN r : j < i /\ IsPut(r, j, "ssid")
    <3>1. flash.ssid = None /\ h.key # "ssid" /\ i + 1 \in DOMAIN s /\ IsPut(s, i + 1, "psk") /\ i \in Nat
      BY <1>4, <1>6, <1>7, <2>2, <2>3, <2>7
    <3>2. PICK j \in DOMAIN s : j < i + 1 /\ IsPut(s, j, "ssid")
      BY <2>1, <3>1
    <3>3. j # 1
      BY <1>4, <3>1, <3>2 DEF IsPut
    <3>4. j - 1 \in DOMAIN r /\ r[j - 1] = s[j] /\ j \in Nat
      BY <1>4, <3>3
    <3>5. j - 1 < i
      BY <3>1, <3>2, <3>4
    <3>6. IsPut(r, j - 1, "ssid")
      BY <3>2, <3>4 DEF IsPut
    <3>7. QED
      BY <3>4, <3>5, <3>6
  <2>8. QED
    BY <2>5, <2>6, <2>7 DEF Ordered
<1>14. Booting(r, flash')
  <2> SUFFICES ASSUME LastOp(s) = "start" PROVE Booting(r, flash')
    BY <1>1 DEF Booting
  <2>1. /\ \A i \in DOMAIN s : IsPut(s, i, "psk") => s[i].value \in {NoKey, doing.new.psk}
        /\ ~broken => flash.psk \in {None, NoKey, doing.new.psk}
    BY <1>1, <1>8 DEF KeyInv, Booting, s
  <2>2. \A i \in DOMAIN r : IsPut(r, i, "psk") => r[i].value \in {NoKey, doing.new.psk}
    BY <1>6, <1>7, <2>1
  <2>3. h.key = "psk" => flash'.psk \in {NoKey, doing.new.psk}
    BY <1>4, <1>6, <1>7, <2>1
  <2>4. h.key # "psk" => flash'.psk = flash.psk
    BY <1>1, <1>7
  <2>5. QED
    BY <1>1, <1>2, <2>1, <2>2, <2>3, <2>4 DEF Booting
<1>15. Saving(r, flash')
  <2> SUFFICES ASSUME LastOp(s) = "adopt" PROVE Saving(r, flash')
    BY <1>1 DEF Saving
  <2>1. /\ \A i \in DOMAIN s : IsPut(s, i, "psk") => s[i].value = doing.new.psk
        /\ ~broken /\ ~restarting => flash.psk \in {None, NoKey, key, doing.new.psk}
    BY <1>1, <1>8 DEF KeyInv, Saving, s
  <2>2. \A i \in DOMAIN r : IsPut(r, i, "psk") => r[i].value = doing.new.psk
    BY <1>6, <1>7, <2>1
  <2>3. h.key = "psk" => flash'.psk = doing.new.psk
    BY <1>4, <1>6, <1>7, <2>1
  <2>4. h.key # "psk" => flash'.psk = flash.psk
    BY <1>1, <1>7
  <2>5. QED
    BY <1>1, <1>2, <2>1, <2>2, <2>3, <2>4 DEF Saving
<1>16. Booting(doing.left, flash)' /\ Saving(doing.left, flash)'
  BY <1>1, <1>2, <1>14, <1>15 DEF Booting, Saving
<1>17. Ordered(doing.left, flash)' <=> Ordered(r, flash')
  BY <1>1
<1>18. KeyInv'
  BY <1>1, <1>2, <1>8, <1>13, <1>16, <1>17 DEF KeyInv, Settled, Started, s
<1>19. Phase(doing.left, flash)'
  BY <1>1, <1>2, <1>9 DEF Phase, Started, Alive
<1>20. QED
  BY <1>3, <1>12, <1>18, <1>19

-----------------------------------------------------------------------------
\* A sequence of one step that is no write.
LEMMA OneLeft ==
  ASSUME NEW l \in Lasts
  PROVE  /\ <<l>> \in Seq(Steps) /\ Shaped(<<l>>) /\ <<l>> # <<>> /\ LastOp(<<l>>) = l.op
         /\ \A i \in DOMAIN <<l>> : \A k : ~IsPut(<<l>>, i, k)
<1>1. l \in Steps /\ l.op # "put"
  BY DEF Steps, Lasts
<1>2. Len(<<l>>) = 1 /\ DOMAIN <<l>> = {1} /\ <<l>>[1] = l /\ <<l>> \in Seq(Steps) /\ <<l>> # <<>>
  BY <1>1
<1>3. QED
  BY <1>1, <1>2 DEF Shaped, LastOp, IsPut

\* A step that is there is the last one, unless it is a write.
LEMMA LeftAtEnd ==
  ASSUME NEW s \in Seq(Steps), s # <<>>, Shaped(s)
  PROVE  /\ Len(s) \in DOMAIN s /\ s[Len(s)] \in Lasts
         /\ \A op : op # "put" /\ (\E i \in DOMAIN s : s[i].op = op) => LastOp(s) = op
<1>1. Len(s) \in Nat /\ DOMAIN s = 1 .. Len(s) /\ Len(s) # 0
  BY EmptySeq, LenProperties
<1>2. \A i \in DOMAIN s : i = Len(s) \/ s[i] \in Puts
  BY <1>1 DEF Shaped
<1>3. \A p \in Puts : p.op = "put"
  BY DEF Puts, Marking, Put
<1>4. QED
  BY <1>1, <1>2, <1>3 DEF Shaped, LastOp

\* A write of a factory reset fails, and the next one is tried.
LEMMA InvResetFails ==
  ASSUME ProvInv, WriteFails, Left("wiped"), UNCHANGED <<updVars, cuts>>, fails > 0, fails' = fails - 1
  PROVE  ProvInv'
<1> DEFINE s == doing.left
           r == Tail(doing.left)
<1> USE DEF ProvInv
<1>1. /\ s \in Seq(Steps) /\ s # <<>> /\ Shaped(s) /\ doing \in [new : Nets, left : Seq(Steps)]
      /\ doing' = [doing EXCEPT !.left = Tail(@)] /\ Head(s).op = "put"
      /\ broken' = TRUE
      /\ UNCHANGED <<flash, current, key, inbox, restarting, made, forgotten, slots, app, download, mail, crossed, cuts>>
  BY DEF ProvTypes, WriteFails, updVars, Busy, Step
<1>2. /\ r \in Seq(Steps) /\ Shaped(r) /\ r # <<>> /\ LastOp(r) = LastOp(s)
      /\ \A i \in DOMAIN r : i + 1 \in DOMAIN s /\ r[i] = s[i + 1]
  BY <1>1, Popped
<1>3. LastOp(s) = "wiped"
  BY <1>1, LeftAtEnd DEF Left
<1>4. doing'.left = r /\ doing'.new = doing.new /\ doing' \in [new : Nets, left : Seq(Steps)]
  BY <1>1, <1>2
<1>5. fails' \in 0 .. MaxFails
  <2>1. fails \in 0 .. MaxFails /\ MaxFails \in Nat
    BY LifecycleAssumption DEF ProvTypes
  <2>2. QED
    BY <2>1
<1> HIDE DEF s, r
<1>6. Phase(s, flash) /\ ForgetInv /\ KeyInv /\ ProvTypes
  BY DEF s
<1>7. Started /\ flash.mark = SeedNetwork
  BY <1>1, <1>3, <1>6 DEF Phase
<1>8. ProvTypes'
  BY <1>1, <1>2, <1>4, <1>5, <1>6 DEF ProvTypes, Started
<1>9. Phase(doing.left, flash)'
  BY <1>1, <1>2, <1>3, <1>4, <1>7 DEF Phase, Started
<1>10. \A i \in DOMAIN r : \A k : IsPut(r, i, k) => IsPut(s, i + 1, k) /\ r[i].value = s[i + 1].value
  BY <1>2 DEF IsPut
<1>11. ForgetInv'
  <2>1. Clean(s, flash, forgotten) /\ Resets(s, flash)
    BY <1>6 DEF ForgetInv, s
  <2>2. Clean(r, flash, forgotten)
    BY <1>2, <1>10, <2>1 DEF Clean
  <2>3. \A k \in {"ssid", "psk"} : \A i \in DOMAIN r : IsPut(r, i, k) => r[i].value = None
    BY <1>1, <1>2, <1>3, <1>10, <2>1 DEF Resets
  <2>4. Resets(doing.left, flash)'
    BY <1>1, <1>4, <2>3 DEF Resets
  <2>5. QED
    BY <1>1, <1>4, <1>6, <2>2, <2>4 DEF ForgetInv
<1>12. KeyInv'
  BY <1>1, <1>2, <1>3, <1>4, <1>6 DEF KeyInv, Booting, Saving, Settled, Started
<1>13. QED
  BY <1>8, <1>9, <1>11, <1>12

\* A write of the seed fails, and the board stands still.
LEMMA InvSeedFails ==
  ASSUME ProvInv, WriteFails, ~Left("wiped"), Seeding, UNCHANGED <<updVars, cuts>>, fails > 0, fails' = fails - 1
  PROVE  ProvInv'
<1> DEFINE s == doing.left
<1> USE DEF ProvInv
<1>1. /\ s \in Seq(Steps) /\ s # <<>> /\ Shaped(s) /\ doing \in [new : Nets, left : Seq(Steps)]
      /\ doing' = [doing EXCEPT !.left = <<>>] /\ ~Started
      /\ broken' = broken
      /\ UNCHANGED <<flash, current, key, inbox, restarting, made, forgotten, slots, app, download, mail, crossed, cuts>>
  BY DEF ProvTypes, WriteFails, Seeding, updVars, Busy
<1>2. <<>> \in Seq(Steps)
  OBVIOUS
<1>3. doing'.left = <<>> /\ doing'.new = doing.new /\ doing' \in [new : Nets, left : Seq(Steps)]
  BY <1>1, <1>2
<1>4. DOMAIN doing'.left = {}
  BY <1>3
<1>5. fails' \in 0 .. MaxFails
  <2>1. fails \in 0 .. MaxFails /\ MaxFails \in Nat
    BY LifecycleAssumption DEF ProvTypes
  <2>2. QED
    BY <2>1
<1>6. LastOp(s) # "wiped"
  BY <1>1, LeftAtEnd DEF Left, LastOp
<1> HIDE DEF s
<1>7. Phase(s, flash) /\ ForgetInv /\ KeyInv /\ ProvTypes
  BY DEF s
<1>8. ProvTypes'
  BY <1>1, <1>3, <1>5, <1>7 DEF ProvTypes, Started, Shaped
<1>9. Phase(doing.left, flash)'
  BY <1>1, <1>3, <1>4, <1>7 DEF Phase, Started, Alive, Seeds
<1>10. ForgetInv'
  <2>1. Clean(s, flash, forgotten)
    BY <1>7 DEF ForgetInv, s
  <2>2. Clean(doing'.left, flash, forgotten)
    BY <1>4, <2>1 DEF Clean
  <2>3. QED
    BY <1>1, <1>3, <1>7, <2>2 DEF ForgetInv, Resets
<1>11. Ordered(doing.left, flash)' <=> Ordered(doing'.left, flash)
  BY <1>1
<1>12. ~broken => Ordered(doing'.left, flash)
  BY <1>1, <1>4, <1>6, <1>7 DEF KeyInv, Ordered, s
<1>13. KeyInv'
  BY <1>1, <1>3, <1>7, <1>11, <1>12 DEF KeyInv, Booting, Saving, Settled, Started
<1>14. QED
  BY <1>8, <1>9, <1>10, <1>13

\* A write of a save fails, and the rest of it is not written.
LEMMA InvSaveFails ==
  ASSUME ProvInv, WriteFails, ~Left("wiped"), ~Seeding, UNCHANGED <<updVars, cuts>>, fails > 0, fails' = fails - 1
  PROVE  ProvInv'
<1> DEFINE s == doing.left
           l == s[Len(s)]
<1> USE DEF ProvInv
<1>1. /\ s \in Seq(Steps) /\ s # <<>> /\ Shaped(s) /\ doing \in [new : Nets, left : Seq(Steps)]
      /\ doing' = [doing EXCEPT !.left = <<@[Len(@)]>>]
      /\ broken' = broken
      /\ UNCHANGED <<flash, current, key, inbox, restarting, made, forgotten, slots, app, download, mail, crossed, cuts>>
      /\ Started \/ ~Marks(s)
  BY DEF ProvTypes, WriteFails, Seeding, Marks, updVars, Busy, Marking
<1>2. l \in Lasts /\ LastOp(s) # "wiped"
  BY <1>1, LeftAtEnd DEF Left, LastOp
<1>3. doing'.left = <<l>> /\ doing'.new = doing.new
  BY <1>1
<1>4. /\ <<l>> \in Seq(Steps) /\ Shaped(<<l>>) /\ <<l>> # <<>> /\ LastOp(<<l>>) = LastOp(s)
      /\ \A i \in DOMAIN <<l>> : \A k : ~IsPut(<<l>>, i, k)
  BY <1>2, OneLeft DEF LastOp
<1>5. fails' \in 0 .. MaxFails
  <2>1. fails \in 0 .. MaxFails /\ MaxFails \in Nat
    BY LifecycleAssumption DEF ProvTypes
  <2>2. QED
    BY <2>1
<1>6. doing' \in [new : Nets, left : Seq(Steps)]
  BY <1>1, <1>2, OneLeft
<1> HIDE DEF s, l
<1>7. Phase(s, flash) /\ ForgetInv /\ KeyInv /\ ProvTypes
  BY DEF s
<1>8. ProvTypes'
  BY <1>1, <1>3, <1>4, <1>5, <1>6, <1>7 DEF ProvTypes, Started
<1>9. Phase(doing.left, flash)'
  <2>1. flash.mark = SeedNetwork
    BY <1>1, <1>7 DEF Phase
  <2>2. QED
    BY <1>1, <1>3, <1>4, <1>7, <2>1 DEF Phase, Started
<1>10. ForgetInv'
  <2>1. Clean(s, flash, forgotten) /\ ForgetInv
    BY <1>7 DEF ForgetInv, s
  <2>2. Clean(<<l>>, flash, forgotten)
    BY <1>4, <2>1 DEF Clean
  <2>3. Resets(doing.left, flash)'
    BY <1>2, <1>3, <1>4 DEF Resets
  <2>4. QED
    BY <1>1, <1>3, <2>1, <2>2, <2>3 DEF ForgetInv
<1>11. Ordered(s, flash) => Ordered(<<l>>, flash)
  BY <1>1, <1>2, <1>4 DEF Ordered
<1>12. Booting(doing.left, flash)'
  <2>1. LastOp(s) = "start" /\ ~broken => flash.psk \in {None, NoKey, doing.new.psk}
    BY <1>1, <1>7 DEF KeyInv, Booting, s
  <2>2. QED
    BY <1>1, <1>3, <1>4, <2>1 DEF Booting
<1>13. Saving(doing.left, flash)'
  <2>1. LastOp(s) = "adopt" /\ ~broken /\ ~restarting => flash.psk \in {None, NoKey, key, doing.new.psk}
    BY <1>1, <1>7 DEF KeyInv, Saving, s
  <2>2. QED
    BY <1>1, <1>3, <1>4, <2>1 DEF Saving
<1>14. Ordered(doing.left, flash)' <=> Ordered(<<l>>, flash)
  BY <1>1, <1>3
<1>15. KeyInv'
  BY <1>1, <1>3, <1>4, <1>7, <1>11, <1>12, <1>13, <1>14 DEF KeyInv, Settled, Started, s
<1>16. QED
  BY <1>8, <1>9, <1>10, <1>15

\* Nothing is left to do: what remains of the invariant.
LEMMA InvIdle ==
  ASSUME ProvTypes', doing'.left = <<>>, UNCHANGED <<flash, forgotten, broken>>,
         flash.mark = SeedNetwork, Clean(doing.left, flash, forgotten),
         doing'.new.ssid \notin forgotten, KeyClean(doing'.new.psk, forgotten),
         current'.ssid \notin forgotten, KeyClean(current'.psk, forgotten), KeyClean(key', forgotten),
         Started' /\ ~restarting' => current'.psk = key',
         ~broken => (flash.ssid = None => flash.psk \in {None, NoKey}),
         ~broken /\ Started' /\ ~restarting' => flash.psk \in {None, NoKey, key'}
  PROVE  ProvInv'
<1>1. DOMAIN doing'.left = {}
  OBVIOUS
<1>2. Phase(doing.left, flash)'
  BY DEF Phase
<1>3. Clean(doing'.left, flash, forgotten)
  BY <1>1 DEF Clean
<1>4. ForgetInv'
  BY <1>3 DEF ForgetInv, Resets
<1>5. Ordered(doing'.left, flash) <=> Ordered(doing.left, flash)'
  OBVIOUS
<1>6. ~broken => Ordered(doing'.left, flash)
  BY <1>1 DEF Ordered
<1>7. KeyInv'
  BY <1>5, <1>6 DEF KeyInv, Booting, Saving, Settled
<1>8. QED
  BY <1>2, <1>4, <1>7 DEF ProvInv

\* The end of a boot: the settings are taken into use.
LEMMA InvStart == ASSUME ProvInv, Start, UNCHANGED <<updVars, faults>> PROVE ProvInv'
<1> USE DEF ProvInv
<1>1. /\ doing.left \in Seq(Steps) /\ doing.left # <<>> /\ Shaped(doing.left)
      /\ doing \in [new : Nets, left : Seq(Steps)] /\ Head(doing.left).op = "start"
      /\ doing' = [doing EXCEPT !.left = Tail(@)] /\ current' = doing.new /\ key' = doing.new.psk
      /\ UNCHANGED <<flash, inbox, restarting, made, forgotten, broken, cuts, fails>>
  BY DEF ProvTypes, Start, Busy, Step, Rest, faults
<1>2. doing'.left = <<>> /\ doing'.new = doing.new /\ LastOp(doing.left) = "start"
      /\ \A i \in DOMAIN doing.left : doing.left[i].op # "put"
  BY <1>1, AtEnd
<1>3. ~\E i \in DOMAIN doing.left : doing.left[i] = Marking
  BY <1>2 DEF Marking, Put
<1>4. flash.mark = SeedNetwork /\ ~Started /\ doing.new.psk # NoKey
  BY <1>1, <1>2, <1>3 DEF Phase, Marks
<1>5. doing.new \in Nets /\ doing.new.psk \in Values /\ <<>> \in Seq(Steps)
  BY <1>1 DEF Nets
<1>6. ProvTypes'
  <2>1. doing' \in [new : Nets, left : Seq(Steps)]
    BY <1>1, <1>2, <1>5
  <2>2. Shaped(doing'.left)
    BY <1>2 DEF Shaped
  <2>3. QED
    BY <1>1, <1>4, <1>5, <2>1, <2>2 DEF ProvTypes, Started
<1>7. ~broken => flash.psk \in {None, NoKey, doing.new.psk}
  BY <1>1, <1>2 DEF KeyInv, Booting, Writes, IsPut
<1>8. ~broken => (flash.ssid = None => flash.psk \in {None, NoKey})
  BY <1>1, <1>2 DEF KeyInv, Ordered
<1>9. QED
  BY <1>1, <1>2, <1>4, <1>6, <1>7, <1>8, InvIdle DEF ForgetInv

\* The end of a save: its settings are used, a new key after a restart.
LEMMA InvAdopt == ASSUME ProvInv, Adopt, UNCHANGED <<updVars, faults>> PROVE ProvInv'
<1> USE DEF ProvInv
<1>1. /\ doing.left \in Seq(Steps) /\ doing.left # <<>> /\ Shaped(doing.left)
      /\ doing \in [new : Nets, left : Seq(Steps)] /\ Head(doing.left).op = "adopt"
      /\ doing' = [doing EXCEPT !.left = Tail(@)] /\ current' = doing.new
      /\ restarting' = (restarting \/ doing.new.psk # current.psk) /\ restarting \in BOOLEAN
      /\ UNCHANGED <<flash, inbox, key, made, forgotten, broken, cuts, fails>>
  BY DEF ProvTypes, Adopt, NeedsRestart, Busy, Step, Rest, faults
<1>2. doing'.left = <<>> /\ doing'.new = doing.new /\ LastOp(doing.left) = "adopt"
  BY <1>1, AtEnd
<1>3. Started /\ flash.mark = SeedNetwork
  BY <1>1, <1>2 DEF Phase
<1>4. doing.new \in Nets /\ <<>> \in Seq(Steps)
  BY <1>1
<1>5. ProvTypes'
  <2>1. doing' \in [new : Nets, left : Seq(Steps)]
    BY <1>1, <1>2, <1>4
  <2>2. Shaped(doing'.left)
    BY <1>2 DEF Shaped
  <2>3. QED
    BY <1>1, <1>3, <1>4, <2>1, <2>2 DEF ProvTypes, Started
<1>6. ~restarting' => ~restarting /\ current.psk = key /\ doing.new.psk = key
  BY <1>1, <1>3 DEF KeyInv
<1>7. ~broken /\ ~restarting => flash.psk \in {None, NoKey, key, doing.new.psk}
  BY <1>1, <1>2 DEF KeyInv, Saving
<1>8. ~broken => (flash.ssid = None => flash.psk \in {None, NoKey})
  BY <1>1, <1>2 DEF KeyInv, Ordered
<1>9. QED
  BY <1>1, <1>2, <1>3, <1>5, <1>6, <1>7, <1>8, InvIdle DEF ForgetInv

-----------------------------------------------------------------------------
\* Steps that write these settings, each network before its key.
Writing(s, nets) ==
  /\ \A i \in DOMAIN s : IsPut(s, i, "ssid") => \E n \in nets : s[i].value = n.ssid
  /\ \A i \in DOMAIN s : IsPut(s, i, "psk") => \E n \in nets : s[i].value = n.psk
  /\ \A i \in DOMAIN s : IsPut(s, i, "psk") => \E j \in DOMAIN s : j < i /\ IsPut(s, j, "ssid")

\* A sequence joined of two holds the elements of both, in order.
LEMMA Joined ==
  ASSUME NEW S, NEW t \in Seq(S), NEW u \in Seq(S)
  PROVE  /\ t \o u \in Seq(S) /\ Len(t) \in Nat
         /\ \A i \in DOMAIN t : i \in DOMAIN (t \o u) /\ (t \o u)[i] = t[i] /\ i \in Nat
         /\ \A i \in DOMAIN u : i + Len(t) \in DOMAIN (t \o u) /\ (t \o u)[i + Len(t)] = u[i] /\ i \in Nat
         /\ \A k \in DOMAIN (t \o u) : k \in DOMAIN t \/ \E i \in DOMAIN u : k = i + Len(t)
<1>1. /\ t \o u \in Seq(S) /\ Len(t) \in Nat /\ Len(u) \in Nat /\ Len(t \o u) = Len(t) + Len(u)
      /\ \A i \in 1 .. Len(t) + Len(u) : (t \o u)[i] = IF i <= Len(t) THEN t[i] ELSE u[i - Len(t)]
  BY ConcatProperties, LenProperties
<1>2. DOMAIN t = 1 .. Len(t) /\ DOMAIN u = 1 .. Len(u) /\ DOMAIN (t \o u) = 1 .. Len(t) + Len(u)
  BY <1>1, LenProperties
<1>3. \A m, n \in Nat :
        /\ \A i \in 1 .. m : i \in 1 .. m + n /\ i <= m /\ i \in Nat
        /\ \A i \in 1 .. n : i + m \in 1 .. m + n /\ ~(i + m <= m) /\ (i + m) - m = i /\ i \in Nat
        /\ \A k \in 1 .. m + n : k \in 1 .. m \/ (k - m \in 1 .. n /\ k = (k - m) + m)
  OBVIOUS
<1>4. \A i \in DOMAIN t : i \in DOMAIN (t \o u) /\ (t \o u)[i] = t[i] /\ i \in Nat
  BY <1>1, <1>2, <1>3
<1>5. \A i \in DOMAIN u : i + Len(t) \in DOMAIN (t \o u) /\ (t \o u)[i + Len(t)] = u[i] /\ i \in Nat
  BY <1>1, <1>2, <1>3
<1>6. ASSUME NEW k \in DOMAIN (t \o u)
      PROVE  k \in DOMAIN t \/ \E i \in DOMAIN u : k = i + Len(t)
  <2>1. k \in 1 .. Len(t) \/ (k - Len(t) \in 1 .. Len(u) /\ k = (k - Len(t)) + Len(t))
    BY <1>1, <1>2, <1>3
  <2>2. CASE k \in 1 .. Len(t)
    BY <1>2, <2>2
  <2>3. CASE k - Len(t) \in 1 .. Len(u) /\ k = (k - Len(t)) + Len(t)
    BY <1>2, <2>3, Zenon
  <2>4. QED
    BY <2>1, <2>2, <2>3
<1>7. QED
  BY <1>1, <1>4, <1>5, <1>6

\* Steps joined of two write what both do.
LEMMA WritingJoined ==
  ASSUME NEW t \in Seq(Steps), NEW u \in Seq(Steps), NEW N, NEW M, Writing(t, N), Writing(u, M)
  PROVE  /\ Writing(t \o u, N \cup M)
         /\ \A k : Writes(t, k) \/ Writes(u, k) => Writes(t \o u, k)
         /\ Marks(t) \/ Marks(u) => Marks(t \o u)
<1> DEFINE s == t \o u
<1>1. /\ \A i \in DOMAIN t : i \in DOMAIN s /\ s[i] = t[i] /\ i \in Nat
      /\ \A i \in DOMAIN u : i + Len(t) \in DOMAIN s /\ s[i + Len(t)] = u[i] /\ i \in Nat
      /\ \A k \in DOMAIN s : k \in DOMAIN t \/ \E i \in DOMAIN u : k = i + Len(t)
      /\ Len(t) \in Nat
  BY Joined
<1> HIDE DEF s
<1>2. \A k : Writes(t, k) \/ Writes(u, k) => Writes(s, k)
  BY <1>1 DEF Writes, IsPut
<1>3. Marks(t) \/ Marks(u) => Marks(s)
  BY <1>1 DEF Marks
<1>4. ASSUME NEW k \in DOMAIN s
      PROVE  /\ IsPut(s, k, "ssid") => \E n \in N \cup M : s[k].value = n.ssid
             /\ IsPut(s, k, "psk") => \E n \in N \cup M : s[k].value = n.psk
             /\ IsPut(s, k, "psk") => \E j \in DOMAIN s : j < k /\ IsPut(s, j, "ssid")
  <2>1. CASE k \in DOMAIN t
    <3>1. s[k] = t[k]
      BY <1>1, <2>1
    <3>2. IsPut(s, k, "psk") => \E j \in DOMAIN s : j < k /\ IsPut(s, j, "ssid")
      BY <1>1, <2>1, <3>1 DEF Writing, IsPut
    <3>3. QED
      BY <2>1, <3>1, <3>2 DEF Writing, IsPut
  <2>2. ASSUME NEW i \in DOMAIN u, k = i + Len(t)
        PROVE  /\ IsPut(s, k, "ssid") => \E n \in N \cup M : s[k].value = n.ssid
               /\ IsPut(s, k, "psk") => \E n \in N \cup M : s[k].value = n.psk
               /\ IsPut(s, k, "psk") => \E j \in DOMAIN s : j < k /\ IsPut(s, j, "ssid")
    <3>1. s[k] = u[i]
      BY <1>1, <2>2
    <3>2. ASSUME IsPut(s, k, "psk") PROVE \E j \in DOMAIN s : j < k /\ IsPut(s, j, "ssid")
      <4>1. PICK j \in DOMAIN u : j < i /\ IsPut(u, j, "ssid")
        BY <3>1, <3>2 DEF Writing, IsPut
      <4>2. j + Len(t) \in DOMAIN s /\ IsPut(s, j + Len(t), "ssid")
        BY <1>1, <4>1 DEF IsPut
      <4>3. j + Len(t) < k
        BY <1>1, <2>2, <4>1
      <4>4. QED
        BY <4>2, <4>3
    <3>3. QED
      BY <3>1, <3>2 DEF Writing, IsPut
  <2>3. QED
    BY <1>1, <2>1, <2>2
<1>5. QED
  BY <1>2, <1>3, <1>4 DEF Writing, s

Anything == [ssid : Values, pass : Values, psk : Values]

\* Saving settings writes the network and then its key.
LEMMA WritingSave ==
  ASSUME NEW n \in Anything
  PROVE  /\ SaveNet(n) \in Seq(Puts) /\ Writing(SaveNet(n), {n})
         /\ Writes(SaveNet(n), "ssid") /\ Writes(SaveNet(n), "psk")
<1> DEFINE a == Put("ssid", n.ssid)
           b == Put("pass", n.pass)
           c == Put("psk", n.psk)
           s == <<a, b, c>>
<1>1. a \in Puts /\ b \in Puts /\ c \in Puts
  BY DEF Put, Puts, Anything
<1>2. /\ a.op = "put" /\ a.key = "ssid" /\ a.value = n.ssid
      /\ b.op = "put" /\ b.key = "pass"
      /\ c.op = "put" /\ c.key = "psk" /\ c.value = n.psk
  BY DEF Put
<1>3. SaveNet(n) = s
  BY DEF SaveNet
<1> HIDE DEF a, b, c
<1>4. s \in Seq(Puts) /\ DOMAIN s = {1, 2, 3} /\ s[1] = a /\ s[2] = b /\ s[3] = c
  BY <1>1
<1> HIDE DEF s
<1>5. IsPut(s, 1, "ssid") /\ IsPut(s, 3, "psk") /\ ~IsPut(s, 2, "ssid") /\ ~IsPut(s, 2, "psk")
      /\ ~IsPut(s, 3, "ssid") /\ ~IsPut(s, 1, "psk")
  BY <1>2, <1>4 DEF IsPut
<1>6. Writing(s, {n})
  BY <1>2, <1>4, <1>5 DEF Writing
<1>7. QED
  BY <1>3, <1>4, <1>5, <1>6 DEF Writes

\* Marking a build writes no network.
LEMMA WritingMark ==
  ASSUME NEW build
  PROVE  /\ MarkSeeded(build) \in Seq(Puts) /\ Writing(MarkSeeded(build), {})
         /\ build \in SeededBuilds => Marks(MarkSeeded(build))
<1>1. CASE build \in SeededBuilds
  <2>1. MarkSeeded(build) = <<Marking>>
    BY <1>1 DEF MarkSeeded, Marking
  <2>2. Marking \in Puts /\ Marking.key = "mark"
    BY DEF Puts, Marking, Put
  <2>3. <<Marking>> \in Seq(Puts) /\ DOMAIN <<Marking>> = {1} /\ <<Marking>>[1] = Marking
    BY <2>2
  <2>4. QED
    BY <2>1, <2>2, <2>3 DEF Writing, IsPut, Marks
<1>2. CASE build \notin SeededBuilds
  <2>1. MarkSeeded(build) = <<>> /\ <<>> \in Seq(Puts)
    BY <1>2 DEF MarkSeeded
  <2>2. \A i \in DOMAIN <<>> : FALSE
    OBVIOUS
  <2>3. QED
    BY <1>2, <2>1, <2>2 DEF Writing
<1>3. QED
  BY <1>1, <1>2

\* What is done behind the writes ends the steps.
LEMMA WritingEnds ==
  ASSUME NEW t \in Seq(Puts), NEW l \in Lasts, NEW N, Writing(t, N)
  PROVE  /\ t \o <<l>> \in Seq(Steps) /\ Shaped(t \o <<l>>) /\ t \o <<l>> # <<>> /\ LastOp(t \o <<l>>) = l.op
         /\ Writing(t \o <<l>>, N)
         /\ \A k : Writes(t, k) => Writes(t \o <<l>>, k)
         /\ Marks(t) => Marks(t \o <<l>>)
<1>1. t \in Seq(Steps) /\ l \in Steps
  BY DEF Steps
<1>2. <<l>> \in Seq(Steps) /\ DOMAIN <<l>> = {1} /\ <<l>>[1] = l
  BY <1>1
<1>3. Writing(<<l>>, {})
  BY OneLeft DEF Writing
<1>4. /\ Writing(t \o <<l>>, N \cup {})
      /\ \A k : Writes(t, k) => Writes(t \o <<l>>, k)
      /\ Marks(t) => Marks(t \o <<l>>)
  BY <1>1, <1>2, <1>3, WritingJoined
<1>5. N \cup {} = N
  OBVIOUS
<1>6. Append(t, l) = t \o <<l>>
  BY <1>1, AppendIsConcat
<1>7. /\ t \o <<l>> \in Seq(Steps) /\ t \o <<l>> # <<>> /\ Len(t \o <<l>>) = Len(t) + 1
      /\ \A i \in 1 .. Len(t) : (t \o <<l>>)[i] = t[i]
      /\ (t \o <<l>>)[Len(t) + 1] = l
  BY <1>1, <1>6, AppendProperties
<1>8. DOMAIN t = 1 .. Len(t) /\ DOMAIN (t \o <<l>>) = 1 .. Len(t) + 1 /\ Len(t) \in Nat
  BY <1>7, LenProperties
<1>9. \A i \in DOMAIN (t \o <<l>>) : i < Len(t) + 1 => (t \o <<l>>)[i] \in Puts
  <2> SUFFICES ASSUME NEW i \in 1 .. Len(t) + 1, i < Len(t) + 1 PROVE (t \o <<l>>)[i] \in Puts
    BY <1>8
  <2>1. i \in 1 .. Len(t)
    BY <1>8
  <2>2. t[i] \in Puts
    BY <2>1
  <2>3. QED
    BY <1>7, <2>1, <2>2
<1>10. Shaped(t \o <<l>>) /\ LastOp(t \o <<l>>) = l.op
  BY <1>7, <1>9 DEF Shaped, LastOp
<1>11. QED
  BY <1>4, <1>5, <1>7, <1>10

-----------------------------------------------------------------------------
\* The values that stand for none, the seed and the owner's are told apart.
LEMMA ConstantsApart ==
  /\ NoNetwork \notin Networks \cup OwnerKeys \cup {SeedNetwork, SeedKey} \cup 1 .. MaxKeys
  /\ {NoNetwork, SeedNetwork, SeedKey, NoKey} \subseteq Values
  /\ Networks \cup OwnerKeys \subseteq Values
  /\ None \notin Networks \cup OwnerKeys \cup {NoNetwork, SeedNetwork}
  /\ None \notin 0 .. MaxKeys
  /\ None # NoKey
  /\ \A n \in 1 .. MaxKeys : n \notin Networks \cup OwnerKeys \cup {SeedNetwork, SeedKey}
  /\ MaxKeys \in Nat
<1>1. /\ {MaxInbox, MaxKeys, SeedKey} \subseteq Nat
      /\ (Networks \cup OwnerKeys \cup {SeedNetwork, SeedKey}) \cap ({NoNetwork} \cup 1 .. MaxKeys) = {}
      /\ NoNetwork \notin 0 .. MaxKeys
      /\ None \notin Networks \cup OwnerKeys \cup {SeedNetwork, SeedKey, NoNetwork} \cup 0 .. MaxKeys
  BY ProvisioningAssumption
<1>2. MaxKeys \in Nat /\ NoKey \in 0 .. MaxKeys /\ 1 .. MaxKeys \subseteq 0 .. MaxKeys
  BY <1>1 DEF NoKey
<1>3. NoNetwork \notin Networks \cup OwnerKeys \cup {SeedNetwork, SeedKey} \cup 1 .. MaxKeys
  BY <1>1
<1>4. \A n \in 1 .. MaxKeys : n \notin Networks \cup OwnerKeys \cup {SeedNetwork, SeedKey}
  BY <1>1
<1>5. QED
  BY <1>1, <1>2, <1>3, <1>4 DEF Values

\* The setup page makes a save from the settings in use and sends it.
LEMMA InvPortalSave ==
  ASSUME ProvInv, UNCHANGED <<updVars, faults>>, NEW viaAp, NEW claimed,
         NEW ssid \in Networks \cup {NoNetwork}, NEW psk \in OwnerKeys \cup {NoKey},
         PortalSave(viaAp, claimed, ssid, psk)
  PROVE  ProvInv'
<1> USE DEF ProvInv
<1>1. /\ Started /\ UNCHANGED <<flash, current, key, doing, restarting, made, forgotten, broken>>
      /\ UNCHANGED <<slots, app, download, mail, crossed, cuts, fails>>
      /\ inbox' = Append(inbox, Settings(ssid, IF psk = NoKey THEN current.psk ELSE psk))
  BY DEF PortalSave, updVars, faults
<1>2. inbox \in Seq(Nets) /\ current \in Nets
  BY DEF ProvTypes
<1>3. ssid \in Values \ {None} /\ (IF psk = NoKey THEN current.psk ELSE psk) \in Values
  BY <1>2, ConstantsApart DEF Nets
<1>4. Settings(ssid, IF psk = NoKey THEN current.psk ELSE psk) \in Nets
  BY <1>3 DEF Settings, Nets
<1>5. inbox' \in Seq(Nets)
  BY <1>1, <1>2, <1>4, AppendProperties
<1>6. ProvTypes'
  BY <1>1, <1>5 DEF ProvTypes, Started
<1>7. Phase(doing.left, flash)'
  BY <1>1 DEF Phase, Started, Alive, Marks, Seeds, IsPut, LastOp
<1>8. ForgetInv'
  BY <1>1 DEF ForgetInv, Resets, Clean, Writes, IsPut, LastOp
<1>9. KeyInv'
  BY <1>1 DEF KeyInv, Booting, Saving, Settled, Started
<1>10. QED
  BY <1>6, <1>7, <1>8, <1>9

\* The main loop takes a save of the setup page and queues its writes.
LEMMA InvProvision ==
  ASSUME ProvInv, Provision(slots.running), UNCHANGED <<updVars, faults>>
  PROVE  ProvInv'
<1> DEFINE h == Head(inbox)
           t == SaveNet(h) \o MarkSeeded(slots.running)
           l == [op |-> "adopt"]
           s == t \o <<l>>
<1> USE DEF ProvInv
<1>1. /\ doing.left = <<>> /\ inbox # <<>> /\ inbox \in Seq(Nets) /\ inbox' = Tail(inbox)
      /\ doing' = [new |-> h, left |-> s]
      /\ forgotten' = forgotten \ {h.ssid, h.psk}
      /\ UNCHANGED <<flash, current, key, restarting, made, broken>>
      /\ UNCHANGED <<slots, app, download, mail, crossed, cuts, fails>>
  BY DEF ProvTypes, Provision, Busy, Do, updVars, faults
<1>2. h \in Nets /\ Tail(inbox) \in Seq(Nets)
  BY <1>1, Received
<1>3. h \in Anything
  BY <1>2 DEF Nets, Anything
<1>4. l \in Lasts
  BY DEF Lasts
<1>5. /\ SaveNet(h) \in Seq(Puts) /\ Writing(SaveNet(h), {h})
      /\ MarkSeeded(slots.running) \in Seq(Puts) /\ Writing(MarkSeeded(slots.running), {})
  BY <1>3, WritingSave, WritingMark
<1>6. t \in Seq(Puts)
  BY <1>5, ConcatProperties
<1>7. Writing(t, {h})
  <2>1. SaveNet(h) \in Seq(Steps) /\ MarkSeeded(slots.running) \in Seq(Steps)
    BY <1>5 DEF Steps
  <2>2. Writing(t, {h} \cup {})
    BY <1>5, <2>1, WritingJoined
  <2>3. {h} \cup {} = {h}
    OBVIOUS
  <2>4. QED
    BY <2>2, <2>3
<1> HIDE DEF t
<1>8. /\ s \in Seq(Steps) /\ Shaped(s) /\ s # <<>> /\ LastOp(s) = "adopt" /\ Writing(s, {h})
  BY <1>4, <1>6, <1>7, WritingEnds
<1> HIDE DEF s, h, l
<1>9. doing'.left = s /\ doing'.new = h /\ doing' \in [new : Nets, left : Seq(Steps)]
  BY <1>1, <1>2, <1>8
<1>10. Started /\ flash.mark = SeedNetwork
  BY <1>1 DEF ProvTypes, Phase
<1>11. ProvTypes'
  BY <1>1, <1>2, <1>8, <1>9, <1>10 DEF ProvTypes, Started
<1>12. Phase(doing.left, flash)'
  BY <1>1, <1>8, <1>9, <1>10 DEF Phase, Started
<1>13. /\ \A i \in DOMAIN s : IsPut(s, i, "ssid") => s[i].value = h.ssid
       /\ \A i \in DOMAIN s : IsPut(s, i, "psk") => s[i].value = h.psk
       /\ \A i \in DOMAIN s : IsPut(s, i, "psk") => \E j \in DOMAIN s : j < i /\ IsPut(s, j, "ssid")
  BY <1>8 DEF Writing
<1>14. ForgetInv'
  <2>1. Clean(doing.left, flash, forgotten) /\ ForgetInv
    BY DEF ForgetInv
  <2>2. Clean(s, flash, forgotten')
    BY <1>1, <1>13, <2>1 DEF Clean, NetClean, KeyClean
  <2>3. Resets(doing.left, flash)'
    BY <1>1, <1>8, <1>9 DEF Resets
  <2>4. h.ssid \notin forgotten' /\ KeyClean(h.psk, forgotten')
    BY <1>1 DEF KeyClean
  <2>5. current'.ssid \notin forgotten' /\ KeyClean(current'.psk, forgotten') /\ KeyClean(key', forgotten')
    BY <1>1, <2>1 DEF ForgetInv, KeyClean
  <2>6. QED
    BY <1>1, <1>9, <2>2, <2>3, <2>4, <2>5 DEF ForgetInv
<1>15. ~broken => Ordered(s, flash)
  <2>1. ~broken => (flash.ssid = None => flash.psk \in {None, NoKey})
    BY <1>1 DEF KeyInv, Ordered
  <2>2. h.ssid # None
    BY <1>2 DEF Nets
  <2>3. QED
    BY <1>13, <2>1, <2>2 DEF Ordered
<1>16. Ordered(doing.left, flash)' <=> Ordered(s, flash)
  BY <1>1, <1>9
<1>17. Saving(doing.left, flash)'
  <2>1. ~broken /\ ~restarting => flash.psk \in {None, NoKey, key}
    BY <1>1, <1>10 DEF KeyInv, Settled
  <2>2. QED
    BY <1>1, <1>9, <1>13, <2>1 DEF Saving
<1>18. Booting(doing.left, flash)' /\ Settled(doing.left, flash)'
  BY <1>8, <1>9 DEF Booting, Settled
<1>19. KeyInv'
  BY <1>1, <1>15, <1>16, <1>17, <1>18 DEF KeyInv, Started
<1>20. QED
  BY <1>11, <1>12, <1>14, <1>19

\* A factory reset queues the writes that forget.
LEMMA InvFactoryReset ==
  ASSUME ProvInv, FactoryReset(slots.running), Started, UNCHANGED <<updVars, faults>>
  PROVE  ProvInv'
<1> DEFINE h == [ssid |-> None, pass |-> None, psk |-> None]
           t == SaveNet(h) \o MarkSeeded(slots.running)
           l == [op |-> "wiped"]
           s == t \o <<l>>
<1> USE DEF ProvInv
<1>1. /\ doing.left = <<>>
      /\ doing' = [new |-> Blank, left |-> s]
      /\ broken' = FALSE
      /\ UNCHANGED <<flash, current, key, inbox, restarting, made, forgotten>>
      /\ UNCHANGED <<slots, app, download, mail, crossed, cuts, fails>>
  BY DEF FactoryReset, Busy, Do, SaveNet, Remove, Put, updVars, faults
<1>2. h \in Anything
  BY DEF Anything, Values
<1>3. l \in Lasts
  BY DEF Lasts
<1>4. /\ SaveNet(h) \in Seq(Puts) /\ Writing(SaveNet(h), {h}) /\ Writes(SaveNet(h), "ssid") /\ Writes(SaveNet(h), "psk")
      /\ MarkSeeded(slots.running) \in Seq(Puts) /\ Writing(MarkSeeded(slots.running), {})
  BY <1>2, WritingSave, WritingMark
<1>5. t \in Seq(Puts)
  BY <1>4, ConcatProperties
<1>6. Writing(t, {h}) /\ Writes(t, "ssid") /\ Writes(t, "psk")
  <2>1. SaveNet(h) \in Seq(Steps) /\ MarkSeeded(slots.running) \in Seq(Steps)
    BY <1>4 DEF Steps
  <2>2. Writing(t, {h} \cup {}) /\ Writes(t, "ssid") /\ Writes(t, "psk")
    BY <1>4, <2>1, WritingJoined
  <2>3. {h} \cup {} = {h}
    OBVIOUS
  <2>4. QED
    BY <2>2, <2>3
<1> HIDE DEF t
<1>7. /\ s \in Seq(Steps) /\ Shaped(s) /\ s # <<>> /\ LastOp(s) = "wiped" /\ Writing(s, {h})
      /\ Writes(s, "ssid") /\ Writes(s, "psk")
  BY <1>3, <1>5, <1>6, WritingEnds
<1>8. h.ssid = None /\ h.psk = None
  OBVIOUS
<1> HIDE DEF s, h, l
<1>9. Blank.ssid = NoNetwork /\ Blank.psk = NoKey /\ Blank \in Nets
  <2>1. NoNetwork \in Values \ {None} /\ NoKey \in Values
    BY ConstantsApart
  <2>2. QED
    BY <2>1 DEF Blank, Settings, Nets
<1>10. doing'.left = s /\ doing'.new = Blank /\ doing' \in [new : Nets, left : Seq(Steps)]
  BY <1>1, <1>7, <1>9
<1>11. flash.mark = SeedNetwork
  BY DEF Phase
<1>12. ProvTypes'
  BY <1>1, <1>7, <1>10 DEF ProvTypes, Started
<1>13. Phase(doing.left, flash)'
  BY <1>1, <1>7, <1>10, <1>11 DEF Phase, Started
<1>14. /\ \A i \in DOMAIN s : IsPut(s, i, "ssid") => s[i].value = None
       /\ \A i \in DOMAIN s : IsPut(s, i, "psk") => s[i].value = None
  BY <1>7, <1>8 DEF Writing
<1>15. ForgetInv'
  <2>1. Clean(doing.left, flash, forgotten) /\ ForgetInv
    BY DEF ForgetInv
  <2>2. Clean(s, flash, forgotten)
    BY <1>14, <2>1 DEF Clean, NetClean, KeyClean
  <2>3. Resets(doing.left, flash)'
    BY <1>1, <1>7, <1>10, <1>14 DEF Resets
  <2>4. NoNetwork \notin forgotten
    <3>1. forgotten \subseteq Networks \cup OwnerKeys \cup {SeedNetwork, SeedKey} \cup 1 .. made /\ made \in 0 .. MaxKeys
      BY DEF ProvTypes
    <3>2. 1 .. made \subseteq 1 .. MaxKeys
      BY <3>1, ConstantsApart
    <3>3. QED
      BY <3>1, <3>2, ConstantsApart, Zenon
  <2>5. KeyClean(NoKey, forgotten)
    BY DEF KeyClean
  <2>6. QED
    BY <1>1, <1>9, <1>10, <2>1, <2>2, <2>3, <2>4, <2>5 DEF ForgetInv
<1>16. Ordered(s, flash)
  BY <1>7 DEF Ordered
<1>17. Ordered(doing.left, flash)' <=> Ordered(s, flash)
  BY <1>1, <1>10
<1>18. Booting(doing.left, flash)' /\ Saving(doing.left, flash)' /\ Settled(doing.left, flash)'
  BY <1>7, <1>10 DEF Booting, Saving, Settled
<1>19. KeyInv'
  BY <1>1, <1>16, <1>17, <1>18 DEF KeyInv, Started
<1>20. QED
  BY <1>12, <1>13, <1>15, <1>19

\* Steps that write some networks write no others than more of them.
LEMMA WritingMore ==
  ASSUME NEW s \in Seq(Steps), NEW N, NEW M, Writing(s, N), N \subseteq M
  PROVE  Writing(s, M)
BY DEF Writing

\* No steps write nothing.
LEMMA NothingLeft ==
  /\ <<>> \in Seq(Puts) /\ Writing(<<>>, {})
<1>1. \A i \in DOMAIN <<>> : FALSE
  OBVIOUS
<1>2. QED
  BY <1>1 DEF Writing

\* A save marks no build.
LEMMA SavesUnmarked ==
  ASSUME NEW n \in Anything
  PROVE  ~Marks(SaveNet(n))
<1>1. \A i \in DOMAIN SaveNet(n) : SaveNet(n)[i].key # "mark"
  BY DEF SaveNet, Put
<1>2. Marking.key = "mark"
  BY DEF Marking, Put
<1>3. QED
  BY <1>1, <1>2 DEF Marks

\* Steps without a mark do not disturb what is written before one.
LEMMA SeedsMore ==
  ASSUME NEW t \in Seq(Steps), NEW u \in Seq(Steps), Seeds(t), ~Marks(u)
  PROVE  Seeds(t \o u)
<1> DEFINE s == t \o u
<1>1. /\ \A i \in DOMAIN t : i \in DOMAIN s /\ s[i] = t[i] /\ i \in Nat
      /\ \A i \in DOMAIN u : i + Len(t) \in DOMAIN s /\ s[i + Len(t)] = u[i] /\ i \in Nat
      /\ \A k \in DOMAIN s : k \in DOMAIN t \/ \E i \in DOMAIN u : k = i + Len(t)
      /\ Len(t) \in Nat
  BY Joined
<1>2. \A i \in DOMAIN t : i <= Len(t)
  BY LenProperties
<1> HIDE DEF s
<1>3. \A j \in DOMAIN s : s[j] = Marking => j \in DOMAIN t
  BY <1>1 DEF Marks
<1>4. ASSUME NEW i \in DOMAIN s, NEW j \in DOMAIN t, i < j PROVE i \in DOMAIN t
  BY <1>1, <1>2, <1>4
<1>5. Seeds(s)
  BY <1>1, <1>3, <1>4 DEF Seeds, IsPut
<1>6. QED
  BY <1>5 DEF s

\* Steps whose only key is the seed's write it before the mark.
LEMMA SeedsJoined ==
  ASSUME NEW t \in Seq(Steps), NEW u \in Seq(Steps), ~Marks(u),
         \A i \in DOMAIN t : IsPut(t, i, "psk") => t[i].value = SeedKey
  PROVE  Seeds(t \o u)
<1>1. Seeds(t)
  BY DEF Seeds
<1>2. QED
  BY <1>1, SeedsMore

\* The steps of a boot: the seed if it is due, the key if one is made up.
LEMMA BootSteps ==
  ASSUME NEW net \in Nets, NEW keyed \in Nets, NEW build, NEW due \in BOOLEAN, NEW bare \in BOOLEAN, NEW s,
         s = (IF due THEN SaveNet(net) \o MarkSeeded(build) ELSE <<>>)
             \o (IF bare THEN SaveNet(keyed) ELSE <<>>) \o <<[op |-> "start"]>>
  PROVE  /\ s \in Seq(Steps) /\ Shaped(s) /\ s # <<>> /\ LastOp(s) = "start"
         /\ Writing(s, {net, keyed})
         /\ due \/ bare => Writes(s, "psk")
         /\ due /\ build \in SeededBuilds => Marks(s)
         /\ due /\ net.psk = SeedKey => Seeds(s)
<1> DEFINE mark == MarkSeeded(build)
           t == IF due THEN SaveNet(net) \o mark ELSE <<>>
           u == IF bare THEN SaveNet(keyed) ELSE <<>>
           l == [op |-> "start"]
<1>1. net \in Anything /\ keyed \in Anything
  BY DEF Nets, Anything
<1>2. /\ SaveNet(net) \in Seq(Puts) /\ Writing(SaveNet(net), {net}) /\ Writes(SaveNet(net), "psk")
      /\ SaveNet(keyed) \in Seq(Puts) /\ Writing(SaveNet(keyed), {keyed}) /\ Writes(SaveNet(keyed), "psk")
      /\ mark \in Seq(Puts) /\ Writing(mark, {}) /\ (build \in SeededBuilds => Marks(mark))
  BY <1>1, WritingSave, WritingMark
<1>3. \A q \in Seq(Puts) : q \in Seq(Steps)
  BY DEF Steps
<1> HIDE DEF mark
<1>4. /\ SaveNet(net) \o mark \in Seq(Puts) /\ Writing(SaveNet(net) \o mark, {net, keyed})
      /\ Writing(SaveNet(net) \o mark, {net})
      /\ Writes(SaveNet(net) \o mark, "psk") /\ (build \in SeededBuilds => Marks(SaveNet(net) \o mark))
  <2>1. SaveNet(net) \o mark \in Seq(Puts)
    BY <1>2, ConcatProperties
  <2>2. /\ Writing(SaveNet(net) \o mark, {net} \cup {})
        /\ Writes(SaveNet(net) \o mark, "psk") /\ (build \in SeededBuilds => Marks(SaveNet(net) \o mark))
    BY <1>2, <1>3, WritingJoined
  <2>3. {net} \cup {} \subseteq {net, keyed}
    OBVIOUS
  <2>4. {net} \cup {} = {net}
    OBVIOUS
  <2>5. QED
    BY <1>3, <2>1, <2>2, <2>3, <2>4, WritingMore
<1>5. /\ t \in Seq(Puts) /\ Writing(t, {net, keyed})
      /\ due => Writes(t, "psk") /\ Writing(t, {net})
      /\ due /\ build \in SeededBuilds => Marks(t)
  <2>1. CASE due
    BY <1>4, <2>1
  <2>2. CASE ~due
    <3>1. t = <<>>
      BY <2>2
    <3>2. <<>> \in Seq(Steps) /\ {} \subseteq {net, keyed}
      OBVIOUS
    <3>3. Writing(<<>>, {net, keyed})
      BY <3>2, NothingLeft, WritingMore
    <3>4. QED
      BY <2>2, <3>1, <3>3, NothingLeft
  <2>3. QED
    BY <2>1, <2>2
<1>6. u \in Seq(Puts) /\ Writing(u, {keyed}) /\ (bare => Writes(u, "psk")) /\ ~Marks(u)
  <2>1. CASE bare
    BY <1>1, <1>2, <2>1, SavesUnmarked
  <2>2. CASE ~bare
    <3>1. u = <<>>
      BY <2>2
    <3>2. <<>> \in Seq(Steps) /\ {} \subseteq {keyed}
      OBVIOUS
    <3>3. Writing(<<>>, {keyed})
      BY <3>2, NothingLeft, WritingMore
    <3>4. ~Marks(<<>>)
      BY DEF Marks
    <3>5. QED
      BY <2>2, <3>1, <3>3, <3>4, NothingLeft
  <2>3. QED
    BY <2>1, <2>2
<1>7. s = (t \o u) \o <<l>>
  BY DEF mark
<1> HIDE DEF t, u, l
<1>8. /\ t \o u \in Seq(Puts) /\ Writing(t \o u, {net, keyed})
      /\ due \/ bare => Writes(t \o u, "psk")
      /\ due /\ build \in SeededBuilds => Marks(t \o u)
      /\ due /\ net.psk = SeedKey => Seeds(t \o u)
  <2>1. t \o u \in Seq(Puts)
    BY <1>5, <1>6, ConcatProperties
  <2>2. {net, keyed} \cup {keyed} = {net, keyed}
    OBVIOUS
  <2>3. /\ Writing(t \o u, {net, keyed} \cup {keyed})
        /\ Writes(t, "psk") \/ Writes(u, "psk") => Writes(t \o u, "psk")
        /\ Marks(t) \/ Marks(u) => Marks(t \o u)
    BY <1>3, <1>5, <1>6, WritingJoined
  <2>4. due /\ net.psk = SeedKey => \A i \in DOMAIN t : IsPut(t, i, "psk") => t[i].value = SeedKey
    BY <1>5 DEF Writing
  <2>5. due /\ net.psk = SeedKey => Seeds(t \o u)
    BY <1>3, <1>5, <1>6, <2>4, SeedsJoined
  <2>6. QED
    BY <1>5, <1>6, <2>1, <2>2, <2>3, <2>5
<1>9. l \in Lasts /\ l.op = "start"
  BY DEF l, Lasts
<1>10. due /\ net.psk = SeedKey => Seeds((t \o u) \o <<l>>)
  <2>1. <<l>> \in Seq(Steps) /\ ~Marks(<<l>>)
    <3>1. l # Marking /\ l \in Steps
      BY <1>9 DEF Marking, Put, Lasts, Steps
    <3>2. QED
      BY <3>1 DEF Marks
  <2>2. QED
    BY <1>3, <1>8, <2>1, SeedsMore
<1>11. QED
  BY <1>7, <1>8, <1>9, <1>10, WritingEnds

\* A restart, whether it was in the middle of something (cut) or not, and whether
\* it ends a factory reset or not.
LEMMA InvBoot ==
  ASSUME ProvInv, Restart, UNCHANGED fails,
         \/ ~Busy /\ UNCHANGED <<cuts, broken, forgotten>>
         \/ Cut /\ UNCHANGED forgotten
         \/ Wiped /\ UNCHANGED <<cuts, broken>> /\ forgotten' = IF broken THEN forgotten ELSE Everything
  PROVE  ProvInv'
<1> DEFINE b == slots'.running
           net == BootNet(b)
           bare == net.psk = NoKey
           keyed == IF bare THEN [net EXCEPT !.psk = made + 1] ELSE net
           s == (IF SeedDue(b) THEN SaveNet(net) \o MarkSeeded(b) ELSE <<>>)
                \o (IF bare THEN SaveNet(keyed) ELSE <<>>) \o <<[op |-> "start"]>>
<1> USE DEF ProvInv
<1>1. /\ bare => made < MaxKeys
      /\ made' = IF bare THEN made + 1 ELSE made
      /\ doing' = [new |-> keyed, left |-> s]
      /\ current' = Blank /\ key' = NoKey /\ inbox' = <<>> /\ restarting' = FALSE /\ flash' = flash
      /\ slots' = BootSlots /\ download' = Idle
  BY DEF Restart, Boots, RestartUpdate, Do
<1>2. /\ flash \in [FlashKeys -> Values] /\ made \in 0 .. MaxKeys /\ MaxKeys \in Nat
      /\ forgotten \subseteq Networks \cup OwnerKeys \cup {SeedNetwork, SeedKey} \cup 1 .. made
      /\ cuts \in 0 .. MaxCuts /\ fails \in 0 .. MaxFails
      /\ doing.left \in Seq(Steps) /\ Shaped(doing.left)
  BY ConstantsApart DEF ProvTypes, FlashKeys
<1>3. Wiped => /\ flash.mark = SeedNetwork
               /\ ~broken => flash.ssid = None /\ flash.psk = None
  <2> SUFFICES ASSUME Wiped PROVE flash.mark = SeedNetwork /\ (~broken => flash.ssid = None /\ flash.psk = None)
    OBVIOUS
  <2>1. doing.left # <<>> /\ Head(doing.left).op = "wiped"
    BY DEF Wiped, Busy, Step
  <2>2. LastOp(doing.left) = "wiped" /\ \A i \in DOMAIN doing.left : doing.left[i].op # "put"
    BY <1>2, <2>1, AtEnd
  <2>3. ~Writes(doing.left, "ssid") /\ ~Writes(doing.left, "psk")
    BY <2>2 DEF Writes, IsPut
  <2>4. ~broken => flash["ssid"] = None /\ flash["psk"] = None
    BY <2>1, <2>2, <2>3 DEF ForgetInv, Resets
  <2>5. flash.mark = SeedNetwork
    BY <2>1, <2>2 DEF Phase
  <2>6. QED
    BY <2>1, <2>2, <2>4, <2>5
<1>4. SeedDue(b) => flash.mark # SeedNetwork /\ b \in SeededBuilds
  BY DEF SeedDue
<1>5. flash.mark # SeedNetwork =>
        /\ slots' = slots /\ b \in SeededBuilds /\ SeedDue(b)
        /\ slots.next = slots.running /\ ~slots.pending
        /\ forgotten' = {}
  <2> SUFFICES ASSUME flash.mark # SeedNetwork
               PROVE  /\ slots' = slots /\ b \in SeededBuilds /\ SeedDue(b)
                      /\ slots.next = slots.running /\ ~slots.pending
                      /\ forgotten' = {}
    OBVIOUS
  <2>1. slots.running \in SeededBuilds /\ slots.next = slots.running /\ ~slots.pending /\ forgotten = {}
    BY DEF Phase
  <2>2. slots' = slots
    BY <1>1, <2>1 DEF BootSlots
  <2>3. forgotten' = forgotten
    BY <1>3
  <2>4. QED
    BY <2>1, <2>2, <2>3 DEF SeedDue
<1>6. forgotten' \subseteq Networks \cup OwnerKeys \cup {SeedNetwork, SeedKey} \cup 1 .. made
  BY <1>2 DEF Everything
<1>7. NoNetwork \notin forgotten' /\ made + 1 \notin 1 .. made
  <2>1. 1 .. made \subseteq 1 .. MaxKeys /\ made + 1 \notin 1 .. made
    BY <1>2
  <2>2. QED
    BY <1>6, <2>1, ConstantsApart
<1>8. bare => made + 1 \in 1 .. MaxKeys /\ made + 1 \notin forgotten'
  <2> SUFFICES ASSUME bare PROVE made + 1 \in 1 .. MaxKeys /\ made + 1 \notin forgotten'
    OBVIOUS
  <2>1. made + 1 \in 1 .. MaxKeys
    BY <1>1, <1>2
  <2>2. QED
    BY <1>6, <1>7, <2>1, ConstantsApart
<1>9. /\ flash.ssid \in Values /\ flash.pass \in Values /\ flash.psk \in Values
      /\ net = IF SeedDue(b) THEN Settings(SeedNetwork, SeedKey) ELSE LoadNet
  BY <1>2 DEF FlashKeys, BootNet
<1>10. /\ SeedDue(b) => net.ssid = SeedNetwork /\ net.psk = SeedKey /\ net \in Nets
       /\ ~SeedDue(b) => net.ssid = (IF flash.ssid = None THEN NoNetwork ELSE flash.ssid) /\ net \in Nets
       /\ ~SeedDue(b) => net.psk = (IF flash.ssid = None \/ flash.psk = None THEN NoKey ELSE flash.psk)
  <2>1. {NoNetwork, SeedNetwork, SeedKey, NoKey} \subseteq Values /\ None \notin {NoNetwork, SeedNetwork}
    BY ConstantsApart
  <2>2. CASE SeedDue(b)
    BY <1>9, <2>1, <2>2 DEF Settings, Nets
  <2>3. CASE ~SeedDue(b) /\ flash.ssid = None
    BY <1>9, <2>1, <2>3 DEF LoadNet, Blank, Settings, Nets
  <2>4. CASE ~SeedDue(b) /\ flash.ssid # None
    BY <1>9, <2>1, <2>4 DEF LoadNet, OrElse, Nets
  <2>5. QED
    BY <2>2, <2>3, <2>4
<1>11. /\ net \in Nets /\ keyed \in Nets /\ keyed.ssid = net.ssid
       /\ keyed.psk = IF bare THEN made + 1 ELSE net.psk
       /\ keyed.psk # NoKey
  <2>1. net \in Nets
    BY <1>10
  <2>2. bare => made + 1 \in Values /\ made + 1 # NoKey
    BY <1>2, <1>8 DEF Values, NoKey
  <2>3. QED
    BY <2>1, <2>2 DEF Nets
<1>12. bare \in BOOLEAN /\ SeedDue(b) \in BOOLEAN
  BY DEF SeedDue
<1> HIDE DEF net, keyed, bare, b
<1>13. /\ s \in Seq(Steps) /\ Shaped(s) /\ s # <<>> /\ LastOp(s) = "start"
       /\ Writing(s, {net, keyed})
       /\ SeedDue(b) \/ bare => Writes(s, "psk")
       /\ SeedDue(b) /\ b \in SeededBuilds => Marks(s)
       /\ SeedDue(b) /\ net.psk = SeedKey => Seeds(s)
  BY <1>11, <1>12, BootSteps
<1> HIDE DEF s
<1>14. doing'.left = s /\ doing'.new = keyed /\ doing' \in [new : Nets, left : Seq(Steps)]
  BY <1>1, <1>11, <1>13
<1>15. ~Started'
  BY <1>1 DEF Started
<1>16. ProvTypes'
  <2>1. current' \in Nets /\ key' \in Values
    BY <1>1, ConstantsApart DEF Blank, Settings, Nets
  <2>2. inbox' \in Seq(Nets) /\ inbox' = <<>>
    BY <1>1
  <2>3. made' \in 0 .. MaxKeys /\ 1 .. made \subseteq 1 .. made'
    BY <1>1, <1>2, <1>8
  <2>4. forgotten' \subseteq Networks \cup OwnerKeys \cup {SeedNetwork, SeedKey} \cup 1 .. made'
    BY <1>6, <2>3
  <2>5. cuts' \in 0 .. MaxCuts
    BY <1>2, LifecycleAssumption DEF Cut
  <2>6. flash' \in [{"ssid", "pass", "psk", "mark"} -> Values]
    BY <1>1 DEF ProvTypes
  <2>7. broken' \in BOOLEAN
    BY Zenon DEF Cut, ProvTypes
  <2>8. QED
    BY <1>1, <1>2, <1>13, <1>14, <2>1, <2>2, <2>3, <2>4, <2>5, <2>6, <2>7 DEF ProvTypes
<1>17. Phase(doing.left, flash)'
  <2>1. \A t \in Threads : ~Alive(t)'
    BY <1>1 DEF Idle, Alive
  <2>2. flash.mark # SeedNetwork => Marks(s) /\ Seeds(s) /\ flash.psk \in {None, SeedKey}
    BY <1>5, <1>10, <1>13 DEF Phase
  <2>3. flash.mark # SeedNetwork =>
          slots'.running \in SeededBuilds /\ slots'.next = slots'.running /\ ~slots'.pending
    BY <1>5 DEF b
  <2>4. QED
    BY <1>1, <1>5, <1>11, <1>13, <1>14, <1>15, <2>1, <2>2, <2>3 DEF Phase
<1>18. /\ NetClean(flash.ssid, forgotten') /\ KeyClean(flash.psk, forgotten')
       /\ net.ssid \notin forgotten' /\ KeyClean(net.psk, forgotten') /\ KeyClean(keyed.psk, forgotten')
  <2>1. NetClean(flash.ssid, forgotten') /\ KeyClean(flash.psk, forgotten')
    <3>1. CASE Wiped /\ ~broken
      BY <1>3, <3>1 DEF NetClean, KeyClean
    <3>2. CASE ~(Wiped /\ ~broken)
      BY <3>2 DEF ForgetInv, Clean
    <3>3. QED
      BY <3>1, <3>2
  <2>2. net.ssid \notin forgotten'
    BY <1>4, <1>5, <1>7, <1>10, <2>1 DEF NetClean
  <2>3. KeyClean(net.psk, forgotten')
    BY <1>4, <1>5, <1>10, <2>1 DEF KeyClean
  <2>4. KeyClean(keyed.psk, forgotten')
    BY <1>8, <1>11, <2>3 DEF KeyClean
  <2>5. QED
    BY <2>1, <2>2, <2>3, <2>4
<1>19. ForgetInv'
  <2>1. Clean(s, flash, forgotten')
    BY <1>11, <1>13, <1>18 DEF Clean, Writing, NetClean
  <2>2. Resets(doing.left, flash)'
    BY <1>13, <1>14 DEF Resets
  <2>3. Blank.ssid \notin forgotten' /\ Blank.psk = NoKey
    BY <1>7 DEF Blank, Settings
  <2>4. KeyClean(NoKey, forgotten')
    BY DEF KeyClean
  <2>5. QED
    BY <1>1, <1>11, <1>14, <1>18, <2>1, <2>2, <2>3, <2>4 DEF ForgetInv
<1>20. ~broken' => (flash.ssid = None => flash.psk \in {None, NoKey})
  <2> SUFFICES ASSUME ~broken' PROVE flash.ssid = None => flash.psk \in {None, NoKey}
    OBVIOUS
  <2>1. CASE ~Busy /\ UNCHANGED broken
    BY <2>1 DEF KeyInv, Ordered, Busy
  <2>2. CASE Cut
    <3>1. ~broken /\ ~Left("wiped") /\ doing.left # <<>>
      BY <2>2 DEF Cut, Busy
    <3>2. LastOp(doing.left) # "wiped"
      BY <1>2, <3>1, LeftAtEnd DEF Left, LastOp
    <3>3. QED
      BY <3>1, <3>2 DEF KeyInv, Ordered
  <2>3. CASE Wiped /\ UNCHANGED broken
    BY <1>3, <2>3
  <2>4. QED
    BY <2>1, <2>2, <2>3
<1>21. ~broken' => Ordered(s, flash)
  <2>1. net.ssid # None /\ keyed.ssid # None
    BY <1>11 DEF Nets
  <2>2. QED
    BY <1>13, <1>20, <2>1 DEF Ordered, Writing
<1>22. \A i \in DOMAIN s : IsPut(s, i, "psk") => s[i].value \in {NoKey, keyed.psk}
  <2>1. net.psk \in {NoKey, keyed.psk}
    BY <1>11 DEF bare
  <2>2. QED
    BY <1>13, <2>1 DEF Writing
<1>23. ~broken' => flash.psk \in {None, NoKey, keyed.psk}
  <2>1. CASE SeedDue(b)
    <3>1. flash.psk \in {None, SeedKey} /\ net.psk = SeedKey
      BY <1>4, <1>10, <2>1 DEF Phase
    <3>2. QED
      BY <1>11, <3>1 DEF bare
  <2>2. CASE ~SeedDue(b)
    BY <1>10, <1>11, <1>20, <2>2 DEF bare
  <2>3. QED
    BY <2>1, <2>2
<1>25. Ordered(doing.left, flash)' <=> Ordered(s, flash)
  BY <1>1, <1>14
<1>26. Booting(doing.left, flash)'
  BY <1>1, <1>13, <1>14, <1>22, <1>23 DEF Booting
<1>27. Saving(doing.left, flash)' /\ Settled(doing.left, flash)'
  BY <1>13, <1>14 DEF Saving, Settled
<1>28. KeyInv'
  BY <1>15, <1>21, <1>25, <1>26, <1>27 DEF KeyInv
<1>29. QED
  BY <1>16, <1>17, <1>19, <1>28

\* Firmware updates leave the network settings alone, and have to wait for the seed.
LEMMA InvAside ==
  ASSUME ProvInv, UNCHANGED <<provVars, faults>>, flash.mark = SeedNetwork \/ UNCHANGED <<slots, download>>
  PROVE  ProvInv'
<1> USE DEF ProvInv
<1>1. UNCHANGED <<flash, current, key, inbox, doing, restarting, made, forgotten, broken, cuts, fails>>
  BY DEF provVars, faults
<1>2. ProvTypes'
  BY <1>1 DEF ProvTypes, Started
<1>3. Phase(doing.left, flash)'
  BY <1>1 DEF Phase, Started, Alive, Marks, Seeds, IsPut, LastOp
<1>4. ForgetInv'
  BY <1>1 DEF ForgetInv, Resets, Clean, Writes, IsPut, LastOp
<1>5. KeyInv'
  BY <1>1 DEF KeyInv, Booting, Saving, Settled, Started
<1>6. QED
  BY <1>2, <1>3, <1>4, <1>5

\* What the board starts with.
LEMMA InvFirst == ASSUME Init PROVE ProvInv
<1>1. /\ flash = [k \in {"ssid", "pass", "psk", "mark"} |-> None]
      /\ current = Blank /\ key = NoKey /\ inbox = <<>> /\ restarting = FALSE /\ made = 0 /\ forgotten = {} /\ broken = FALSE
      /\ doing = [new |-> Blank, left |-> <<>>]
      /\ slots.running \in SeededBuilds /\ slots.next = slots.running /\ ~slots.pending
      /\ download = Idle /\ cuts = MaxCuts /\ fails = MaxFails
  BY DEF Init, ProvInit, UpdInit
<1>2. doing.left = <<>> /\ doing.new = Blank /\ DOMAIN doing.left = {}
  BY <1>1
<1>3. Blank \in Nets /\ NoKey \in Values
  BY ConstantsApart DEF Blank, Settings, Nets
<1>4. ~Started
  BY <1>1 DEF Started
<1>5. flash.ssid = None /\ flash.psk = None
  BY <1>1
<1>6. ProvTypes
  <2>1. flash \in [{"ssid", "pass", "psk", "mark"} -> Values]
    BY <1>1 DEF Values
  <2>2. doing \in [new : Nets, left : Seq(Steps)] /\ Shaped(doing.left)
    BY <1>1, <1>2, <1>3 DEF Shaped
  <2>3. made \in 0 .. MaxKeys
    BY <1>1, ConstantsApart
  <2>4. cuts \in 0 .. MaxCuts /\ fails \in 0 .. MaxFails
    BY <1>1, LifecycleAssumption
  <2>5. inbox \in Seq(Nets)
    BY <1>1
  <2>6. QED
    BY <1>1, <1>3, <2>1, <2>2, <2>3, <2>4, <2>5 DEF ProvTypes
<1>7. Phase(doing.left, flash)
  BY <1>1, <1>2, <1>4, <1>5 DEF Phase, Alive, Idle, Seeds
<1>8. ForgetInv
  BY <1>1, <1>2, <1>5 DEF ForgetInv, Clean, NetClean, KeyClean, Resets
<1>9. KeyInv
  BY <1>2, <1>4, <1>5 DEF KeyInv, Ordered, Booting, Saving, Settled
<1>10. QED
  BY <1>6, <1>7, <1>8, <1>9 DEF ProvInv

\* Every step keeps the invariant.
LEMMA InvStep == ASSUME ProvInv, [Next]_vars PROVE ProvInv'
<1>1. CASE PowerOn
  BY <1>1, InvBoot DEF PowerOn, faults
<1>2. CASE PowerCut
  BY <1>2, InvBoot DEF PowerCut
<1>3. CASE RestartButton
  BY <1>3, InvBoot DEF RestartButton, faults
<1>4. CASE NewSettings
  BY <1>4, InvBoot DEF NewSettings, RestartDue, faults
<1>5. CASE ResetDone
  BY <1>5, InvBoot DEF ResetDone, faults
<1>6. CASE NewImage
  BY <1>6, InvBoot DEF NewImage, NoCut
<1>7. CASE Settle
  BY <1>7, InvWrite, InvStart, InvAdopt, InvProvision DEF Settle
<1>8. CASE Owner
  BY <1>8, InvFactoryReset, InvPortalSave DEF Owner
<1>9. CASE SaveFails
  BY <1>9, InvResetFails, InvSeedFails, InvSaveFails DEF SaveFails
<1>10. CASE Requests \/ Reports \/ ConfirmImage
  <2>1. Started /\ UNCHANGED <<provVars, faults>>
    BY <1>10 DEF Requests, Reports, ConfirmImage, Listening
  <2>2. flash.mark = SeedNetwork
    BY <2>1 DEF ProvInv, Phase
  <2>3. QED
    BY <2>1, <2>2, InvAside
<1>11. CASE Downloads
  <2>1. UNCHANGED <<provVars, faults>> /\ \E t \in Threads : Alive(t)
    BY <1>11 DEF Downloads, BeginWrite, Fail, Progress, Complete, Alive
  <2>2. flash.mark = SeedNetwork
    BY <2>1 DEF ProvInv, Phase
  <2>3. QED
    BY <2>1, <2>2, InvAside
<1>12. CASE UNCHANGED vars
  <2>1. UNCHANGED <<provVars, faults>> /\ UNCHANGED <<slots, download>>
    BY <1>12 DEF vars, updVars
  <2>2. QED
    BY <2>1, InvAside
<1>13. QED
  BY <1>1, <1>2, <1>3, <1>4, <1>5, <1>6, <1>7, <1>8, <1>9, <1>10, <1>11, <1>12 DEF Next

\* The inductive invariant of the network settings, whatever firmware is installed
\* meanwhile and whenever the board restarts.
THEOREM ProvInvariant == Spec => []ProvInv
<1>1. Init => ProvInv
  BY InvFirst
<1>2. ProvInv /\ [Next]_vars => ProvInv'
  BY InvStep
<1>3. QED
  BY <1>1, <1>2, PTL DEF Spec

\* What a factory reset erased does not come back by itself, through a seed, a save
\* that was under way, a write that fails or a restart at any step, if the reset itself
\* was not cut short and none of its own writes failed.
THEOREM LifecycleForgets == Spec => []ResetForgets
<1>1. ProvInv => ResetForgets
  <2> SUFFICES ASSUME ProvInv, Started PROVE {current.ssid, key} \cap forgotten = {}
    BY DEF ResetForgets
  <2>1. current.ssid \notin forgotten /\ KeyClean(key, forgotten)
    BY DEF ProvInv, ForgetInv
  <2>2. key # NoKey
    BY DEF Started
  <2>3. None \notin forgotten
    <3>1. forgotten \subseteq Networks \cup OwnerKeys \cup {SeedNetwork, SeedKey} \cup 1 .. made /\ made \in 0 .. MaxKeys
      BY DEF ProvInv, ProvTypes
    <3>2. 1 .. made \subseteq 0 .. MaxKeys
      BY <3>1, ConstantsApart
    <3>3. None \notin Networks \cup OwnerKeys \cup {SeedNetwork, SeedKey}
      BY ProvisioningAssumption
    <3>4. QED
      BY <3>1, <3>2, <3>3, ConstantsApart
  <2>4. QED
    BY <2>1, <2>2, <2>3 DEF KeyClean
<1>2. QED
  BY <1>1, ProvInvariant, PTL

\* The key in use is the one in flash or there is none in flash, for any number of
\* restarts at a bad moment and of failed writes together, seeding included, unless
\* they were in the last factory reset.
THEOREM LifecycleKey == Spec => []KeyInForce
<1>1. ProvInv => KeyInForce
  BY DEF ProvInv, KeyInv, Settled, KeyInForce, Busy
<1>2. QED
  BY <1>1, ProvInvariant, PTL
=============================================================================
