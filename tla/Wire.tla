--------------------------------- MODULE Wire ---------------------------------
(***************************************************************************)
(* One connection of the native API, below the messages: frames that       *)
(* arrive in pieces, the plaintext codec (esphome/src/codec.rs), the Noise *)
(* handshake and transport (noise.rs) and the loop that feeds them         *)
(* (session.rs).  The peer is a client in one of the ways an owner sets it *)
(* up: with the key of the board, with another one, or without encryption. *)
(*                                                                         *)
(* Abstractions.  A frame arrives in Pieces pieces: its indicator, the     *)
(* rest of its header, its payload.  Frames that the Noise codec refuses   *)
(* for their declared length are `long`.  Encryption is the key that made  *)
(* a frame: what another key made cannot be read.  Messages are numbered;  *)
(* the first is HelloRequest, each is answered by a message of its number. *)
(***************************************************************************)
EXTENDS Naturals, Sequences

CONSTANTS
  Keys,        \* API keys
  Clear,       \* no key: the codec is Plaintext, the client does not encrypt
  MaxMessages  \* bound on the messages of the client

ASSUME WireAssumption == Clear \notin Keys /\ MaxMessages \in Nat

VARIABLES
  board,    \* its key, the state of its codec, what its thread is at
  client,   \* its key and how many messages it sent
  sent,     \* the frames the client sent
  arrived,  \* how many pieces of them Session::on_bytes was given
  taken,    \* how many frames the codec has taken off the buffer
  events,   \* the events of on_bytes not dispatched yet
  told,     \* the frames written to the client
  handled   \* the messages Session::handle was given

vars == <<board, client, sent, arrived, taken, events, told, handled>>

Frame(kind, key, number) == [kind |-> kind, key |-> key, number |-> number, long |-> FALSE]

\* The indicator byte tells frames of the Noise framing from those in the clear.
Handshakes == {"client hello", "handshake"}
Encrypted(f) == f.kind \in Handshakes \/ f.key # Clear

Pieces == 3
First == sent[taken + 1]
Buffered == arrived - Pieces * taken

Send(f) == [op |-> "send", frame |-> f]
Error == [op |-> "error"]

-----------------------------------------------------------------------------
(***************************************************************************)
(* The codecs: what a frame does to the state of the codec, what the codec *)
(* wants on the wire because of it, and what decode returns.               *)
(***************************************************************************)
Result(state, pending, returns) == [state |-> state, pending |-> pending, returns |-> returns]

\* Mutant: the reason is not queued.
RejectSilently(reason) == Result("failed", <<>>, "error")

\* NoiseCodec::reject
Reject(reason) == Result("failed", <<Frame(reason, Clear, 0)>>, "error")

\* What the header alone decides.
Refused(f) == ~Encrypted(f) \/ f.long

RefusedFrame(f) ==
  Reject(CASE ~Encrypted(f) -> "Bad indicator byte"
           [] Encrypted(f) /\ board.state = "transport" -> "Bad data packet"
           [] Encrypted(f) /\ board.state # "transport" -> "Bad handshake packet len")

NoiseFrame(f) ==
  CASE board.state = "client hello" ->
         Result("handshake", <<Frame("server hello", Clear, 0)>>, "nothing")
    [] board.state = "handshake" ->
         IF f.kind = "handshake" /\ f.key = board.key
         THEN Result("transport", <<Frame("handshake", board.key, 0)>>, "nothing")
         ELSE Reject("Handshake MAC failure")
    [] board.state = "transport" ->
         IF f.key = board.key THEN Result("transport", <<>>, "message")
         ELSE Result("failed", <<>>, "error")

PlainFrame(f) == Result(board.state, <<>>, IF Encrypted(f) THEN "error" ELSE "message")

Decoded(f) == IF board.key = Clear THEN PlainFrame(f)
              ELSE IF Refused(f) THEN RefusedFrame(f) ELSE NoiseFrame(f)

\* Mutant: the payload is not waited for.
WholeWithHeader == Buffered >= Pieces - 1

Whole == Buffered >= Pieces

\* decode has an answer; otherwise it returns Ok(None).
Decides ==
  IF board.key = Clear THEN Whole \/ (Buffered >= 1 /\ Encrypted(First))
  ELSE Whole \/ (Buffered >= Pieces - 1 /\ Refused(First))

-----------------------------------------------------------------------------
(***************************************************************************)
(* The connection thread: read, on_bytes, dispatch.                        *)
(***************************************************************************)
Read ==
  /\ board.at = "read"
  /\ \E n \in arrived + 1 .. Pieces * Len(sent) : arrived' = n
  /\ board' = [board EXCEPT !.at = "decode"]
  /\ UNCHANGED <<client, sent, taken, events, told, handled>>

\* The loop of on_bytes, on the answer d: what the codec wants to send comes before
\* the error; a message is handled and answered, and the loop goes on.
EventsOf(d) ==
  [i \in DOMAIN d.pending |-> Send(d.pending[i])]
  \o CASE d.returns = "error" -> <<Error>>
       [] d.returns = "message" -> <<Send(Frame("data", board.key, First.number))>>
       [] d.returns = "nothing" -> <<>>

\* Mutant: the loop ends with the first message.
GoesOnAfterNone(d) == d.returns = "nothing"

GoesOn(d) == d.returns # "error"

Decode ==
  /\ board.at = "decode"
  /\ IF Decides
     THEN LET d == Decoded(First)
          IN /\ events' = events \o EventsOf(d)
             /\ board' = [board EXCEPT !.state = d.state,
                                       !.at = IF GoesOn(d) THEN "decode" ELSE "dispatch"]
             /\ handled' = IF d.returns # "message" THEN handled
                           ELSE Append(handled, [number |-> First.number, whole |-> Buffered >= Pieces])
             /\ taken' = taken + 1
     ELSE /\ board' = [board EXCEPT !.at = "dispatch"]
          /\ UNCHANGED <<events, handled, taken>>
  /\ UNCHANGED <<client, sent, arrived, told>>

Dispatch ==
  /\ board.at = "dispatch"
  /\ CASE events = <<>> ->
            board' = [board EXCEPT !.at = "read"] /\ UNCHANGED <<events, told>>
       [] events # <<>> /\ Head(events).op = "send" ->
            /\ told' = Append(told, Head(events).frame)
            /\ events' = Tail(events)
            /\ UNCHANGED board
       [] events # <<>> /\ Head(events).op = "error" ->
            board' = [board EXCEPT !.at = "closed"] /\ events' = <<>> /\ UNCHANGED told
  /\ UNCHANGED <<client, sent, arrived, taken, handled>>

-----------------------------------------------------------------------------
(***************************************************************************)
(* The client: it sends its two handshake frames, together or one by one,  *)
(* and messages once the board has answered the second.                    *)
(***************************************************************************)
Ready ==
  \/ client.key = Clear
  \/ \E i \in DOMAIN told : told[i].kind = "handshake" /\ told[i].key = client.key

Says(f) == sent' = Append(sent, f) /\ UNCHANGED <<board, arrived, taken, events, told, handled>>

Greet ==
  /\ client.key # Clear /\ Len(sent) < 2
  /\ Says(IF sent = <<>> THEN Frame("client hello", Clear, 0) ELSE Frame("handshake", client.key, 0))
  /\ UNCHANGED client

Say ==
  /\ Ready /\ client.said < MaxMessages
  /\ \E long \in BOOLEAN :
       Says([Frame("data", client.key, client.said + 1) EXCEPT !.long = long])
  /\ client' = [client EXCEPT !.said = @ + 1]

Init ==
  /\ \E k \in Keys \cup {Clear}, c \in Keys \cup {Clear} :
       /\ board = [key |-> k, state |-> "client hello", at |-> "read"]
       /\ client = [key |-> c, said |-> 0]
  /\ sent = <<>> /\ events = <<>> /\ told = <<>> /\ handled = <<>>
  /\ arrived = 0 /\ taken = 0

Next == Read \/ Decode \/ Dispatch \/ Greet \/ Say

Fairness == WF_vars(Read) /\ WF_vars(Decode) /\ WF_vars(Dispatch)

Spec == Init /\ [][Next]_vars /\ Fairness

-----------------------------------------------------------------------------
Closed == board.at = "closed"
Told(kind) == \E i \in DOMAIN told : told[i].kind = kind

\* Whatever pieces a connection delivers its bytes in, the messages handled are
\* those the client sent, whole and in order, and only with the board's own key.
HandledAsSent ==
  /\ \A n \in DOMAIN handled : handled[n] = [number |-> n, whole |-> TRUE]
  /\ handled # <<>> => client.key = board.key

\* session.rs:46: "Protocol failure: flush earlier `Send` events (e.g. a Noise
\* rejection), then close".  A client that will not get through to an encrypted
\* board has been told why; another one is closed only over a frame too long.
RefusalExplained ==
  Closed /\ board.key # Clear =>
    CASE client.key = board.key -> Told("Bad data packet")
      [] client.key = Clear -> Told("Bad indicator byte")
      [] client.key \notin {board.key, Clear} -> Told("Handshake MAC failure")

\* A message is answered, or the connection closed.
Answered ==
  \A n \in 1 .. MaxMessages :
    client.said >= n ~> Closed \/ \E i \in DOMAIN told : told[i].kind = "data" /\ told[i].number = n
=============================================================================
