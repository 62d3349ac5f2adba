------------------------------ MODULE WireProofs ------------------------------
(***************************************************************************)
(* What a connection handles is what its client sent, and a client that is *)
(* refused is told why, for any keys and any number of messages, however   *)
(* the bytes arrive.                                                       *)
(*                                                                         *)
(* The argument follows the frames by their index: the client's key says   *)
(* what its n-th frame is, the number of frames taken says what the state  *)
(* of the codec is, and until the first error each message taken was       *)
(* handled.                                                                *)
(***************************************************************************)
EXTENDS Wire, TLAPS, SequenceTheorems

AnyKey == Keys \cup {Clear}

States == {"client hello", "handshake", "transport", "failed"}

Reasons == {"Bad indicator byte", "Bad data packet", "Bad handshake packet len", "Handshake MAC failure"}

Kinds == Handshakes \cup {"server hello", "data"} \cup Reasons

BoardType == [key : AnyKey, state : States, at : {"read", "decode", "dispatch", "closed"}]

FrameType == [kind : Kinds, key : AnyKey, number : Nat, long : BOOLEAN]

EventType == [op : {"send"}, frame : FrameType] \cup [op : {"error"}]

HandledType == [number : Nat, whole : BOOLEAN]

TypeInv ==
  /\ board \in BoardType
  /\ client \in [key : AnyKey, said : Nat]
  /\ sent \in Seq(FrameType)
  /\ arrived \in Nat
  /\ taken \in Nat
  /\ events \in Seq(EventType)
  /\ told \in Seq(FrameType)
  /\ handled \in Seq(HandledType)

\* The frames before the first message.
Greetings == IF client.key = Clear THEN 0 ELSE 2

\* What the i-th frame of the client is.
Expected(i, f) ==
  /\ i > Greetings => f.kind = "data" /\ f.key = client.key /\ f.number = i - Greetings
  /\ i <= Greetings /\ i = 1 => f = Frame("client hello", Clear, 0)
  /\ i <= Greetings /\ i # 1 => f = Frame("handshake", client.key, 0)

SentInv ==
  /\ \A i \in DOMAIN sent : Expected(i, sent[i])
  /\ Len(sent) < Greetings => client.said = 0
  /\ Len(sent) >= Greetings => Len(sent) = Greetings + client.said
  /\ arrived <= Pieces * Len(sent)

Failing == \E i \in DOMAIN events : events[i].op = "error"

\* Until an error each frame taken brought the codec on, or was handled.
CodecInv ==
  board.at # "closed" /\ ~Failing =>
    /\ board.key = Clear => Len(handled) = taken /\ (taken > 0 => client.key = Clear)
    /\ board.key # Clear =>
         /\ board.state = "client hello" => taken = 0 /\ handled = <<>>
         /\ board.state = "handshake" => taken = 1 /\ handled = <<>> /\ client.key # Clear
         /\ board.state = "transport" => taken = Len(handled) + 2 /\ client.key = board.key
         /\ board.state # "failed"

\* Why the board refuses this client.
Reason ==
  IF client.key = board.key THEN "Bad data packet"
  ELSE IF client.key = Clear THEN "Bad indicator byte"
  ELSE "Handshake MAC failure"

\* A refusal is told, or will be before the connection is closed.
ReasonInv ==
  board.key # Clear =>
    /\ board.at = "closed" => Told(Reason)
    /\ \A j \in DOMAIN events : events[j].op = "error" =>
         \/ Told(Reason)
         \/ \E i \in DOMAIN events : i < j /\ events[i].op = "send" /\ events[i].frame.kind = Reason

\* The answer to a handshake goes out after both of the client's greetings came.
HandshakeInv ==
  /\ \A i \in DOMAIN events : events[i].op = "send" /\ events[i].frame.kind = "handshake" => Len(sent) >= 2
  /\ Told("handshake") => Len(sent) >= 2

\* The inductive invariant.
WireInv ==
  /\ TypeInv
  /\ SentInv
  /\ board.at \in {"read", "decode"} => ~Failing
  /\ CodecInv
  /\ HandledAsSent
  /\ ReasonInv
  /\ HandshakeInv
  /\ board.key = Clear => board.state = "client hello"

-----------------------------------------------------------------------------
(***************************************************************************)
(* Decoding the first frame.                                               *)
(***************************************************************************)

\* The codec decides only on a frame that the client has sent.
LEMMA FirstFrame ==
  ASSUME WireInv, Decides
  PROVE  /\ taken + 1 \in DOMAIN sent /\ Len(sent) >= taken + 1
         /\ First \in FrameType
         /\ Expected(taken + 1, First)
<1>1. arrived \in Nat /\ taken \in Nat /\ sent \in Seq(FrameType)
  BY DEF WireInv, TypeInv
<1>2. arrived - 3 * taken >= 1
  BY <1>1 DEF Decides, Whole, Buffered, Pieces
<1>3. Len(sent) \in Nat /\ arrived <= 3 * Len(sent)
  BY <1>1, LenProperties DEF WireInv, SentInv, Pieces
<1>4. taken + 1 <= Len(sent)
  BY <1>1, <1>2, <1>3
<1>5. taken + 1 \in DOMAIN sent /\ taken + 1 \in 1..Len(sent)
  BY <1>1, <1>3, <1>4, LenProperties
<1>6. First \in FrameType
  BY <1>1, <1>5, ElementOfSeq DEF First
<1>7. QED
  BY <1>4, <1>5, <1>6 DEF WireInv, SentInv, First

\* The four answers of the codec, d, and when it gives them.
RefusesClear(d) ==
  board.key = Clear /\ d = Result(board.state, <<>>, "error")

Refuses(d) ==
  board.key # Clear /\ d = Result("failed", <<Frame(Reason, Clear, 0)>>, "error")

Hands(d) ==
  /\ d = Result(board.state, <<>>, "message")
  /\ client.key = board.key
  /\ First.number = Len(handled) + 1
  /\ Buffered >= Pieces
  /\ board.key # Clear => board.state = "transport"

Greets(d) ==
  /\ board.key # Clear /\ client.key # Clear
  /\ board.state = "client hello"
  /\ d = Result("handshake", <<Frame("server hello", Clear, 0)>>, "nothing")

Joins(d) ==
  /\ board.key # Clear /\ client.key = board.key
  /\ board.state = "handshake" /\ Len(sent) >= 2
  /\ d = Result("transport", <<Frame("handshake", board.key, 0)>>, "nothing")

\* What the plaintext codec does with a frame.
LEMMA PlainAnswers ==
  ASSUME WireInv, board.at = "decode", Decides, board.key = Clear
  PROVE  RefusesClear(Decoded(First)) \/ Hands(Decoded(First))
<1>1. Len(handled) = taken /\ (taken > 0 => client.key = Clear) /\ taken \in Nat
  BY DEF WireInv, CodecInv, TypeInv
<1>2. CASE Encrypted(First)
  BY <1>2 DEF Decoded, PlainFrame, RefusesClear
<1>3. CASE ~Encrypted(First)
  <2>1. Decoded(First) = Result(board.state, <<>>, "message") /\ Buffered >= Pieces
    BY <1>3 DEF Decoded, PlainFrame, Decides, Whole
  <2>2. First.key = Clear /\ First.kind \notin Handshakes
    BY <1>3 DEF Encrypted
  <2>3. client.key = Clear
    <3>1. SUFFICES ASSUME client.key # Clear PROVE FALSE
      OBVIOUS
    <3>2. taken + 1 = 1 /\ Greetings = 2
      BY <1>1, <3>1 DEF Greetings
    <3>3. First = Frame("client hello", Clear, 0)
      <4>1. Expected(1, First) /\ 1 <= Greetings
        BY <3>2, FirstFrame
      <4>2. QED
        BY <4>1, Zenon DEF Expected
    <3>4. QED
      BY <2>2, <3>3 DEF Frame, Handshakes
  <2>4. First.number = taken + 1
    <3>1. Greetings = 0 /\ taken + 1 > 0
      BY <1>1, <2>3 DEF Greetings
    <3>2. First.number = (taken + 1) - 0
      BY <3>1, FirstFrame DEF Expected
    <3>3. QED
      BY <1>1, <3>2
  <2>5. QED
    BY <1>1, <2>1, <2>3, <2>4 DEF Hands
<1>4. QED
  BY <1>2, <1>3

\* What the encrypted codec does with a frame.
LEMMA NoiseAnswers ==
  ASSUME WireInv, board.at = "decode", Decides, board.key # Clear
  PROVE  \/ Refuses(Decoded(First)) \/ Hands(Decoded(First))
         \/ Greets(Decoded(First)) \/ Joins(Decoded(First))
<1>1. /\ board.state \in States /\ taken \in Nat /\ ~Failing
      /\ Decoded(First) = IF Refused(First) THEN RefusedFrame(First) ELSE NoiseFrame(First)
      /\ client.key \in AnyKey
  BY DEF WireInv, TypeInv, BoardType, Decoded
<1>2. CASE board.state = "client hello"
  <2>1. taken = 0
    BY <1>1, <1>2 DEF WireInv, CodecInv
  <2>2. CASE client.key = Clear
    <3>1. First.kind = "data" /\ First.key = Clear
      BY <2>1, <2>2, FirstFrame DEF Expected, Greetings
    <3>2. ~Encrypted(First)
      BY <3>1 DEF Encrypted, Handshakes
    <3>3. Decoded(First) = Result("failed", <<Frame("Bad indicator byte", Clear, 0)>>, "error")
      BY <1>1, <3>2 DEF Refused, RefusedFrame, Reject
    <3>4. Reason = "Bad indicator byte"
      BY <2>2 DEF Reason
    <3>5. QED
      BY <3>3, <3>4 DEF Refuses
  <2>3. CASE client.key # Clear
    <3>1. First = Frame("client hello", Clear, 0)
      <4>1. taken + 1 = 1 /\ Greetings = 2
        BY <2>1, <2>3 DEF Greetings
      <4>2. Expected(1, First) /\ 1 <= Greetings
        BY <4>1, FirstFrame
      <4>3. QED
        BY <4>2, Zenon DEF Expected
    <3>2. ~Refused(First)
      BY <3>1 DEF Refused, Encrypted, Frame, Handshakes
    <3>3. QED
      BY <1>1, <1>2, <2>3, <3>2 DEF NoiseFrame, Greets
  <2>4. QED
    BY <2>2, <2>3
<1>3. CASE board.state = "handshake"
  <2>1. taken = 1 /\ client.key # Clear
    BY <1>1, <1>3 DEF WireInv, CodecInv
  <2>2. First = Frame("handshake", client.key, 0) /\ Len(sent) >= 2
    BY <2>1, FirstFrame DEF Expected, Greetings
  <2>3. /\ First.kind = "handshake" /\ First.key = client.key
        /\ ~Refused(First)
    BY <2>2 DEF Refused, Encrypted, Frame, Handshakes
  <2>4. CASE client.key = board.key
    BY <1>1, <1>3, <2>2, <2>3, <2>4 DEF NoiseFrame, Joins
  <2>5. CASE client.key # board.key
    <3>1. Reason = "Handshake MAC failure"
      BY <2>1, <2>5 DEF Reason
    <3>2. Decoded(First) = Result("failed", <<Frame("Handshake MAC failure", Clear, 0)>>, "error")
      BY <1>1, <1>3, <2>3, <2>5 DEF NoiseFrame, Reject
    <3>3. QED
      BY <3>1, <3>2 DEF Refuses
  <2>6. QED
    BY <2>4, <2>5
<1>4. CASE board.state = "transport"
  <2>1. taken = Len(handled) + 2 /\ client.key = board.key /\ Len(handled) \in Nat
    BY <1>1, <1>4, LenProperties DEF WireInv, CodecInv, TypeInv
  <2>2. First.kind = "data" /\ First.key = board.key /\ First.number = Len(handled) + 1
    <3>1. Greetings = 2 /\ taken + 1 > 2
      BY <2>1 DEF Greetings
    <3>2. First.kind = "data" /\ First.key = client.key /\ First.number = (taken + 1) - 2
      BY <3>1, FirstFrame DEF Expected
    <3>3. QED
      BY <2>1, <3>2
  <2>3. Encrypted(First)
    BY <2>2 DEF Encrypted
  <2>4. CASE First.long
    <3>1. Reason = "Bad data packet"
      BY <2>1 DEF Reason
    <3>2. Decoded(First) = Result("failed", <<Frame("Bad data packet", Clear, 0)>>, "error")
      BY <1>1, <1>4, <2>3, <2>4 DEF Refused, RefusedFrame, Reject
    <3>3. QED
      BY <3>1, <3>2 DEF Refuses
  <2>5. CASE ~First.long
    <3>1. ~Refused(First)
      BY <2>3, <2>5 DEF Refused
    <3>2. Buffered >= Pieces
      BY <3>1 DEF Decides, Whole
    <3>3. QED
      BY <1>1, <1>4, <2>1, <2>2, <3>1, <3>2 DEF NoiseFrame, Hands
  <2>6. QED
    BY <2>4, <2>5
<1>5. CASE board.state = "failed"
  BY <1>1, <1>5 DEF WireInv, CodecInv
<1>6. QED
  BY <1>1, <1>2, <1>3, <1>4, <1>5 DEF States

-----------------------------------------------------------------------------
(***************************************************************************)
(* The events that follow.                                                 *)
(***************************************************************************)

\* A sequence with one more at its end.
LEMMA Appended ==
  ASSUME NEW S, NEW q \in Seq(S), NEW x \in S
  PROVE  /\ Append(q, x) \in Seq(S)
         /\ DOMAIN q \subseteq Int /\ Len(q) \in Nat /\ Len(Append(q, x)) = Len(q) + 1
         /\ \A i \in DOMAIN q : i \in DOMAIN Append(q, x) /\ Append(q, x)[i] = q[i] /\ i < Len(q) + 1
         /\ Len(q) + 1 \in DOMAIN Append(q, x) /\ Append(q, x)[Len(q) + 1] = x
         /\ \A i \in DOMAIN Append(q, x) : i \in DOMAIN q \/ i = Len(q) + 1
  BY AppendProperties, LenProperties

\* The events of the session, and the frames they send.
LEMMA EventTypes ==
  /\ Error \in EventType /\ Error.op = "error"
  /\ \A f \in FrameType : /\ Send(f) \in EventType /\ Send(f).op = "send"
                          /\ Send(f).frame = f
  /\ \A kind \in Kinds, key \in AnyKey, number \in Nat :
        Frame(kind, key, number) \in FrameType /\ Frame(kind, key, number).kind = kind
<1>1. Error \in EventType /\ Error.op = "error"
  BY DEF Error, EventType
<1>2. ASSUME NEW f \in FrameType
      PROVE  Send(f) \in EventType /\ Send(f).op = "send" /\ Send(f).frame = f
  BY DEF Send, EventType
<1>3. ASSUME NEW kind \in Kinds, NEW key \in AnyKey, NEW number \in Nat
      PROVE  Frame(kind, key, number) \in FrameType /\ Frame(kind, key, number).kind = kind
  BY DEF Frame, FrameType
<1>4. QED
  BY <1>1, <1>2, <1>3

\* EventsOf, for what the codecs answer.
LEMMA EventsOfNone ==
  ASSUME NEW state, NEW returns
  PROVE  EventsOf(Result(state, <<>>, returns)) =
           <<>> \o CASE returns = "error" -> <<Error>>
                     [] returns = "message" -> <<Send(Frame("data", board.key, First.number))>>
                     [] returns = "nothing" -> <<>>
<1>1. [i \in DOMAIN <<>> |-> Send(<<>>[i])] = <<>>
  OBVIOUS
<1>2. Result(state, <<>>, returns).pending = <<>> /\ Result(state, <<>>, returns).returns = returns
  BY DEF Result
<1>3. QED
  BY <1>1, <1>2 DEF EventsOf

\* A frame is sent before what the codec returned.
LEMMA EventsOfOne ==
  ASSUME NEW state, NEW returns, NEW f
  PROVE  EventsOf(Result(state, <<f>>, returns)) =
           <<Send(f)>> \o CASE returns = "error" -> <<Error>>
                     [] returns = "message" -> <<Send(Frame("data", board.key, First.number))>>
                     [] returns = "nothing" -> <<>>
<1>1. [i \in DOMAIN <<f>> |-> Send(<<f>>[i])] = <<Send(f)>>
  OBVIOUS
<1>2. Result(state, <<f>>, returns).pending = <<f>> /\ Result(state, <<f>>, returns).returns = returns
  BY DEF Result
<1>3. QED
  BY <1>1, <1>2 DEF EventsOf

\* After an error the session only says so.
LEMMA ErrorEvents ==
  ASSUME NEW e \in Seq(EventType), NEW state
  PROVE  /\ e \o EventsOf(Result(state, <<>>, "error")) = Append(e, Error)
         /\ \A f \in FrameType :
              e \o EventsOf(Result(state, <<f>>, "error")) = Append(Append(e, Send(f)), Error)
<1>1. EventsOf(Result(state, <<>>, "error")) = <<Error>>
  BY EventsOfNone
<1>2. e \o <<Error>> = Append(e, Error)
  BY EventTypes, AppendIsConcat
<1>3. ASSUME NEW f \in FrameType
      PROVE  e \o EventsOf(Result(state, <<f>>, "error")) = Append(Append(e, Send(f)), Error)
  <2>1. EventsOf(Result(state, <<f>>, "error")) = <<Send(f)>> \o <<Error>>
    BY EventsOfOne
  <2>2. Send(f) \in EventType /\ Error \in EventType
    BY EventTypes
  <2>3. <<Send(f)>> \in Seq(EventType) /\ <<Error>> \in Seq(EventType)
    BY <2>2
  <2>4. e \o (<<Send(f)>> \o <<Error>>) = (e \o <<Send(f)>>) \o <<Error>>
    BY <2>3, ConcatAssociative
  <2>5. e \o <<Send(f)>> = Append(e, Send(f)) /\ Append(e, Send(f)) \in Seq(EventType)
    BY <2>2, AppendIsConcat, AppendProperties
  <2>6. Append(e, Send(f)) \o <<Error>> = Append(Append(e, Send(f)), Error)
    BY <2>2, <2>5, AppendIsConcat
  <2>7. QED
    BY <2>1, <2>4, <2>5, <2>6
<1>4. QED
  BY <1>1, <1>2, <1>3

\* Without an error the message is answered, or a frame of the handshake sent.
LEMMA OtherEvents ==
  ASSUME NEW e \in Seq(EventType), NEW state, WireInv, First \in FrameType
  PROVE  /\ e \o EventsOf(Result(state, <<>>, "message")) =
               Append(e, Send(Frame("data", board.key, First.number)))
         /\ \A f \in FrameType : e \o EventsOf(Result(state, <<f>>, "nothing")) = Append(e, Send(f))
<1>1. Frame("data", board.key, First.number) \in FrameType
  <2>1. board.key \in AnyKey /\ First.number \in Nat
    BY DEF WireInv, TypeInv, FrameType, BoardType
  <2>2. "data" \in Kinds
    BY DEF Kinds
  <2>3. QED
    BY <2>1, <2>2, EventTypes
<1>2. EventsOf(Result(state, <<>>, "message")) = <<Send(Frame("data", board.key, First.number))>>
  BY EventsOfNone
<1>3. ASSUME NEW f \in FrameType
      PROVE  EventsOf(Result(state, <<f>>, "nothing")) = <<Send(f)>>
  <2>1. EventsOf(Result(state, <<f>>, "nothing")) = <<Send(f)>> \o <<>>
    <3>1. EventsOf(Result(state, <<f>>, "nothing")) =
            <<Send(f)>> \o CASE "nothing" = "error" -> <<Error>>
                            [] "nothing" = "message" -> <<Send(Frame("data", board.key, First.number))>>
                            [] "nothing" = "nothing" -> <<>>
      BY EventsOfOne
    <3>2. (CASE "nothing" = "error" -> <<Error>>
             [] "nothing" = "message" -> <<Send(Frame("data", board.key, First.number))>>
             [] "nothing" = "nothing" -> <<>>) = <<>>
      OBVIOUS
    <3>3. QED
      BY <3>1, <3>2, Zenon
  <2>2. <<Send(f)>> \in Seq(EventType)
    BY EventTypes
  <2>3. QED
    BY <2>1, <2>2, ConcatEmptySeq
<1>4. ASSUME NEW f \in FrameType
      PROVE  e \o <<Send(f)>> = Append(e, Send(f))
  BY EventTypes, AppendIsConcat
<1>5. QED
  BY <1>1, <1>2, <1>3, <1>4

-----------------------------------------------------------------------------
(***************************************************************************)
(* The connection thread.                                                  *)
(***************************************************************************)

\* What the client may rely on while the thread works.
LEMMA SameClient ==
  ASSUME WireInv, UNCHANGED <<client, sent, arrived>>
  PROVE  SentInv'
  BY DEF WireInv, SentInv, Expected, Greetings

\* A read brings at least one piece more.
LEMMA ReadInv ==
  ASSUME WireInv, Read
  PROVE  WireInv'
<1>1. PICK n \in arrived + 1 .. Pieces * Len(sent) : arrived' = n
  BY DEF Read
<1>2. /\ board.at = "read" /\ board' = [board EXCEPT !.at = "decode"]
      /\ UNCHANGED <<client, sent, taken, events, told, handled>>
  BY DEF Read
<1>3. arrived \in Nat /\ Len(sent) \in Nat
  BY LenProperties DEF WireInv, TypeInv
<1>4. arrived' \in Nat /\ arrived' <= Pieces * Len(sent)
  BY <1>1, <1>3 DEF Pieces
<1>5. /\ board' \in BoardType
      /\ board'.key = board.key /\ board'.state = board.state /\ board'.at = "decode"
  BY <1>2 DEF WireInv, TypeInv, BoardType
<1>6. TypeInv' /\ SentInv'
  BY <1>2, <1>4, <1>5 DEF WireInv, TypeInv, SentInv, Expected, Greetings
<1>7. ~Failing'
  BY <1>2 DEF WireInv, Failing
<1>8. CodecInv'
  BY <1>2, <1>5, <1>7 DEF WireInv, CodecInv, Failing
<1>9. HandledAsSent' /\ ReasonInv' /\ HandshakeInv'
  BY <1>2, <1>5 DEF WireInv, HandledAsSent, ReasonInv, HandshakeInv, Told, Reason
<1>10. QED
  BY <1>5, <1>6, <1>7, <1>8, <1>9 DEF WireInv

\* The loop of on_bytes has nothing more to decode.
LEMMA NothingToDecode ==
  ASSUME WireInv, Decode, ~Decides
  PROVE  WireInv'
<1>1. /\ board.at = "decode" /\ board' = [board EXCEPT !.at = "dispatch"]
      /\ UNCHANGED <<client, sent, arrived, taken, events, told, handled>>
  BY DEF Decode
<1>2. /\ board' \in BoardType
      /\ board'.key = board.key /\ board'.state = board.state /\ board'.at = "dispatch"
  BY <1>1 DEF WireInv, TypeInv, BoardType
<1>3. CodecInv'
  BY <1>1, <1>2 DEF WireInv, CodecInv, Failing
<1>4. HandledAsSent' /\ ReasonInv' /\ HandshakeInv'
  BY <1>1, <1>2 DEF WireInv, HandledAsSent, ReasonInv, HandshakeInv, Told, Reason
<1>5. TypeInv'
  BY <1>1, <1>2 DEF WireInv, TypeInv
<1>6. QED
  BY <1>1, <1>2, <1>3, <1>4, <1>5, SameClient DEF WireInv

\* The answer is an error: it is the last event, after its reason.
LEMMA ErrorInv ==
  ASSUME WireInv, board.at = "decode",
         board' \in BoardType,
         board'.key = board.key, board'.at = "dispatch",
         board.key = Clear => board'.state = board.state,
         taken' = taken + 1,
         UNCHANGED <<client, sent, arrived, told, handled>>,
         NEW e \in Seq(EventType), events' = Append(e, Error),
         \/ board.key = Clear /\ e = events
         \/ board.key # Clear /\ e = Append(events, Send(Frame(Reason, Clear, 0)))
  PROVE  WireInv'
<1> DEFINE told1 == Send(Frame(Reason, Clear, 0))
<1>1. /\ events \in Seq(EventType) /\ taken \in Nat
      /\ \A i \in DOMAIN events : events[i].op # "error"
  BY DEF WireInv, TypeInv, Failing
<1>2. /\ events' \in Seq(EventType)
      /\ DOMAIN e \subseteq Int /\ Len(e) \in Nat
      /\ \A i \in DOMAIN e : i \in DOMAIN events' /\ events'[i] = e[i] /\ i < Len(e) + 1
      /\ Len(e) + 1 \in DOMAIN events' /\ events'[Len(e) + 1] = Error
      /\ \A i \in DOMAIN events' : i \in DOMAIN e \/ i = Len(e) + 1
  BY EventTypes, Appended
<1>3. Error.op = "error"
  BY EventTypes
<1>4. Reason \in Kinds /\ Reason # "handshake" /\ Clear \in AnyKey
  BY DEF Reason, Reasons, Kinds, AnyKey
<1>5. told1 \in EventType /\ told1.op = "send" /\ told1.frame.kind = Reason
  BY <1>4, EventTypes
<1> HIDE DEF told1
<1>6. Failing'
  BY <1>2, <1>3 DEF Failing
<1>7. board.key # Clear =>
        /\ Len(events) + 1 \in DOMAIN e /\ e[Len(events) + 1] = told1
        /\ \A i \in DOMAIN events : i \in DOMAIN e /\ e[i] = events[i]
        /\ \A i \in DOMAIN e : i \in DOMAIN events \/ i = Len(events) + 1
  BY <1>1, <1>5, Appended DEF told1
<1>8. \A i \in DOMAIN e : e[i].op # "error"
  BY <1>1, <1>5, <1>7
<1>9. ReasonInv'
  <2>1. Reason' = Reason
    BY DEF Reason
  <2>2. ASSUME board.key # Clear, NEW j \in DOMAIN events', events'[j].op = "error"
        PROVE  \E i \in DOMAIN events' : i < j /\ events'[i].op = "send" /\ events'[i].frame.kind = Reason
    <3>1. j = Len(e) + 1
      BY <1>2, <1>8, <2>2
    <3>2. Len(events) + 1 \in DOMAIN e /\ e[Len(events) + 1] = told1
      BY <1>7, <2>2
    <3>3. QED
      BY <1>2, <1>5, <3>1, <3>2
  <2>3. QED
    BY <2>1, <2>2 DEF ReasonInv
<1>10. HandshakeInv'
  <2>1. ASSUME NEW i \in DOMAIN events', events'[i].op = "send", events'[i].frame.kind = "handshake"
        PROVE  Len(sent) >= 2
    <3>1. i \in DOMAIN e /\ events'[i] = e[i]
      BY <1>2, <1>3, <2>1
    <3>2. i \in DOMAIN events /\ events[i] = e[i]
      BY <1>4, <1>5, <1>7, <2>1, <3>1
    <3>3. QED
      BY <2>1, <3>1, <3>2 DEF WireInv, HandshakeInv
  <2>2. QED
    BY <2>1 DEF WireInv, HandshakeInv, Told
<1>11. HandledAsSent' /\ CodecInv'
  BY <1>6 DEF WireInv, HandledAsSent, CodecInv
<1>12. TypeInv' /\ SentInv'
  <2>1. taken' \in Nat
    BY <1>1
  <2>2. TypeInv'
    BY <1>2, <2>1 DEF WireInv, TypeInv
  <2>3. QED
    BY <2>2, SameClient
<1>13. QED
  BY <1>9, <1>10, <1>11, <1>12 DEF WireInv

\* The answer is to go on: something more to send.
LEMMA GoesOnInv ==
  ASSUME WireInv, board.at = "decode",
         board' \in BoardType,
         board'.key = board.key, board'.at = "decode",
         board.key = Clear => board'.state = board.state,
         taken' = taken + 1,
         UNCHANGED <<client, sent, arrived, told>>,
         handled' \in Seq(HandledType), HandledAsSent', CodecInv',
         NEW f \in FrameType, events' = Append(events, Send(f)),
         f.kind = "handshake" => Len(sent) >= 2
  PROVE  WireInv'
<1>1. /\ events \in Seq(EventType) /\ taken \in Nat
      /\ \A i \in DOMAIN events : events[i].op # "error"
  BY DEF WireInv, TypeInv, Failing
<1>2. Send(f) \in EventType /\ Send(f).op = "send" /\ Send(f).frame = f
  BY EventTypes
<1>3. /\ events' \in Seq(EventType)
      /\ \A i \in DOMAIN events : i \in DOMAIN events' /\ events'[i] = events[i]
      /\ events'[Len(events) + 1] = Send(f)
      /\ \A i \in DOMAIN events' : i \in DOMAIN events \/ i = Len(events) + 1
  BY <1>1, <1>2, Appended
<1>4. ~Failing' /\ \A i \in DOMAIN events' : events'[i].op # "error"
  BY <1>1, <1>2, <1>3 DEF Failing
<1>5. ReasonInv'
  BY <1>4 DEF ReasonInv
<1>6. HandshakeInv'
  <2>1. ASSUME NEW i \in DOMAIN events', events'[i].op = "send", events'[i].frame.kind = "handshake"
        PROVE  Len(sent) >= 2
    <3>1. CASE i = Len(events) + 1
      BY <1>2, <1>3, <2>1, <3>1
    <3>2. CASE i \in DOMAIN events
      BY <1>3, <2>1, <3>2 DEF WireInv, HandshakeInv
    <3>3. QED
      BY <1>3, <2>1, <3>1, <3>2
  <2>2. QED
    BY <2>1 DEF WireInv, HandshakeInv, Told
<1>7. TypeInv' /\ SentInv'
  <2>1. taken' \in Nat
    BY <1>1
  <2>2. TypeInv'
    BY <1>3, <2>1 DEF WireInv, TypeInv
  <2>3. QED
    BY <2>2, SameClient
<1>8. QED
  BY <1>4, <1>5, <1>6, <1>7 DEF WireInv

\* The loop of on_bytes takes a frame.
LEMMA DecodeInv ==
  ASSUME WireInv, Decode, Decides
  PROVE  WireInv'
<1> DEFINE d == Decoded(First)
<1>1. /\ board.at = "decode"
      /\ events' = events \o EventsOf(d)
      /\ board' = [board EXCEPT !.state = d.state, !.at = IF GoesOn(d) THEN "decode" ELSE "dispatch"]
      /\ handled' = IF d.returns # "message" THEN handled
                    ELSE Append(handled, [number |-> First.number, whole |-> Buffered >= Pieces])
      /\ taken' = taken + 1
      /\ UNCHANGED <<client, sent, arrived, told>>
  BY DEF Decode
<1>2. /\ events \in Seq(EventType) /\ handled \in Seq(HandledType) /\ taken \in Nat
      /\ board \in BoardType /\ board.key \in AnyKey /\ board.state \in States
      /\ Clear \in AnyKey /\ First \in FrameType /\ First.number \in Nat
  BY <1>1, FirstFrame DEF WireInv, TypeInv, BoardType, FrameType, AnyKey
<1>3. ~Failing
  BY <1>1 DEF WireInv
<1>4. RefusesClear(d) \/ Refuses(d) \/ Hands(d) \/ Greets(d) \/ Joins(d)
  BY <1>1, PlainAnswers, NoiseAnswers
<1> HIDE DEF d
<1>5. ASSUME d.state \in States
      PROVE  /\ board' \in BoardType /\ board'.key = board.key /\ board'.state = d.state
             /\ board'.at = IF GoesOn(d) THEN "decode" ELSE "dispatch"
  BY <1>1, <1>2, <1>5 DEF BoardType
<1>6. CASE RefusesClear(d)
  <2>1. d = Result(board.state, <<>>, "error") /\ board.key = Clear
    BY <1>6 DEF RefusesClear
  <2>2. d.state = board.state /\ d.returns = "error" /\ ~GoesOn(d)
    BY <2>1 DEF Result, GoesOn
  <2>3. events' = Append(events, Error)
    BY <1>1, <1>2, <2>1, ErrorEvents
  <2>4. board' \in BoardType /\ board'.key = board.key /\ board'.at = "dispatch" /\ board'.state = board.state
    BY <1>2, <1>5, <2>2
  <2>5. UNCHANGED handled
    BY <1>1, <2>2
  <2>6. QED
    BY <1>1, <1>2, <2>1, <2>3, <2>4, <2>5, ErrorInv
<1>7. CASE Refuses(d)
  <2>1. board.key # Clear /\ d = Result("failed", <<Frame(Reason, Clear, 0)>>, "error")
    BY <1>7 DEF Refuses
  <2>2. d.state = "failed" /\ d.returns = "error" /\ ~GoesOn(d)
    BY <2>1 DEF Result, GoesOn
  <2>3. Frame(Reason, Clear, 0) \in FrameType
    <3>1. Reason \in Kinds
      BY DEF Reason, Reasons, Kinds
    <3>2. QED
      BY <1>2, <3>1, EventTypes
  <2>4. events' = Append(Append(events, Send(Frame(Reason, Clear, 0))), Error)
    BY <1>1, <1>2, <2>1, <2>3, ErrorEvents
  <2>5. Append(events, Send(Frame(Reason, Clear, 0))) \in Seq(EventType)
    BY <1>2, <2>3, EventTypes, Appended
  <2>6. board' \in BoardType /\ board'.key = board.key /\ board'.at = "dispatch"
    BY <1>5, <2>2 DEF States
  <2>7. UNCHANGED handled
    BY <1>1, <2>2
  <2>8. QED
    BY <1>1, <2>1, <2>4, <2>5, <2>6, <2>7, ErrorInv
<1>8. CASE Hands(d)
  <2>1. /\ d = Result(board.state, <<>>, "message") /\ client.key = board.key
        /\ First.number = Len(handled) + 1 /\ Buffered >= Pieces
        /\ board.key # Clear => board.state = "transport"
    BY <1>8 DEF Hands
  <2>2. d.state = board.state /\ d.returns = "message" /\ GoesOn(d)
    BY <2>1 DEF Result, GoesOn
  <2>3. Frame("data", board.key, First.number) \in FrameType /\ Frame("data", board.key, First.number).kind # "handshake"
    <3>1. "data" \in Kinds /\ "data" # "handshake"
      BY DEF Kinds
    <3>2. /\ Frame("data", board.key, First.number) \in FrameType
          /\ Frame("data", board.key, First.number).kind = "data"
      BY <1>2, <3>1, EventTypes, Zenon
    <3>3. QED
      BY <3>1, <3>2
  <2>4. events' = Append(events, Send(Frame("data", board.key, First.number)))
    BY <1>1, <1>2, <2>1, OtherEvents
  <2>5. board' \in BoardType /\ board'.key = board.key /\ board'.at = "decode" /\ board'.state = board.state
    BY <1>2, <1>5, <2>2
  <2>6. handled' = Append(handled, [number |-> Len(handled) + 1, whole |-> TRUE])
    BY <1>1, <2>1, <2>2
  <2>7. [number |-> Len(handled) + 1, whole |-> TRUE] \in HandledType
    BY <1>2, LenProperties DEF HandledType
  <2>8. /\ handled' \in Seq(HandledType) /\ Len(handled') = Len(handled) + 1 /\ Len(handled) \in Nat
        /\ \A i \in DOMAIN handled' :
             handled'[i] = [number |-> i, whole |-> TRUE]
    <3>1. \A i \in DOMAIN handled : handled[i] = [number |-> i, whole |-> TRUE]
      BY DEF WireInv, HandledAsSent
    <3>2. /\ handled' \in Seq(HandledType) /\ Len(handled') = Len(handled) + 1 /\ Len(handled) \in Nat
          /\ \A i \in DOMAIN handled : handled'[i] = handled[i]
          /\ handled'[Len(handled) + 1] = [number |-> Len(handled) + 1, whole |-> TRUE]
          /\ \A i \in DOMAIN handled' : i \in DOMAIN handled \/ i = Len(handled) + 1
      BY <1>2, <2>6, <2>7, Appended
    <3>3. QED
      BY <3>1, <3>2
  <2>9. HandledAsSent'
    BY <1>1, <2>1, <2>5, <2>8 DEF HandledAsSent
  <2>10. CodecInv'
    <3>1. board.key = Clear => taken' = Len(handled')
      BY <1>1, <1>2, <1>3, <2>8 DEF WireInv, CodecInv
    <3>2. board.key # Clear => taken' = Len(handled') + 2
      <4>1. taken' = taken + 1 /\ board.at # "closed"
        BY <1>1
      <4>2. board.key # Clear => taken = Len(handled) + 2
        BY <1>3, <2>1, <4>1 DEF WireInv, CodecInv
      <4>3. QED
        BY <1>2, <2>8, <4>1, <4>2
    <3>3. /\ client'.key = board'.key /\ board'.key = board.key
          /\ board.key # Clear => board'.state = "transport"
      BY <1>1, <2>1, <2>5
    <3>4. QED
      BY <3>1, <3>2, <3>3 DEF CodecInv
  <2>11. QED
    BY <1>1, <2>3, <2>4, <2>5, <2>8, <2>9, <2>10, GoesOnInv
<1>9. CASE Greets(d)
  <2>1. /\ board.key # Clear /\ client.key # Clear /\ board.state = "client hello"
        /\ d = Result("handshake", <<Frame("server hello", Clear, 0)>>, "nothing")
    BY <1>9 DEF Greets
  <2>2. d.state = "handshake" /\ d.returns = "nothing" /\ GoesOn(d)
    BY <2>1 DEF Result, GoesOn
  <2>3. Frame("server hello", Clear, 0) \in FrameType /\ Frame("server hello", Clear, 0).kind # "handshake"
    BY <1>2, EventTypes DEF Kinds
  <2>4. events' = Append(events, Send(Frame("server hello", Clear, 0)))
    BY <1>1, <1>2, <2>1, <2>3, OtherEvents
  <2>5. board' \in BoardType /\ board'.key = board.key /\ board'.at = "decode" /\ board'.state = "handshake"
    BY <1>5, <2>2 DEF States
  <2>6. UNCHANGED handled
    BY <1>1, <2>2
  <2>7. taken = 0 /\ handled = <<>>
    BY <1>1, <1>3, <2>1 DEF WireInv, CodecInv
  <2>8. HandledAsSent'
    BY <2>6, <2>7 DEF HandledAsSent
  <2>9. CodecInv'
    <3>1. taken' = 1 /\ handled' = <<>> /\ client'.key # Clear
      <4>1. taken' = taken + 1 /\ UNCHANGED client
        BY <1>1
      <4>2. client'.key # Clear
        BY <2>1, <4>1, Zenon
      <4>3. QED
        BY <2>6, <2>7, <4>1, <4>2
    <3>2. board'.key # Clear /\ board'.state = "handshake"
      BY <2>1, <2>5
    <3>3. QED
      BY <3>1, <3>2 DEF CodecInv
  <2>10. QED
    BY <1>1, <1>2, <2>1, <2>3, <2>4, <2>5, <2>6, <2>8, <2>9, GoesOnInv
<1>10. CASE Joins(d)
  <2>1. /\ board.key # Clear /\ client.key = board.key /\ board.state = "handshake" /\ Len(sent) >= 2
        /\ d = Result("transport", <<Frame("handshake", board.key, 0)>>, "nothing")
    BY <1>10 DEF Joins
  <2>2. d.state = "transport" /\ d.returns = "nothing" /\ GoesOn(d)
    BY <2>1 DEF Result, GoesOn
  <2>3. Frame("handshake", board.key, 0) \in FrameType
    BY <1>2, EventTypes DEF Kinds, Handshakes
  <2>4. events' = Append(events, Send(Frame("handshake", board.key, 0)))
    BY <1>1, <1>2, <2>1, <2>3, OtherEvents
  <2>5. board' \in BoardType /\ board'.key = board.key /\ board'.at = "decode" /\ board'.state = "transport"
    BY <1>5, <2>2 DEF States
  <2>6. UNCHANGED handled
    BY <1>1, <2>2
  <2>7. taken = 1 /\ handled = <<>>
    BY <1>1, <1>3, <2>1 DEF WireInv, CodecInv
  <2>8. HandledAsSent'
    BY <2>6, <2>7 DEF HandledAsSent
  <2>9. CodecInv'
    <3>1. taken' = 2 /\ handled' = <<>> /\ Len(handled') = 0 /\ client'.key = board'.key
      BY <1>1, <2>1, <2>5, <2>6, <2>7
    <3>2. board'.key # Clear /\ board'.state = "transport"
      BY <2>1, <2>5
    <3>3. QED
      BY <3>1, <3>2 DEF CodecInv
  <2>10. QED
    BY <1>1, <1>2, <2>1, <2>3, <2>4, <2>5, <2>6, <2>8, <2>9, GoesOnInv
<1>11. QED
  BY <1>4, <1>6, <1>7, <1>8, <1>9, <1>10

\* What an event of the thread does.
LEMMA DispatchInv ==
  ASSUME WireInv, Dispatch
  PROVE  WireInv'
<1>1. /\ board.at = "dispatch" /\ UNCHANGED <<client, sent, arrived, taken, handled>>
      /\ events \in Seq(EventType) /\ told \in Seq(FrameType) /\ board \in BoardType
  BY DEF WireInv, TypeInv, Dispatch
<1>2. CASE events = <<>>
  <2>1. board' = [board EXCEPT !.at = "read"] /\ UNCHANGED <<events, told>>
    BY <1>2 DEF Dispatch
  <2>2. board' \in BoardType /\ board'.key = board.key /\ board'.state = board.state /\ board'.at = "read"
    BY <1>1, <2>1 DEF BoardType
  <2>3. ~Failing /\ ~Failing'
    BY <1>2, <2>1 DEF Failing
  <2>4. CodecInv'
    BY <1>1, <2>1, <2>2, <2>3 DEF WireInv, CodecInv
  <2>5. HandledAsSent' /\ HandshakeInv'
    BY <1>1, <2>1, <2>2 DEF WireInv, HandledAsSent, HandshakeInv, Told
  <2>6. ReasonInv'
    BY <1>2, <2>1, <2>2 DEF ReasonInv
  <2>7. TypeInv'
    BY <1>1, <2>1, <2>2 DEF WireInv, TypeInv
  <2>8. QED
    BY <1>1, <2>2, <2>3, <2>4, <2>5, <2>6, <2>7, SameClient DEF WireInv
<1>3. CASE events # <<>>
  <2>1. /\ 1 \in DOMAIN events /\ events[1] = Head(events) /\ Head(events) \in EventType
        /\ Len(events) \in Nat /\ Len(events) > 0
        /\ DOMAIN events \subseteq Int
    BY <1>1, <1>3, HeadTailProperties, LenProperties, EmptySeq
  <2>2. CASE Head(events).op = "send"
    <3>1. told' = Append(told, Head(events).frame) /\ events' = Tail(events) /\ UNCHANGED board
      BY <1>3, <2>2 DEF Dispatch
    <3>2. Head(events).frame \in FrameType
      BY <2>1, <2>2 DEF EventType
    <3>3. /\ events' \in Seq(EventType) /\ DOMAIN events' \subseteq Int
          /\ \A i \in DOMAIN events' : i + 1 \in DOMAIN events /\ events'[i] = events[i + 1]
          /\ \A i \in DOMAIN events : i # 1 => i - 1 \in DOMAIN events' /\ events'[i - 1] = events[i]
      BY <1>1, <1>3, <3>1, HeadTailProperties, LenProperties
    <3>4. /\ told' \in Seq(FrameType)
          /\ \A i \in DOMAIN told : i \in DOMAIN told' /\ told'[i] = told[i]
          /\ Len(told) + 1 \in DOMAIN told' /\ told'[Len(told) + 1] = Head(events).frame
          /\ \A i \in DOMAIN told' : i \in DOMAIN told \/ i = Len(told) + 1
      BY <1>1, <3>1, <3>2, Appended
    <3>5. /\ \A kind : Told(kind) => Told(kind)'
          /\ \A kind : kind = Head(events).frame.kind => Told(kind)'
          /\ \A kind : Told(kind)' => Told(kind) \/ kind = Head(events).frame.kind
      BY <3>4 DEF Told
    <3>6. Failing => Failing'
      BY <2>1, <2>2, <3>3 DEF Failing
    <3>7. CodecInv'
      BY <1>1, <3>1, <3>6 DEF WireInv, CodecInv
    <3>8. HandledAsSent'
      BY <1>1, <3>1 DEF WireInv, HandledAsSent
    <3>9. ReasonInv'
      <4>1. Reason' = Reason
        BY <1>1, <3>1 DEF Reason
      <4>2. ASSUME board.key # Clear, NEW j \in DOMAIN events', events'[j].op = "error", ~Told(Reason)'
            PROVE  \E i \in DOMAIN events' : i < j /\ events'[i].op = "send" /\ events'[i].frame.kind = Reason
        <5>1. j + 1 \in DOMAIN events /\ events[j + 1].op = "error" /\ ~Told(Reason) /\ j \in Int
          BY <3>3, <3>5, <4>1, <4>2
        <5>2. PICK i \in DOMAIN events : i < j + 1 /\ events[i].op = "send" /\ events[i].frame.kind = Reason
          BY <4>2, <5>1 DEF WireInv, ReasonInv
        <5>3. i # 1
          <6>1. ASSUME i = 1 PROVE FALSE
            <7>1. Reason = Head(events).frame.kind
              BY <2>1, <5>2, <6>1
            <7>2. \A kind : kind = Reason => Told(kind)'
              BY <3>5, <7>1
            <7>3. QED
              BY <4>1, <4>2, <7>2
          <6>2. QED
            BY <6>1
        <5>4. i - 1 \in DOMAIN events' /\ events'[i - 1] = events[i] /\ i - 1 < j
          BY <2>1, <3>3, <5>1, <5>2, <5>3
        <5>5. QED
          BY <5>2, <5>4
      <4>3. QED
        BY <1>1, <3>1, <4>1, <4>2 DEF ReasonInv
    <3>10. HandshakeInv'
      <4>1. ASSUME NEW i \in DOMAIN events', events'[i].op = "send", events'[i].frame.kind = "handshake"
            PROVE  Len(sent) >= 2
        BY <3>3, <4>1 DEF WireInv, HandshakeInv
      <4>2. ASSUME Told("handshake")' PROVE Len(sent) >= 2
        BY <2>1, <2>2, <3>5, <4>2 DEF WireInv, HandshakeInv
      <4>3. QED
        BY <1>1, <4>1, <4>2 DEF HandshakeInv
    <3>11. TypeInv'
      BY <1>1, <3>1, <3>3, <3>4 DEF WireInv, TypeInv
    <3>12. QED
      BY <1>1, <3>1, <3>7, <3>8, <3>9, <3>10, <3>11, SameClient DEF WireInv
  <2>3. CASE Head(events).op = "error"
    <3>1. board' = [board EXCEPT !.at = "closed"] /\ events' = <<>> /\ UNCHANGED told
      BY <1>3, <2>3 DEF Dispatch
    <3>2. board' \in BoardType /\ board'.key = board.key /\ board'.state = board.state /\ board'.at = "closed"
      BY <1>1, <3>1 DEF BoardType
    <3>3. Reason' = Reason /\ \A kind : Told(kind)' <=> Told(kind)
      BY <1>1, <3>1, <3>2 DEF Reason, Told
    <3>4. board.key # Clear => Told(Reason)
      <4>1. ASSUME board.key # Clear PROVE Told(Reason)
        <5>1. \/ Told(Reason)
              \/ \E i \in DOMAIN events : i < 1 /\ events[i].op = "send" /\ events[i].frame.kind = Reason
          BY <2>1, <2>3, <4>1 DEF WireInv, ReasonInv
        <5>2. \A i \in DOMAIN events : i >= 1
          BY <1>1, LenProperties
        <5>3. QED
          BY <2>1, <5>1, <5>2
      <4>2. QED
        BY <4>1
    <3>5. ReasonInv'
      BY <3>1, <3>2, <3>3, <3>4 DEF ReasonInv
    <3>6. CodecInv'
      BY <3>2 DEF CodecInv
    <3>7. HandledAsSent'
      BY <1>1, <3>2 DEF WireInv, HandledAsSent
    <3>8. HandshakeInv'
      <4>1. \A i \in DOMAIN events' : FALSE
        BY <3>1
      <4>2. Told("handshake")' => Len(sent') >= 2
        BY <1>1, <3>3 DEF WireInv, HandshakeInv
      <4>3. QED
        BY <4>1, <4>2 DEF HandshakeInv
    <3>9. TypeInv' /\ ~Failing'
      <4>1. events' \in Seq(EventType) /\ ~Failing'
        BY <3>1 DEF Failing
      <4>2. QED
        BY <1>1, <3>1, <3>2, <4>1 DEF WireInv, TypeInv
    <3>10. QED
      BY <1>1, <3>2, <3>5, <3>6, <3>7, <3>8, <3>9, SameClient DEF WireInv
  <2>4. QED
    BY <2>1, <2>2, <2>3 DEF EventType
<1>4. QED
  BY <1>2, <1>3

-----------------------------------------------------------------------------
(***************************************************************************)
(* The client, and the theorems.                                           *)
(***************************************************************************)

\* A frame more from the client, the next one it owes.
LEMMA SaysInv ==
  ASSUME WireInv, NEW f \in FrameType, Says(f), Expected(Len(sent) + 1, f),
         client' \in [key : AnyKey, said : Nat], client'.key = client.key,
         Len(sent) < Greetings => client'.said = 0,
         Len(sent) >= Greetings => client'.said = client.said + 1
  PROVE  WireInv'
<1>1. /\ sent' = Append(sent, f) /\ UNCHANGED <<board, arrived, taken, events, told, handled>>
      /\ sent \in Seq(FrameType) /\ arrived \in Nat
  BY DEF Says, WireInv, TypeInv
<1>2. /\ sent' \in Seq(FrameType) /\ Len(sent) \in Nat /\ Len(sent') = Len(sent) + 1
      /\ \A i \in DOMAIN sent : sent'[i] = sent[i]
      /\ sent'[Len(sent) + 1] = f
      /\ \A i \in DOMAIN sent' : i \in DOMAIN sent \/ i = Len(sent) + 1
  BY <1>1, Appended
<1>3. TypeInv'
  BY <1>1, <1>2 DEF WireInv, TypeInv
<1>4. Greetings' = Greetings /\ Greetings \in Nat
  BY DEF Greetings
<1>5. SentInv'
  <2>1. \A i \in DOMAIN sent' : Expected(i, sent'[i])
    BY <1>2 DEF WireInv, SentInv
  <2>2. \A i \in DOMAIN sent' : Expected(i, sent[i])'
    BY <1>4, <2>1 DEF Expected
  <2>3. arrived' <= Pieces * Len(sent')
    <3>1. arrived <= 3 * Len(sent)
      BY DEF WireInv, SentInv, Pieces
    <3>2. arrived' <= 3 * Len(sent')
      BY <1>1, <1>2, <3>1
    <3>3. QED
      BY <3>2 DEF Pieces
  <2>4. Len(sent') < Greetings' => client'.said = 0
    BY <1>2, <1>4
  <2>5. Len(sent') >= Greetings' => Len(sent') = Greetings' + client'.said
    <3>1. client.said \in Nat
      BY DEF WireInv, TypeInv
    <3>2. CASE Len(sent) < Greetings
      BY <1>2, <1>4, <3>2
    <3>3. CASE Len(sent) >= Greetings
      <4>1. Len(sent) = Greetings + client.said
        BY <3>3 DEF WireInv, SentInv
      <4>2. QED
        BY <1>2, <1>4, <3>1, <3>3, <4>1
    <3>4. QED
      BY <1>2, <1>4, <3>2, <3>3
  <2>6. QED
    BY <2>2, <2>3, <2>4, <2>5 DEF SentInv
<1>6. (Failing' <=> Failing) /\ Reason' = Reason /\ \A kind : Told(kind)' <=> Told(kind)
  BY <1>1 DEF Failing, Reason, Told
<1>7. CodecInv'
  BY <1>1, <1>6 DEF WireInv, CodecInv
<1>8. HandledAsSent'
  BY <1>1 DEF WireInv, HandledAsSent
<1>9. ReasonInv'
  BY <1>1, <1>6 DEF WireInv, ReasonInv
<1>10. HandshakeInv'
  <2>1. \A i \in DOMAIN events : events[i].op = "send" /\ events[i].frame.kind = "handshake" => Len(sent) >= 2
    BY DEF WireInv, HandshakeInv
  <2>2. Told("handshake") => Len(sent) >= 2
    BY DEF WireInv, HandshakeInv
  <2>3. Len(sent) >= 2 => Len(sent') >= 2
    BY <1>2
  <2>4. \A i \in DOMAIN events' : events'[i].op = "send" /\ events'[i].frame.kind = "handshake" => Len(sent') >= 2
    BY <1>1, <2>1, <2>3
  <2>5. Told("handshake")' => Len(sent') >= 2
    BY <1>6, <2>2, <2>3
  <2>6. QED
    BY <2>4, <2>5 DEF HandshakeInv
<1>11. QED
  BY <1>1, <1>3, <1>5, <1>6, <1>7, <1>8, <1>9, <1>10 DEF WireInv

\* A client with a key greets, and then shows which key it has.
LEMMA GreetInv ==
  ASSUME WireInv, Greet
  PROVE  WireInv'
<1>1. /\ client.key # Clear /\ Len(sent) < 2 /\ UNCHANGED client
      /\ client \in [key : AnyKey, said : Nat] /\ sent \in Seq(FrameType) /\ Len(sent) \in Nat
      /\ client.key \in AnyKey /\ Clear \in AnyKey /\ Greetings = 2
  BY LenProperties DEF Greet, WireInv, TypeInv, Greetings, AnyKey
<1>2. client.said = 0
  BY <1>1 DEF WireInv, SentInv
<1>6. /\ client' \in [key : AnyKey, said : Nat] /\ client'.key = client.key /\ client'.said = 0
      /\ ~(Len(sent) >= Greetings)
  BY <1>1, <1>2
<1>3. CASE sent = <<>>
  <2>1. Says(Frame("client hello", Clear, 0)) /\ Len(sent) = 0
    BY <1>3 DEF Greet
  <2>2. Frame("client hello", Clear, 0) \in FrameType
    BY <1>1, EventTypes DEF Kinds, Handshakes
  <2>3. Expected(Len(sent) + 1, Frame("client hello", Clear, 0))
    <3>1. Len(sent) + 1 = 1 /\ ~(1 > Greetings)
      <4>1. Len(sent) = 0
        BY <2>1
      <4>2. Greetings = 2
        BY <1>1
      <4>3. QED
        BY <4>1, <4>2
    <3>2. Expected(1, Frame("client hello", Clear, 0))
      BY <3>1, Zenon DEF Expected
    <3>3. QED
      BY <3>1, <3>2
  <2>4. QED
    BY <1>1, <1>2, <1>6, <2>1, <2>2, <2>3, SaysInv
<1>4. CASE sent # <<>>
  <2>1. Says(Frame("handshake", client.key, 0)) /\ Len(sent) = 1
    <3>1. Len(sent) # 0
      BY <1>1, <1>4, EmptySeq
    <3>2. Says(Frame("handshake", client.key, 0))
      BY <1>4, Zenon DEF Greet
    <3>3. Len(sent) \in Nat /\ Len(sent) < 2
      BY <1>1
    <3>4. Len(sent) = 1
      <4>1. \A n \in Nat : n < 2 /\ n # 0 => n = 1
        OBVIOUS
      <4>2. QED
        BY <3>1, <3>3, <4>1
    <3>5. QED
      BY <3>2, <3>4
  <2>2. Frame("handshake", client.key, 0) \in FrameType
    BY <1>1, EventTypes DEF Kinds, Handshakes
  <2>3. Expected(Len(sent) + 1, Frame("handshake", client.key, 0))
    BY <1>1, <2>1 DEF Expected
  <2>4. QED
    BY <1>1, <1>2, <1>6, <2>1, <2>2, <2>3, SaysInv
<1>5. QED
  BY <1>3, <1>4

\* A client sends its next message.
LEMMA SayInv ==
  ASSUME WireInv, Say
  PROVE  WireInv'
<1>1. /\ Ready /\ client' = [client EXCEPT !.said = @ + 1]
      /\ client \in [key : AnyKey, said : Nat] /\ client.said \in Nat /\ client.key \in AnyKey
      /\ sent \in Seq(FrameType) /\ Len(sent) \in Nat /\ Greetings \in Nat
  BY LenProperties DEF Say, WireInv, TypeInv, Greetings
<1>2. PICK long \in BOOLEAN : Says([Frame("data", client.key, client.said + 1) EXCEPT !.long = long])
  BY DEF Say
<1> DEFINE f == [Frame("data", client.key, client.said + 1) EXCEPT !.long = long]
<1>3. Len(sent) >= Greetings
  <2>1. CASE client.key = Clear
    BY <1>1, <2>1 DEF Greetings
  <2>2. CASE client.key # Clear
    <3>1. Told("handshake")
      BY <1>1, <2>2 DEF Ready, Told
    <3>2. QED
      BY <2>2, <3>1 DEF WireInv, HandshakeInv, Greetings
  <2>3. QED
    BY <2>1, <2>2
<1>4. Len(sent) = Greetings + client.said
  BY <1>3 DEF WireInv, SentInv
<1>5. f \in FrameType /\ f.kind = "data" /\ f.key = client.key /\ f.number = client.said + 1
  <2>1. "data" \in Kinds
    BY DEF Kinds
  <2>2. QED
    BY <1>1, <2>1 DEF Frame, FrameType
<1>6. Says(f)
  BY <1>2
<1> HIDE DEF f
<1>7. Expected(Len(sent) + 1, f)
  <2>1. Len(sent) + 1 > Greetings /\ f.number = (Len(sent) + 1) - Greetings
    BY <1>1, <1>4, <1>5
  <2>2. ~(Len(sent) + 1 <= Greetings)
    BY <1>1, <2>1
  <2>3. QED
    BY <1>5, <2>1, <2>2, Zenon DEF Expected
<1>8. client' \in [key : AnyKey, said : Nat] /\ client'.key = client.key /\ client'.said = client.said + 1
  BY <1>1
<1>9. QED
  BY <1>1, <1>3, <1>5, <1>6, <1>7, <1>8, SaysInv

\* A connection begins with nothing sent.
LEMMA InitInv == Init => WireInv
<1> SUFFICES ASSUME Init PROVE WireInv
  OBVIOUS
<1>1. PICK k \in AnyKey, c \in AnyKey :
        /\ board = [key |-> k, state |-> "client hello", at |-> "read"]
        /\ client = [key |-> c, said |-> 0]
  BY DEF Init, AnyKey
<1>2. /\ sent = <<>> /\ events = <<>> /\ told = <<>> /\ handled = <<>>
      /\ arrived = 0 /\ taken = 0
  BY DEF Init
<1>3. TypeInv
  <2>1. board \in BoardType /\ client \in [key : AnyKey, said : Nat]
    BY <1>1 DEF BoardType, States
  <2>2. /\ sent \in Seq(FrameType) /\ events \in Seq(EventType)
        /\ told \in Seq(FrameType) /\ handled \in Seq(HandledType)
    BY <1>2
  <2>3. QED
    BY <1>2, <2>1, <2>2 DEF TypeInv
<1>4. board.state = "client hello" /\ board.at = "read" /\ client.said = 0
  BY <1>1
<1>5. /\ \A i \in DOMAIN sent : FALSE
      /\ \A i \in DOMAIN events : FALSE
      /\ \A i \in DOMAIN told : FALSE
      /\ \A i \in DOMAIN handled : FALSE
      /\ Len(sent) = 0 /\ Len(handled) = 0
  BY <1>2
<1>6. SentInv
  <2>1. Greetings \in Nat /\ (0 >= Greetings => Greetings = 0)
    BY DEF Greetings
  <2>2. \A i \in DOMAIN sent : Expected(i, sent[i])
    BY <1>5
  <2>3. Len(sent) < Greetings => client.said = 0
    BY <1>4
  <2>4. Len(sent) >= Greetings => Len(sent) = Greetings + client.said
    <3>1. Len(sent) >= Greetings => 0 >= Greetings
      BY <1>5
    <3>2. ASSUME Len(sent) >= Greetings PROVE Len(sent) = Greetings + client.said
      <4>1. Greetings = 0
        BY <2>1, <3>1, <3>2
      <4>2. Len(sent) = 0 /\ client.said = 0
        BY <1>4, <1>5
      <4>3. QED
        BY <4>1, <4>2
    <3>3. QED
      BY <3>2
  <2>5. arrived <= Pieces * Len(sent)
    <3>1. arrived = 0 /\ Len(sent) = 0
      BY <1>2, <1>5
    <3>2. QED
      BY <3>1 DEF Pieces
  <2>6. QED
    BY <2>2, <2>3, <2>4, <2>5 DEF SentInv
<1>7. ~Failing /\ CodecInv
  <2>1. ~Failing
    BY <1>5 DEF Failing
  <2>2. taken = 0 /\ handled = <<>> /\ Len(handled) = 0
    BY <1>2, <1>5
  <2>3. board.key = Clear => Len(handled) = taken /\ ~(taken > 0)
    BY <2>2
  <2>4. board.state # "handshake" /\ board.state # "transport" /\ board.state # "failed"
    BY <1>4
  <2>5. board.key = Clear => Len(handled) = taken /\ (taken > 0 => client.key = Clear)
    BY <2>3, Zenon
  <2>6. board.state = "client hello" => taken = 0 /\ handled = <<>>
    BY <2>2, Zenon
  <2>7. /\ board.state = "handshake" => taken = 1 /\ handled = <<>> /\ client.key # Clear
        /\ board.state = "transport" => taken = Len(handled) + 2 /\ client.key = board.key
    BY <2>4, Zenon
  <2>8. QED
    BY <2>1, <2>4, <2>5, <2>6, <2>7, Zenon DEF CodecInv
<1>8. HandledAsSent
  BY <1>2, <1>5 DEF HandledAsSent
<1>9. ReasonInv /\ HandshakeInv
  BY <1>4, <1>5 DEF ReasonInv, HandshakeInv, Told
<1>10. QED
  BY <1>3, <1>4, <1>6, <1>7, <1>8, <1>9 DEF WireInv

\* Every step keeps the invariant.
LEMMA StepInv == WireInv /\ [Next]_vars => WireInv'
<1> SUFFICES ASSUME WireInv, [Next]_vars PROVE WireInv'
  OBVIOUS
<1>1. CASE Read
  BY <1>1, ReadInv
<1>2. CASE Decode
  BY <1>2, NothingToDecode, DecodeInv
<1>3. CASE Dispatch
  BY <1>3, DispatchInv
<1>4. CASE Greet
  BY <1>4, GreetInv
<1>5. CASE Say
  BY <1>5, SayInv
<1>6. CASE UNCHANGED vars
  <2>1. UNCHANGED <<board, client, sent, arrived, taken, events, told, handled>>
    BY <1>6 DEF vars
  <2>2. TypeInv'
    BY <2>1 DEF WireInv, TypeInv
  <2>3. (Failing' <=> Failing) /\ Reason' = Reason /\ \A kind : Told(kind)' <=> Told(kind)
    BY <2>1 DEF Failing, Reason, Told
  <2>4. CodecInv' /\ HandledAsSent'
    BY <2>1, <2>3 DEF WireInv, CodecInv, HandledAsSent
  <2>5. ReasonInv'
    BY <2>1, <2>3 DEF WireInv, ReasonInv
  <2>6. HandshakeInv'
    BY <2>1, <2>3 DEF WireInv, HandshakeInv
  <2>7. QED
    BY <2>1, <2>2, <2>3, <2>4, <2>5, <2>6, SameClient DEF WireInv
<1>7. QED
  BY <1>1, <1>2, <1>3, <1>4, <1>5, <1>6 DEF Next

\* The invariant holds for any keys and any number of messages: the client's
\* key and the frames taken tell where the codec is.
THEOREM WireInvariant == Spec => []WireInv
BY InitInv, StepInv, PTL DEF Spec

\* However the bytes of a connection arrive, Session::handle is given the messages
\* the client sent, whole and in order, and only with the board's own key.
THEOREM WireHandles == Spec => []HandledAsSent
<1>1. WireInv => HandledAsSent
  BY DEF WireInv
<1>2. QED
  BY <1>1, WireInvariant, PTL

\* A connection to an encrypted board is closed only after the reason, which says
\* what is wrong with the client's key, was written to it (session.rs:46).
THEOREM WireExplains == Spec => []RefusalExplained
<1>1. WireInv => RefusalExplained
  BY DEF WireInv, ReasonInv, Reason, RefusalExplained, Closed
<1>2. QED
  BY <1>1, WireInvariant, PTL
=============================================================================
