------------------------------ MODULE Headers ------------------------------
(***************************************************************************)
(* Lengths on the wire: the varints of the plaintext header                *)
(* (esphome/src/varint.rs, frame.rs), written by one function and read by  *)
(* two, one on a stream and one on a buffer that may end anywhere.         *)
(*                                                                         *)
(* The code has groups of 7 bits in numbers of 32, so that the fifth group *)
(* keeps 4 of its bits: Base is 128 and Modulus 2^32.  Any others are as   *)
(* good that have five groups and a last one cut short.  A byte is a group *)
(* and whether another byte follows.                                       *)
(***************************************************************************)
EXTENDS Integers, Sequences

CONSTANTS Base,       \* values of a group
          Modulus,    \* numbers there are
          MaxPayload  \* MAX_PAYLOAD, the longest a frame may be

MaxGroups == 5

ASSUME HeadersAssumption ==
  /\ Base \in Nat /\ Base > 1 /\ Modulus \in Nat
  /\ Base * Base * Base * Base < Modulus /\ Modulus < Base * Base * Base * Base * Base
  /\ MaxPayload \in Nat /\ MaxPayload + 1 < Modulus

Byte(group, more) == [group |-> group, more |-> more]
Bytes == [group : 0 .. Base - 1, more : BOOLEAN]

TooLong == <<"varint too long">>
Incomplete == <<"more bytes are needed">>
TooLarge == <<"payload too large">>

-----------------------------------------------------------------------------
\* What is left of a number before each of its groups (v >>= 7).
Rests(v) ==
  LET rest2 == v \div Base
      rest3 == rest2 \div Base
      rest4 == rest3 \div Base
  IN <<v, rest2, rest3, rest4, rest4 \div Base>>

\* Mutant: a group of zeros ends the number.
EncodeShort(v) ==
  LET rest == Rests(v)
      ends(n) == n = MaxGroups \/ rest[n + 1] % Base = 0
      count == CHOOSE n \in 1 .. MaxGroups : ends(n) /\ \A m \in 1 .. n - 1 : ~ends(m)
  IN [i \in 1 .. count |-> Byte(rest[i] % Base, i < count)]

\* varint::encode: groups from the lowest, until nothing is left of the number.
Encode7(v) ==
  LET rest == Rests(v)
      count == CHOOSE n \in 1 .. MaxGroups : rest[n] < Base /\ \A m \in 1 .. n - 1 : rest[m] >= Base
  IN [i \in 1 .. count |-> Byte(rest[i] % Base, i < count)]

\* What the groups up to the n-th make: bits past the 32nd are lost.
ValueOf(bytes, n) ==
  LET group(i) == IF i <= n THEN bytes[i].group ELSE 0
  IN (group(1) + Base * (group(2) + Base * (group(3) + Base * (group(4) + Base * group(5))))) % Modulus

Ends(bytes) == {n \in DOMAIN bytes : ~bytes[n].more /\ \A m \in 1 .. n - 1 : bytes[m].more}

\* varint::read: gives up when the next group would be shifted out.
Read(stream) ==
  IF \E n \in Ends(stream) : n <= MaxGroups
  THEN LET n == CHOOSE n \in Ends(stream) : TRUE IN <<ValueOf(stream, n), n>>
  ELSE IF Len(stream) >= MaxGroups THEN TooLong ELSE <<"closed">>

\* varint::parse: gives up at the byte after the last group.
Parse(buf) ==
  IF \E n \in Ends(buf) : n <= MaxGroups
  THEN LET n == CHOOSE n \in Ends(buf) : TRUE IN <<ValueOf(buf, n), n>>
  ELSE IF Len(buf) > MaxGroups THEN TooLong ELSE Incomplete

\* The header of a frame after its indicator: length of the payload, identifier.
Header(length, id) == Encode7(length) \o Encode7(id)

\* decode_plaintext on a buffer that starts with a header: a length is refused only
\* when the identifier has come as well.
ParseHeader(buf) ==
  LET length == Parse(buf)
      rest == SubSeq(buf, length[2] + 1, Len(buf))
  IN IF length \in {TooLong, Incomplete} THEN length
     ELSE IF Parse(rest) \in {TooLong, Incomplete} THEN Parse(rest)
     ELSE IF length[1] > MaxPayload THEN TooLarge
     ELSE <<length[1], Parse(rest)[1], length[2] + Parse(rest)[2]>>
=============================================================================
