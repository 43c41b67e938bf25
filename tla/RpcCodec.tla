------------------------------ MODULE RpcCodec ------------------------------
(***************************************************************************)
(* The framing of RPC messages (rpc_codec.cc): what FillEmptyBuffer puts   *)
(* on a byte stream and what OnMessage finds at the front of the bytes it  *)
(* has read.                                                               *)
(*                                                                         *)
(* The length, the tag and the checksum are one unit each (4 bytes in the  *)
(* code: "RPC0" is the tag); a payload has `size` units.  A unit records   *)
(* the message it was cut from and its place in the frame, so a length     *)
(* read from anything but the first unit of a frame is garbage and a       *)
(* checksum holds only over the units of one message, in order.            *)
(***************************************************************************)
EXTENDS Integers, Sequences

CONSTANT kMaxMessageLength   \* the longest tag + payload + checksum accepted

kHeaderLength == 1
kChecksumLength == 1
kTagLength == 1
kMinMessageLength == kTagLength + kChecksumLength

ASSUME LengthAssumption ==
  kMaxMessageLength \in Nat /\ kMaxMessageLength >= kMinMessageLength

MessageLength(m) == kTagLength + m.size + kChecksumLength

\* Tag, payload and checksum are appended, then the length is put in front.
FillEmptyBuffer(m) ==
  [i \in 1..(kHeaderLength + MessageLength(m)) |-> [of |-> m, at |-> i]]

GetReadableInt32(in) ==
  IF Head(in).at = kHeaderLength THEN MessageLength(Head(in).of)
                                 ELSE kMaxMessageLength + 1

\* adler32 over tag and payload against the last unit.
ValidateChecksum(body) ==
  body = Tail(FillEmptyBuffer(body[Len(body)].of))

InvalidLength(len) == len > kMaxMessageLength \/ len < kMinMessageLength

\* Mutant: a frame is only seen once a byte of the next one is there.
MissingStrict(in) ==
  IF Len(in) <= kHeaderLength + kMinMessageLength
  THEN kHeaderLength + kMinMessageLength + 1 - Len(in)
  ELSE IF InvalidLength(GetReadableInt32(in)) THEN 0
  ELSE IF Len(in) <= kHeaderLength + GetReadableInt32(in)
  THEN kHeaderLength + GetReadableInt32(in) + 1 - Len(in)
  ELSE 0

\* Does OnMessage have to wait for more bytes, and for how many?  ReadFromFd
\* of the blocking variant asks for exactly these.
Missing(in) ==
  IF Len(in) < kHeaderLength + kMinMessageLength
  THEN kHeaderLength + kMinMessageLength - Len(in)
  ELSE IF InvalidLength(GetReadableInt32(in)) THEN 0
  ELSE IF Len(in) < kHeaderLength + GetReadableInt32(in)
  THEN kHeaderLength + GetReadableInt32(in) - Len(in)
  ELSE 0

\* With nothing missing: is the frame at the front accepted?  Both ends use
\* the one tag kRpcTag and the one message type RpcMessage, so of Parse's
\* verdicts only the checksum's can differ.
Acceptable(in) ==
  LET len == GetReadableInt32(in)
  IN  /\ ~InvalidLength(len)
      /\ ValidateChecksum(SubSeq(in, kHeaderLength + 1, kHeaderLength + len))

\* Mutant: the header is left out of the length.
RefreshLengthOnly(in) ==
  SubSeq(in, GetReadableInt32(in) + 1, Len(in))

\* The frame at the front is taken off once its callback has run.
Refresh(in) ==
  SubSeq(in, kHeaderLength + GetReadableInt32(in) + 1, Len(in))
=============================================================================
