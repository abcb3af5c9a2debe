----------------------------- MODULE WireFrames -----------------------------
(***************************************************************************)
(* Bytes, integers and frames of the wire protocol, and the FrameDecoder    *)
(* both ends read their stream with (protocol.cpp).                        *)
(*                                                                         *)
(* A payload is a sequence of bytes.  Integers are little endian and keep  *)
(* their width in bytes; a value of 2^24 or more reads as Huge, which no   *)
(* limit admits.                                                           *)
(***************************************************************************)
EXTENDS Integers, Sequences

CONSTANTS
  MaxPayload   \* limits.max_payload_bytes

Byte == 0..255
Huge == 256 * 256 * 256

ASSUME MaxPayloadAssumption == MaxPayload \in Nat

----------------------------------------------------------------------------
(* Integers and byte sequences.                                            *)

\* The bytes of a number, least significant first.
LittleEndian(n, width) ==
  [i \in 1..width |-> CASE i = 1 -> n % 256
                        [] i = 2 -> (n \div 256) % 256
                        [] i = 3 -> (n \div 65536) % 256
                        [] i = 4 -> (n \div Huge) % 256
                        [] OTHER -> 0]

Number(bytes) ==
  IF \E i \in DOMAIN bytes : i > 3 /\ bytes[i] # 0 THEN Huge
  ELSE LET At(i) == IF i \in DOMAIN bytes THEN bytes[i] ELSE 0
       IN At(1) + 256 * At(2) + 65536 * At(3)

\* The first `count` bytes as a value, if there are so many.
Take(bytes, count) == SubSeq(bytes, 1, count)
Drop(bytes, count) == SubSeq(bytes, count + 1, Len(bytes))

\* The smaller of what is in flight and what a read of the socket returns.
Piece(bytes, size) == IF Len(bytes) < size THEN Len(bytes) ELSE size

----------------------------------------------------------------------------
(* Frames.  crc32 is stood for by a position-weighted sum modulo a prime,  *)
(* which like it detects every change of a single byte.                    *)

Magic == <<77, 76, 70, 80>>
Version == 1
kMessageTypeCount == 30
kFrameHeaderSize == 16
kFrameTrailerSize == 4
MaxFrame == MaxPayload + kFrameHeaderSize + kFrameTrailerSize

\* (The sum is halved, so that a long sequence does not nest deeply.)
crc32(bytes) ==
  LET sum[first \in Nat, last \in Nat] ==
        IF first = last THEN first * bytes[first]
        ELSE sum[first, (first + last) \div 2] + sum[(first + last) \div 2 + 1, last]
  IN sum[1, Len(bytes)] % 65521

\* encode_frame, of a frame whose payload is not oversized.  Flags are 0.
Header(type, length) ==
  Magic \o LittleEndian(Version, 2) \o LittleEndian(type, 2)
    \o LittleEndian(0, 4) \o LittleEndian(length, 4)
Sealed(body) == body \o LittleEndian(crc32(body), kFrameTrailerSize)
EncodedFrame(type, payload) == Sealed(Header(type, Len(payload)) \o payload)

NoFrame(status) == [status |-> status, type |-> 0, payload |-> <<>>, consumed |-> 0]

\* Mutant: a frame is taken without checking its trailer.
DecodeUnchecked(data) ==
  LET length == Number(SubSeq(data, 13, 16))
      total  == kFrameHeaderSize + length + kFrameTrailerSize
  IN IF Len(data) < kFrameHeaderSize \/ length > MaxPayload \/ Len(data) < total
     THEN NoFrame("NeedMoreData")
     ELSE [status |-> "Ok", type |-> Number(SubSeq(data, 7, 8)),
           payload |-> SubSeq(data, kFrameHeaderSize + 1, kFrameHeaderSize + length),
           consumed |-> total]

\* decode_frame: the checks in the order the code makes them.
decode_frame(data) ==
  IF Len(data) < kFrameHeaderSize THEN NoFrame("NeedMoreData")
  ELSE LET type   == Number(SubSeq(data, 7, 8))
           length == Number(SubSeq(data, 13, 16))
           total  == kFrameHeaderSize + length + kFrameTrailerSize
           body   == SubSeq(data, 1, kFrameHeaderSize + length)
       IN IF Take(data, 4) # Magic THEN NoFrame("WrongMagic")
          ELSE IF Number(SubSeq(data, 5, 6)) # Version THEN NoFrame("UnsupportedVersion")
          ELSE IF type = 0 \/ type > kMessageTypeCount THEN NoFrame("UnknownType")
          ELSE IF length > MaxPayload THEN NoFrame("Oversized")
          ELSE IF Len(data) < total THEN NoFrame("NeedMoreData")
          ELSE IF SubSeq(data, kFrameHeaderSize + length + 1, total)
                    # LittleEndian(crc32(body), kFrameTrailerSize)
          THEN NoFrame("IntegrityFailure")
          ELSE [status |-> "Ok", type |-> type,
                payload |-> Drop(body, kFrameHeaderSize), consumed |-> total]

----------------------------------------------------------------------------
(* FrameDecoder.  `failure` is "Ok" until the stream was refused, and      *)
(* sticks after that (failed_ and failure_ of the code in one).  Bytes     *)
(* already consumed count against the limit until the buffer is used up.   *)

NewDecoder == [buffer |-> <<>>, position |-> 0, failure |-> "Ok"]

Feed(decoder, chunk) ==
  IF decoder.failure # "Ok" THEN decoder
  ELSE IF Len(chunk) > MaxFrame \/ Len(decoder.buffer) + Len(chunk) > MaxFrame
  THEN [decoder EXCEPT !.failure = "Oversized"]
  ELSE IF decoder.position = Len(decoder.buffer)
  THEN [decoder EXCEPT !.buffer = chunk, !.position = 0]
  ELSE [decoder EXCEPT !.buffer = @ \o chunk]

\* What next() returns, without the change it makes to the decoder.
Peek(decoder) ==
  IF decoder.failure # "Ok" THEN NoFrame(decoder.failure)
  ELSE decode_frame(Drop(decoder.buffer, decoder.position))

\* Mutant: next() leaves it to feed() to clear a buffer that is used up.
AdvancedKeepsBuffer(decoder, frame) ==
  IF frame.status = "NeedMoreData" THEN decoder
  ELSE IF frame.status # "Ok" THEN [decoder EXCEPT !.failure = frame.status]
  ELSE [decoder EXCEPT !.position = @ + frame.consumed]

\* The decoder after next() returned the frame.
Advanced(decoder, frame) ==
  IF frame.status = "NeedMoreData" THEN decoder
  ELSE IF frame.status # "Ok" THEN [decoder EXCEPT !.failure = frame.status]
  ELSE IF decoder.position + frame.consumed = Len(decoder.buffer) THEN NewDecoder
  ELSE [decoder EXCEPT !.position = @ + frame.consumed]

\* The decoder after next().
After(decoder) == Advanced(decoder, Peek(decoder))
============================================================================
