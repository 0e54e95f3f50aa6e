------------------------------- MODULE McsStream ------------------------------
(* The frames of an MCS connection: MessageStream of push.rs, whose poll_next     *)
(* cuts tag, length and body out of whatever pieces the socket delivers.          *)
(*                                                                                *)
(* Bytes are numbers below 2 * BASE; in the code BASE is 128.  One action is one  *)
(* round of the loops of poll_next: what the buffer holds is parsed, or the       *)
(* socket is read.  A reader that has got a frame polls again; one that has got   *)
(* an error or None would get nothing but None.                                   *)
EXTENDS Integers, Sequences

CONSTANTS
  BASE,                          (* a byte of a length below it is the last         *)
  MAX_MCS_FRAME_BYTES,
  HeartbeatPing, DataMessageStanza, Close,  (* the tags that matter                 *)
  Undecodable,                   (* bodies that are no DataMessageStanza            *)
  I32_MAX,                       (* the largest i32                                 *)
  MaxBytes                       (* bound: bytes of a connection                    *)

Byte == 0 .. 2 * BASE - 1

ASSUME McsAssumption ==
  /\ BASE \in Nat \ {0}
  /\ MAX_MCS_FRAME_BYTES \in Nat /\ I32_MAX \in Nat /\ MaxBytes \in Nat
  /\ {HeartbeatPing, DataMessageStanza, Close} \subseteq Byte

VARIABLES
  phase,                     (* closed, or where poll_next stands                  *)
  receive_buffer,
  bytes_required,
  last_stream_id_received,
  received,                  (* history: all the socket has delivered              *)
  frames,                    (* history: what the reader has got                   *)
  verdict                    (* history: what ended the stream                     *)

stream == <<phase, receive_buffer, bytes_required, last_stream_id_received,
            received, frames, verdict>>

Phase == {"closed", "parse", "read", "pending", "ended"}
Verdict == {"none", "close", "malformed", "overflow", "eof", "failed"}
Frame == [tag: Byte, body: Seq(Byte), kind: {"ping", "data", "refused", "other"},
          id: 1 .. I32_MAX]

(* No connection.                                                                 *)
StreamInit ==
  /\ phase = "closed"
  /\ receive_buffer = <<>>
  /\ bytes_required = 2
  /\ last_stream_id_received = 0
  /\ received = <<>>
  /\ frames = <<>>
  /\ verdict = "none"

-------------------------------------------------------------------------------
(* try_read_varint: five bytes at most, the low digits first.                    *)
Incomplete == [size |-> 0, offset |-> 0]
Malformed == [size |-> 0, offset |-> 1]

(* The bytes that may end the length.                                            *)
LastBytes(bytes) == {n \in 1 .. 5 : n <= Len(bytes) /\ bytes[n] < BASE}

Digit(bytes, n, k) == IF k <= n THEN bytes[k] % BASE ELSE 0

Number(bytes, n) ==
  Digit(bytes, n, 1) + BASE * (Digit(bytes, n, 2) + BASE * (Digit(bytes, n, 3)
    + BASE * (Digit(bytes, n, 4) + BASE * Digit(bytes, n, 5))))

TryReadVarint(bytes) ==
  IF LastBytes(bytes) = {}
  THEN IF Len(bytes) < 5 THEN Incomplete ELSE Malformed
  ELSE LET n == CHOOSE k \in LastBytes(bytes) : \A j \in LastBytes(bytes) : k <= j
       IN  IF Number(bytes, n) > MAX_MCS_FRAME_BYTES THEN Malformed
           ELSE [size |-> Number(bytes, n), offset |-> n + 1]

(* What becomes of a frame: a body that does not decode is an error for the       *)
(* reader, and the stream goes on.                                                *)
Kind(tag, body) ==
  IF tag = DataMessageStanza THEN IF body \in Undecodable THEN "refused" ELSE "data"
  ELSE IF tag = HeartbeatPing THEN "ping" ELSE "other"

-------------------------------------------------------------------------------
(* MessageStream::new.                                                            *)
Open ==
  /\ phase' = "parse"
  /\ receive_buffer' = <<>>
  /\ bytes_required' = 2
  /\ last_stream_id_received' = 0
  /\ received' = <<>>
  /\ frames' = <<>>
  /\ verdict' = "none"

End(why) ==
  /\ phase' = "ended"
  /\ bytes_required' = 0
  /\ receive_buffer' = <<>>
  /\ verdict' = why

Header == TryReadVarint(Tail(receive_buffer))

ParseClose ==
  /\ phase = "parse"
  /\ receive_buffer # <<>> /\ Head(receive_buffer) = Close
  /\ End("close")
  /\ UNCHANGED <<last_stream_id_received, received, frames>>

Parses ==
  /\ phase = "parse"
  /\ receive_buffer # <<>> /\ Head(receive_buffer) # Close

ParseMalformed ==
  /\ Parses
  /\ Header = Malformed
  /\ End("malformed")
  /\ UNCHANGED <<last_stream_id_received, received, frames>>

HasLength == Parses /\ Header \notin {Malformed, Incomplete}

FrameLen == Header.offset + Header.size

Body == SubSeq(receive_buffer, Header.offset + 1, FrameLen)

Rest == SubSeq(receive_buffer, FrameLen + 1, Len(receive_buffer))

(* Faulty variant of AfterFrame: the read size of the last frame stays.           *)
KeepRequired == bytes_required

(* The next frame can be smaller.                                                 *)
AfterFrame == 2

(* Faulty variant of NextStreamId: a body that does not decode does not count.    *)
NextDecodedId(kind) ==
  IF kind = "refused" THEN last_stream_id_received ELSE last_stream_id_received + 1

NextStreamId(kind) == last_stream_id_received + 1

ParseFrame ==
  /\ HasLength
  /\ FrameLen <= Len(receive_buffer)
  /\ last_stream_id_received < I32_MAX
  /\ LET tag == Head(receive_buffer)
         kind == Kind(tag, Body)
     IN  /\ last_stream_id_received' = NextStreamId(kind)
         /\ frames' = Append(frames, [tag |-> tag, body |-> Body, kind |-> kind,
                                      id |-> last_stream_id_received'])
  /\ receive_buffer' = Rest
  /\ bytes_required' = AfterFrame
  /\ UNCHANGED <<phase, received, verdict>>

ParseOverflow ==
  /\ HasLength
  /\ FrameLen <= Len(receive_buffer)
  /\ last_stream_id_received = I32_MAX
  /\ End("overflow")
  /\ UNCHANGED <<last_stream_id_received, received, frames>>

(* How many bytes must be there before it is worth to parse again.                *)
NeedBody ==
  /\ HasLength
  /\ FrameLen > Len(receive_buffer)
  /\ bytes_required' = FrameLen

NeedLength ==
  /\ Parses
  /\ Header = Incomplete
  /\ bytes_required' = Len(receive_buffer) + 1

NeedFrame ==
  /\ phase = "parse"
  /\ receive_buffer = <<>>
  /\ UNCHANGED bytes_required

ParseMore ==
  /\ NeedBody \/ NeedLength \/ NeedFrame
  /\ phase' = "read"
  /\ UNCHANGED <<receive_buffer, last_stream_id_received, received, frames, verdict>>

Read ==
  /\ phase = "read"
  /\ \E n \in 1 .. MaxBytes - Len(received) : \E bytes \in [1 .. n -> Byte] :
       /\ receive_buffer' = receive_buffer \o bytes
       /\ received' = received \o bytes
  /\ phase' = IF Len(receive_buffer') >= bytes_required THEN "parse" ELSE "read"
  /\ UNCHANGED <<bytes_required, last_stream_id_received, frames, verdict>>

(* There is nothing to read, and poll_next returns; the next poll parses what     *)
(* has been read so far once more.                                                *)
Pend ==
  /\ phase = "read"
  /\ phase' = "pending"
  /\ UNCHANGED <<receive_buffer, bytes_required, last_stream_id_received, received, frames, verdict>>

PollAgain ==
  /\ phase = "pending"
  /\ phase' = "parse"
  /\ UNCHANGED <<receive_buffer, bytes_required, last_stream_id_received, received, frames, verdict>>

ReadEnds ==
  /\ phase = "read"
  /\ End("eof") \/ End("failed")
  /\ UNCHANGED <<last_stream_id_received, received, frames>>

(* The reader drops the stream.                                                   *)
Drop ==
  /\ phase # "closed"
  /\ phase' = "closed"
  /\ receive_buffer' = <<>>
  /\ bytes_required' = 2
  /\ last_stream_id_received' = 0
  /\ received' = <<>>
  /\ frames' = <<>>
  /\ verdict' = "none"

PollNext ==
  \/ ParseClose \/ ParseMalformed \/ ParseFrame \/ ParseOverflow \/ ParseMore
  \/ Read \/ Pend \/ PollAgain \/ ReadEnds

StreamNext == (phase = "closed" /\ Open) \/ PollNext \/ Drop

StreamSpec == StreamInit /\ [][StreamNext]_stream

-------------------------------------------------------------------------------
(* Properties.                                                                    *)

StreamTypeOK ==
  /\ phase \in Phase
  /\ receive_buffer \in Seq(Byte)
  /\ bytes_required \in Nat
  /\ last_stream_id_received \in 0 .. I32_MAX
  /\ received \in Seq(Byte)
  /\ frames \in Seq(Frame)
  /\ verdict \in Verdict

(* When poll_next leaves its reader waiting for the socket, no frame that has     *)
(* arrived as a whole waits with it: nobody would get it before something else    *)
(* is sent.                                                                       *)
WholeFrame ==
  /\ receive_buffer # <<>> /\ Head(receive_buffer) # Close
  /\ Header \notin {Malformed, Incomplete}
  /\ FrameLen <= Len(receive_buffer)

NothingHeld == phase = "pending" => ~WholeFrame

(* The same bytes in one piece, decoded from the front: where the length after    *)
(* position p ends, what it says, and the frames from there on.                   *)
LengthEnds(bytes, p) ==
  {n \in 1 .. 5 : /\ p + n < Len(bytes) /\ bytes[p + 1 + n] < BASE
                  /\ \A k \in 1 .. n - 1 : bytes[p + 1 + k] >= BASE}

Low(bytes, p, n) ==
  LET low[k \in 1 .. n] ==
        IF k = n THEN bytes[p + 1 + k] ELSE bytes[p + 1 + k] - BASE + BASE * low[k + 1]
  IN  low

Says(bytes, p, n) == Low(bytes, p, n)[1]

EndAt(bytes, p, n) == p + 1 + n + Says(bytes, p, n)

WholeAt(bytes, p) ==
  {n \in LengthEnds(bytes, p) : /\ bytes[p + 1] # Close
                                /\ Says(bytes, p, n) <= MAX_MCS_FRAME_BYTES
                                /\ EndAt(bytes, p, n) <= Len(bytes)}

LengthAt(bytes, p) == CHOOSE n \in WholeAt(bytes, p) : TRUE

FrameAt(bytes, p, id) ==
  LET n == LengthAt(bytes, p)
      body == SubSeq(bytes, p + 1 + n + 1, EndAt(bytes, p, n))
  IN  [tag |-> bytes[p + 1], body |-> body, kind |-> Kind(bytes[p + 1], body), id |-> id]

FramesFrom(bytes) ==
  LET from[id \in 1 .. I32_MAX + 1] ==
        [p \in 0 .. Len(bytes) |->
           IF id > I32_MAX \/ WholeAt(bytes, p) = {} THEN <<>>
           ELSE <<FrameAt(bytes, p, id)>>
                  \o from[id + 1][EndAt(bytes, p, LengthAt(bytes, p))]]
  IN  from

Decoded(bytes) == FramesFrom(bytes)[1][0]

(* However the socket cuts the stream, the reader that waits, or whose stream has *)
(* ended, has got the frames of all that arrived, each once, in order, and with   *)
(* its number, the ones that do not decode included.                              *)
CutsDoNotMatter == phase \in {"pending", "ended"} => frames = Decoded(received)
===============================================================================
