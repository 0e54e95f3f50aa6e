--------------------------- MODULE PushClientProofs ---------------------------
(* TypeOK, NothingHeld, CutsDoNotMatter and Readable are invariants of PushClient *)
(* for all values of its constants: any byte stream and any way to cut it, any    *)
(* number of refreshes, registrations and crashes, any message and any padding.   *)
(*                                                                                *)
(* First what MessageStream keeps for every byte stream, however it is cut: the   *)
(* types, and that poll_next asks for no more bytes than the frame it waits for   *)
(* needs.  StreamInv is inductive; a reader that is left waiting has nothing it   *)
(* could have had.  Beside it CutInv: where the reader stands in the bytes, the   *)
(* frames it has got are followed by those of the bytes from there on, whatever   *)
(* is yet to come.                                                                *)
EXTENDS PushClient, SequenceTheorems, WellFoundedInduction, TLAPS

USE McsAssumption

-------------------------------------------------------------------------------
(* The length of a frame.                                                         *)

(* One of the bytes that may end the length is the first.                         *)
LEMMA FirstLastByte ==
  ASSUME NEW S \in SUBSET (1 .. 5), S # {}
  PROVE  \E k \in S : \A j \in S : k <= j
<1> SUFFICES ASSUME \A k \in S : \E j \in S : ~(k <= j)
             PROVE  FALSE
  OBVIOUS
<1>1. 1 \notin S
  OBVIOUS
<1>2. 2 \notin S
  BY <1>1
<1>3. 3 \notin S
  BY <1>1, <1>2
<1>4. 4 \notin S
  BY <1>1, <1>2, <1>3
<1>5. 5 \notin S
  BY <1>1, <1>2, <1>3, <1>4
<1>6. PICK k \in S : k \in 1 .. 5
  OBVIOUS
<1>7. k = 1 \/ k = 2 \/ k = 3 \/ k = 4 \/ k = 5
  BY <1>6
<1> QED
  BY <1>1, <1>2, <1>3, <1>4, <1>5, <1>7

(* The byte that ends the length.                                                 *)
LastByte(bytes) == CHOOSE k \in LastBytes(bytes) : \A j \in LastBytes(bytes) : k <= j

LEMMA LastByteIsFirst ==
  ASSUME NEW bytes \in Seq(Byte), LastBytes(bytes) # {}
  PROVE  /\ LastByte(bytes) \in LastBytes(bytes)
         /\ \A j \in LastBytes(bytes) : LastByte(bytes) <= j
<1>1. LastBytes(bytes) \in SUBSET (1 .. 5)
  BY DEF LastBytes
<1>2. \E k \in LastBytes(bytes) : \A j \in LastBytes(bytes) : k <= j
  BY <1>1, FirstLastByte
<1> QED
  BY <1>2 DEF LastByte

(* A digit is a natural number.                                                   *)
LEMMA DigitType ==
  ASSUME NEW bytes \in Seq(Byte), NEW n \in 1 .. 5, n <= Len(bytes), NEW k \in 1 .. 5
  PROVE  Digit(bytes, n, k) \in Nat
<1>1. CASE k <= n
  <2>1. bytes[k] \in 0 .. 2 * BASE - 1
    BY <1>1 DEF Byte
  <2>2. bytes[k] \in Int
    BY <2>1
  <2>3. bytes[k] % BASE \in 0 .. BASE - 1
    BY <2>2
  <2> QED
    BY <1>1, <2>3 DEF Digit
<1>2. CASE ~(k <= n)
  BY <1>2 DEF Digit
<1> QED
  BY <1>1, <1>2

LEMMA TimesBase ==
  ASSUME NEW a \in Nat, NEW b \in Nat
  PROVE  a + BASE * b \in Nat
<1>1. BASE * b \in Nat
  OBVIOUS
<1> QED
  BY <1>1

LEMMA NumberType ==
  ASSUME NEW bytes \in Seq(Byte), NEW n \in 1 .. 5, n <= Len(bytes)
  PROVE  Number(bytes, n) \in Nat
<1> DEFINE d(k) == Digit(bytes, n, k)
<1>1. d(1) \in Nat /\ d(2) \in Nat /\ d(3) \in Nat /\ d(4) \in Nat /\ d(5) \in Nat
  BY DigitType
<1>2. Number(bytes, n) = d(1) + BASE * (d(2) + BASE * (d(3) + BASE * (d(4) + BASE * d(5))))
  BY DEF Number
<1> HIDE DEF d
<1>3. d(4) + BASE * d(5) \in Nat
  BY <1>1, TimesBase
<1>4. d(3) + BASE * (d(4) + BASE * d(5)) \in Nat
  BY <1>1, <1>3, TimesBase
<1>5. d(2) + BASE * (d(3) + BASE * (d(4) + BASE * d(5))) \in Nat
  BY <1>1, <1>4, TimesBase
<1>6. d(1) + BASE * (d(2) + BASE * (d(3) + BASE * (d(4) + BASE * d(5)))) \in Nat
  BY <1>1, <1>5, TimesBase
<1> QED
  BY <1>2, <1>6

(* try_read_varint finds a length, or says that it cannot.                        *)
Known(bytes) == TryReadVarint(bytes) \notin {Malformed, Incomplete}

LEMMA VarintKnown ==
  ASSUME NEW bytes \in Seq(Byte), Known(bytes)
  PROVE  /\ LastBytes(bytes) # {}
         /\ ~(Number(bytes, LastByte(bytes)) > MAX_MCS_FRAME_BYTES)
         /\ TryReadVarint(bytes) =
              [size |-> Number(bytes, LastByte(bytes)), offset |-> LastByte(bytes) + 1]
BY DEF Known, TryReadVarint, LastByte

LEMMA VarintType ==
  ASSUME NEW bytes \in Seq(Byte), Known(bytes)
  PROVE  /\ TryReadVarint(bytes).size \in Nat
         /\ TryReadVarint(bytes).offset \in 2 .. 6
         /\ TryReadVarint(bytes).offset <= Len(bytes) + 1
<1>1. LastByte(bytes) \in LastBytes(bytes)
  BY VarintKnown, LastByteIsFirst
<1>2. LastByte(bytes) \in 1 .. 5 /\ LastByte(bytes) <= Len(bytes)
  BY <1>1 DEF LastBytes
<1>3. Number(bytes, LastByte(bytes)) \in Nat
  BY <1>2, NumberType
<1> QED
  BY <1>2, <1>3, VarintKnown

(* A length that has been read stays the same whatever comes after it.            *)
LEMMA VarintStable ==
  ASSUME NEW bytes \in Seq(Byte), NEW more \in Seq(Byte), Known(bytes)
  PROVE  TryReadVarint(bytes \o more) = TryReadVarint(bytes)
<1> DEFINE all == bytes \o more
           n == LastByte(bytes)
<1>1. /\ all \in Seq(Byte) /\ Len(all) = Len(bytes) + Len(more)
      /\ \A k \in 1 .. Len(bytes) : all[k] = bytes[k]
      /\ Len(bytes) \in Nat /\ Len(more) \in Nat
  BY ConcatProperties
<1>2. n \in LastBytes(bytes) /\ \A j \in LastBytes(bytes) : n <= j
  BY VarintKnown, LastByteIsFirst
<1>3. n \in 1 .. 5 /\ n <= Len(bytes)
  BY <1>2 DEF LastBytes
<1> HIDE DEF all, n
<1>4. n \in LastBytes(all)
  BY <1>1, <1>2, <1>3 DEF LastBytes
<1>5. \A j \in LastBytes(all) : n <= j
  <2> SUFFICES ASSUME NEW j \in LastBytes(all), ~(n <= j) PROVE FALSE
    OBVIOUS
  <2>1. j \in 1 .. 5 /\ j <= Len(bytes) /\ all[j] < BASE
    BY <1>3 DEF LastBytes
  <2>2. j \in LastBytes(bytes)
    BY <1>1, <2>1 DEF LastBytes
  <2> QED
    BY <1>2, <2>2
<1>6. LastByte(all) = n
  <2>1. LastByte(all) \in LastBytes(all) /\ \A j \in LastBytes(all) : LastByte(all) <= j
    BY <1>1, <1>4, LastByteIsFirst
  <2>2. LastByte(all) <= n /\ n <= LastByte(all)
    BY <1>4, <1>5, <2>1
  <2>3. LastByte(all) \in Int /\ n \in Int
    BY <1>3, <2>1 DEF LastBytes
  <2> QED
    BY <2>2, <2>3
<1>7. \A k \in 1 .. 5 : Digit(all, n, k) = Digit(bytes, n, k)
  BY <1>1, <1>3 DEF Digit
<1>8. Number(all, n) = Number(bytes, n)
  BY <1>7 DEF Number
<1>9. TryReadVarint(all) = [size |-> Number(all, n), offset |-> n + 1]
  <2>1. ~(Number(all, n) > MAX_MCS_FRAME_BYTES)
    BY <1>8, VarintKnown DEF n
  <2> QED
    BY <1>4, <1>6, <2>1 DEF TryReadVarint, LastByte
<1> QED
  BY <1>8, <1>9, VarintKnown DEF all, n

-------------------------------------------------------------------------------
(* The inductive invariant.  Waiting: what poll_next has asked for is one byte    *)
(* more than there is, or what the frame that has begun still needs; with an      *)
(* empty buffer it is the two bytes of the smallest frame.                        *)
Live == phase \in {"parse", "read", "pending"}

Waiting ==
  \/ bytes_required = Len(receive_buffer) + 1
  \/ Known(Tail(receive_buffer)) /\ bytes_required = FrameLen

StreamInv ==
  /\ StreamTypeOK
  /\ Live /\ receive_buffer = <<>> => bytes_required = 2
  /\ phase \in {"read", "pending"} => ~WholeFrame
  /\ phase = "read" /\ receive_buffer # <<>> => Waiting

(* A stream that is closed, new or ended.                                         *)
LEMMA RestInv ==
  ASSUME StreamInv, phase' \in {"closed", "ended"} \/ (phase' = "parse" /\ bytes_required' = 2),
         receive_buffer' = <<>>, bytes_required' \in {0, 2},
         last_stream_id_received' \in {0, last_stream_id_received},
         received' \in {<<>>, received}, frames' \in {<<>>, frames}, verdict' \in Verdict
  PROVE  StreamInv'
<1>1. 0 \in 0 .. I32_MAX /\ <<>> \in Seq(Byte) /\ <<>> \in Seq(Frame)
  OBVIOUS
<1>2. StreamTypeOK
  BY DEF StreamInv
<1>3. phase' \in Phase
  BY DEF Phase
<1>4. receive_buffer' \in Seq(Byte) /\ received' \in Seq(Byte) /\ frames' \in Seq(Frame)
  BY <1>1, <1>2 DEF StreamTypeOK
<1>5. last_stream_id_received' \in 0 .. I32_MAX /\ bytes_required' \in Nat
  BY <1>1, <1>2 DEF StreamTypeOK
<1>6. StreamTypeOK'
  BY <1>3, <1>4, <1>5 DEF StreamTypeOK
<1> QED
  BY <1>6 DEF StreamInv, Live

LEMMA InitStreamInv == StreamInit => StreamInv
<1> SUFFICES ASSUME StreamInit PROVE StreamInv
  OBVIOUS
<1>1. StreamTypeOK
  BY DEF StreamInit, StreamTypeOK, Phase, Verdict
<1> QED
  BY <1>1 DEF StreamInit, StreamInv, Live

(* MessageStream::new, and dropping the stream.                                   *)
LEMMA OpenDropInv == StreamInv /\ (Open \/ Drop) => StreamInv'
BY RestInv DEF Open, Drop, Verdict

(* Every way in which poll_next ends the stream.                                  *)
LEMMA EndInv ==
  ASSUME StreamInv, ParseClose \/ ParseMalformed \/ ParseOverflow \/ ReadEnds
  PROVE  StreamInv'
<1>1. UNCHANGED <<last_stream_id_received, received, frames>>
  BY DEF ParseClose, ParseMalformed, ParseOverflow, ReadEnds
<1>2. \E why \in Verdict : End(why)
  BY DEF ParseClose, ParseMalformed, ParseOverflow, ReadEnds, Verdict
<1> QED
  BY <1>1, <1>2, RestInv DEF End

(* The tail of a buffer that is not empty.                                        *)
LEMMA TailType ==
  ASSUME StreamTypeOK, receive_buffer # <<>>
  PROVE  /\ Tail(receive_buffer) \in Seq(Byte)
         /\ Len(Tail(receive_buffer)) = Len(receive_buffer) - 1
         /\ Head(receive_buffer) \in Byte
         /\ Len(receive_buffer) \in Nat \ {0}
BY HeadTailProperties, EmptySeq DEF StreamTypeOK

LEMMA FrameLenType ==
  ASSUME StreamTypeOK, HasLength
  PROVE  /\ FrameLen \in Nat /\ Header.offset \in 2 .. 6 /\ Header.size \in Nat
         /\ Header.offset <= FrameLen
         /\ Known(Tail(receive_buffer))
<1>1. Tail(receive_buffer) \in Seq(Byte) /\ Known(Tail(receive_buffer))
  BY TailType DEF HasLength, Parses, Header, Known
<1>2. Header.offset \in 2 .. 6 /\ Header.size \in Nat
  BY <1>1, VarintType DEF Header
<1>3. FrameLen = Header.offset + Header.size
  BY DEF FrameLen
<1> HIDE DEF Header, FrameLen
<1> QED
  BY <1>1, <1>2, <1>3

(* A frame: what is left of the buffer is parsed again.                           *)
LEMMA FrameInv == StreamInv /\ ParseFrame => StreamInv'
<1> SUFFICES ASSUME StreamInv, ParseFrame PROVE StreamInv'
  OBVIOUS
<1> DEFINE kind == Kind(Head(receive_buffer), Body)
           id == last_stream_id_received + 1
           frame == [tag |-> Head(receive_buffer), body |-> Body, kind |-> kind, id |-> id]
<1>1. StreamTypeOK /\ HasLength /\ receive_buffer # <<>> /\ FrameLen <= Len(receive_buffer)
  BY DEF ParseFrame, StreamInv, HasLength, Parses
<1>2. /\ FrameLen \in Nat /\ Header.offset \in 2 .. 6
      /\ Len(receive_buffer) \in Nat /\ Head(receive_buffer) \in Byte
      /\ \A k \in 1 .. Len(receive_buffer) : receive_buffer[k] \in Byte
  BY <1>1, FrameLenType, TailType DEF StreamTypeOK
<1>3. Body \in Seq(Byte)
  <2>1. \A k \in Header.offset + 1 .. FrameLen : receive_buffer[k] \in Byte
    BY <1>1, <1>2
  <2>2. Header.offset + 1 \in Int /\ FrameLen \in Int
    BY <1>2
  <2> QED
    BY <2>1, <2>2, SubSeqProperties DEF Body
<1>4. Rest \in Seq(Byte)
  <2>1. \A k \in FrameLen + 1 .. Len(receive_buffer) : receive_buffer[k] \in Byte
    BY <1>1, <1>2
  <2>2. FrameLen + 1 \in Int /\ Len(receive_buffer) \in Int
    BY <1>2
  <2> QED
    BY <2>1, <2>2, SubSeqProperties DEF Rest
<1>5. id \in 1 .. I32_MAX /\ id \in 0 .. I32_MAX /\ last_stream_id_received' = id
  BY <1>1 DEF ParseFrame, StreamTypeOK, NextStreamId
<1>6. kind \in {"ping", "data", "refused", "other"}
  BY DEF Kind
<1>7. frame \in Frame
  <2> HIDE DEF kind, id
  <2> QED
    BY <1>2, <1>3, <1>5, <1>6 DEF Frame
<1>8. frames' = Append(frames, frame)
  BY <1>5 DEF ParseFrame, NextStreamId
<1> HIDE DEF frame, id
<1>9. frames' \in Seq(Frame)
  BY <1>1, <1>7, <1>8, AppendProperties DEF StreamTypeOK
<1>10. /\ receive_buffer' = Rest /\ bytes_required' = 2 /\ phase' = "parse"
       /\ UNCHANGED <<received, verdict>>
  BY DEF ParseFrame, AfterFrame, HasLength, Parses
<1>11. StreamTypeOK'
  BY <1>1, <1>4, <1>5, <1>9, <1>10 DEF StreamTypeOK, Phase
<1> QED
  BY <1>10, <1>11 DEF StreamInv, Live

(* What is there is not enough.                                                   *)
LEMMA MoreInv == StreamInv /\ ParseMore => StreamInv'
<1> SUFFICES ASSUME StreamInv, ParseMore PROVE StreamInv'
  OBVIOUS
<1>1. /\ phase' = "read" /\ Live
      /\ UNCHANGED <<receive_buffer, last_stream_id_received, received, frames, verdict>>
  BY DEF ParseMore, NeedBody, NeedLength, NeedFrame, HasLength, Parses, Live
<1>2. StreamTypeOK /\ Len(receive_buffer) \in Nat
  BY DEF StreamInv, StreamTypeOK
<1>3. CASE NeedBody
  <2>1. FrameLen \in Nat /\ Known(Tail(receive_buffer)) /\ receive_buffer # <<>>
    BY <1>2, <1>3, FrameLenType DEF NeedBody, HasLength, Parses
  <2>2. bytes_required' = FrameLen /\ FrameLen > Len(receive_buffer)
    BY <1>3 DEF NeedBody
  <2>3. StreamTypeOK'
    BY <1>1, <1>2, <2>1, <2>2 DEF StreamTypeOK, Phase
  <2>4. ~WholeFrame'
    BY <1>1, <1>2, <2>1, <2>2 DEF WholeFrame, FrameLen, Header
  <2>5. Waiting'
    BY <1>1, <2>1, <2>2 DEF Waiting, FrameLen, Header
  <2> QED
    BY <1>1, <2>1, <2>3, <2>4, <2>5 DEF StreamInv
<1>4. CASE NeedLength
  <2>1. /\ receive_buffer # <<>> /\ Header = Incomplete
        /\ bytes_required' = Len(receive_buffer) + 1
    BY <1>4 DEF NeedLength, Parses
  <2>2. StreamTypeOK'
    BY <1>1, <1>2, <2>1 DEF StreamTypeOK, Phase
  <2>3. ~WholeFrame' /\ Waiting'
    BY <1>1, <2>1 DEF WholeFrame, Waiting, Header
  <2> QED
    BY <1>1, <2>1, <2>2, <2>3 DEF StreamInv
<1>5. CASE NeedFrame
  <2>1. receive_buffer = <<>> /\ bytes_required' = bytes_required
    BY <1>5 DEF NeedFrame
  <2>2. StreamTypeOK'
    BY <1>1, <1>2, <2>1 DEF StreamTypeOK, Phase
  <2> QED
    BY <1>1, <2>1, <2>2 DEF StreamInv, WholeFrame
<1> QED
  BY <1>3, <1>4, <1>5 DEF ParseMore

(* A read that leaves poll_next short has not completed a frame.                  *)
LEMMA ReadInv == StreamInv /\ Read => StreamInv'
<1> SUFFICES ASSUME StreamInv, Read PROVE StreamInv'
  OBVIOUS
<1>0. PICK n \in 1 .. MaxBytes - Len(received) :
        \E bytes \in [1 .. n -> Byte] : /\ receive_buffer' = receive_buffer \o bytes
                                        /\ received' = received \o bytes
  BY DEF Read
<1>1. PICK bytes \in [1 .. n -> Byte] : /\ receive_buffer' = receive_buffer \o bytes
                                        /\ received' = received \o bytes
  BY <1>0
<1>2. StreamTypeOK /\ Len(receive_buffer) \in Nat /\ Len(received) \in Nat
  BY DEF StreamInv, StreamTypeOK
<1>3. n \in Nat \ {0} /\ bytes \in Seq(Byte) /\ Len(bytes) = n
  <2>1. n \in Nat \ {0}
    BY <1>2
  <2> QED
    BY <2>1
<1>4. /\ receive_buffer' \in Seq(Byte) /\ received' \in Seq(Byte)
      /\ Len(receive_buffer') = Len(receive_buffer) + n
      /\ receive_buffer' # <<>>
  <2>1. /\ receive_buffer' \in Seq(Byte) /\ received' \in Seq(Byte)
        /\ Len(receive_buffer') = Len(receive_buffer) + n
    BY <1>1, <1>2, <1>3, ConcatProperties DEF StreamTypeOK
  <2>2. Len(receive_buffer') # 0
    BY <1>2, <1>3, <2>1
  <2> QED
    BY <2>1, <2>2
<1>5. /\ phase = "read"
      /\ phase' = IF Len(receive_buffer') >= bytes_required THEN "parse" ELSE "read"
      /\ UNCHANGED <<bytes_required, last_stream_id_received, frames, verdict>>
  BY DEF Read
<1>6. StreamTypeOK'
  BY <1>2, <1>4, <1>5 DEF StreamTypeOK, Phase
<1>7. CASE phase' = "parse"
  BY <1>4, <1>6, <1>7 DEF StreamInv, Live
<1>8. CASE phase' = "read"
  <2>1. Len(receive_buffer') < bytes_required /\ bytes_required \in Nat
    BY <1>2, <1>3, <1>4, <1>5, <1>8 DEF StreamTypeOK
  <2>2. CASE receive_buffer = <<>>
    <3>1. bytes_required = 2 /\ Len(receive_buffer') = 1
      <4>1. bytes_required = 2
        BY <1>5, <2>2 DEF StreamInv, Live
      <4>2. Len(receive_buffer) = 0
        BY <2>2
      <4>3. Len(receive_buffer') = n
        BY <1>3, <1>4, <4>2
      <4> QED
        BY <1>3, <2>1, <4>1, <4>3
    <3>2. Tail(receive_buffer') \in Seq(Byte) /\ Len(Tail(receive_buffer')) = 0
      <4> DEFINE buffer == receive_buffer'
      <4>1. buffer \in Seq(Byte) /\ buffer # <<>> /\ Len(buffer) = 1
        BY <1>4, <3>1
      <4> HIDE DEF buffer
      <4>2. Tail(buffer) \in Seq(Byte) /\ Len(Tail(buffer)) = Len(buffer) - 1
        BY <4>1, HeadTailProperties
      <4> QED
        BY <4>1, <4>2 DEF buffer
    <3>3. LastBytes(Tail(receive_buffer')) = {}
      <4>1. \A k \in 1 .. 5 : ~(k <= 0)
        OBVIOUS
      <4> QED
        BY <3>2, <4>1 DEF LastBytes
    <3>4. TryReadVarint(Tail(receive_buffer')) = Incomplete
      <4> DEFINE tail == Tail(receive_buffer')
      <4>1. LastBytes(tail) = {}
        BY <3>3
      <4>2. Len(tail) = 0
        BY <3>2
      <4> HIDE DEF tail
      <4>3. Len(tail) < 5
        BY <4>2
      <4>4. TryReadVarint(tail) = Incomplete
        BY <4>1, <4>3 DEF TryReadVarint
      <4> QED
        BY <4>4 DEF tail
    <3>5. ~WholeFrame' /\ Waiting'
      BY <1>5, <3>1, <3>4 DEF WholeFrame, Waiting, Header
    <3> QED
      BY <1>4, <1>6, <1>8, <3>5 DEF StreamInv
  <2>3. CASE receive_buffer # <<>>
    <3>1. Known(Tail(receive_buffer)) /\ bytes_required = FrameLen
      BY <1>2, <1>3, <1>4, <1>5, <2>1, <2>3 DEF StreamInv, Waiting
    <3>2. Tail(receive_buffer') = Tail(receive_buffer) \o bytes
      BY <1>1, <1>2, <1>3, <2>3 DEF StreamTypeOK
    <3>3. TryReadVarint(Tail(receive_buffer')) = TryReadVarint(Tail(receive_buffer))
      BY <1>2, <1>3, <2>3, <3>1, <3>2, TailType, VarintStable
    <3>4. FrameLen' = FrameLen /\ Known(Tail(receive_buffer'))
      BY <3>1, <3>3 DEF FrameLen, Header, Known
    <3>5. FrameLen' > Len(receive_buffer')
      BY <1>4, <2>1, <3>1, <3>4
    <3>6. ~WholeFrame'
      <4>1. Len(receive_buffer') \in Nat /\ FrameLen' \in Nat
        BY <1>4, <2>1, <3>1, <3>4
      <4> QED
        BY <3>5, <4>1 DEF WholeFrame
    <3>7. Waiting'
      BY <1>5, <3>1, <3>4 DEF Waiting
    <3> QED
      BY <1>4, <1>6, <1>8, <3>6, <3>7 DEF StreamInv
  <2> QED
    BY <2>2, <2>3
<1> QED
  BY <1>5, <1>7, <1>8

(* Returning to the reader and being polled again.                                *)
LEMMA PendInv == StreamInv /\ (Pend \/ PollAgain) => StreamInv'
<1> SUFFICES ASSUME StreamInv, Pend \/ PollAgain PROVE StreamInv'
  OBVIOUS
<1>1. UNCHANGED <<receive_buffer, bytes_required, last_stream_id_received, received, frames,
                  verdict>>
  BY DEF Pend, PollAgain
<1>2. \/ phase = "read" /\ phase' = "pending"
      \/ phase = "pending" /\ phase' = "parse"
  BY DEF Pend, PollAgain
<1>3. StreamTypeOK'
  BY <1>1, <1>2 DEF StreamInv, StreamTypeOK, Phase
<1>4. WholeFrame' <=> WholeFrame
  BY <1>1 DEF WholeFrame, Header, FrameLen
<1> QED
  BY <1>1, <1>2, <1>3, <1>4 DEF StreamInv, Live

(* Every round of poll_next keeps the invariant.                                  *)
LEMMA PollNextInv == StreamInv /\ PollNext => StreamInv'
BY EndInv, FrameInv, MoreInv, ReadInv, PendInv DEF PollNext

LEMMA StutterStreamInv == StreamInv /\ UNCHANGED stream => StreamInv'
<1> SUFFICES ASSUME StreamInv, UNCHANGED stream PROVE StreamInv'
  OBVIOUS
<1>1. UNCHANGED <<phase, receive_buffer, bytes_required, last_stream_id_received, received,
                  frames, verdict>>
  BY DEF stream
<1>2. StreamTypeOK'
  BY <1>1 DEF StreamInv, StreamTypeOK
<1>3. (WholeFrame' <=> WholeFrame) /\ (Waiting' <=> Waiting)
  BY <1>1 DEF WholeFrame, Waiting, Header, FrameLen
<1> QED
  BY <1>1, <1>2, <1>3 DEF StreamInv, Live

(* MessageStream by itself: the types of its state hold, and a reader that waits  *)
(* for the socket has been given every frame that has arrived (poll_next).        *)
THEOREM StreamNothingHeld == StreamSpec => [](StreamTypeOK /\ NothingHeld)
<1>1. StreamInv => StreamTypeOK /\ NothingHeld
  BY DEF StreamInv, NothingHeld
<1>2. StreamInv /\ [StreamNext]_stream => StreamInv'
  BY OpenDropInv, PollNextInv, StutterStreamInv DEF StreamNext
<1> QED
  BY <1>1, <1>2, InitStreamInv, PTL DEF StreamSpec

-------------------------------------------------------------------------------
(* Cuts do not matter.                                                            *)

(* Induction on the naturals: a set of them that is closed under successors.      *)
LEMMA Induction ==
  ASSUME NEW S \in SUBSET Nat, 0 \in S, \A n \in S : n + 1 \in S
  PROVE  S = Nat
<1> DEFINE T == Nat \ S
           R == OpToRel(<, Nat)
<1> SUFFICES ASSUME T # {} PROVE FALSE
  OBVIOUS
<1>1. IsWellFoundedOn(R, Nat)
  BY NatLessThanWellFounded
<1>2. \A x, y \in Nat : x < y => <<x, y>> \in R
  BY DEF OpToRel
<1> HIDE DEF R
<1>3. PICK x \in T : \A y \in T : ~ (<<y, x>> \in R)
  <2>1. T \subseteq Nat
    OBVIOUS
  <2> HIDE DEF T
  <2> QED
    BY <1>1, <2>1, WFMin
<1>4. x \in Nat /\ x # 0
  OBVIOUS
<1>5. x - 1 \in Nat /\ x - 1 < x /\ (x - 1) + 1 = x
  BY <1>4
<1>6. x - 1 \in T
  BY <1>5
<1> QED
  BY <1>2, <1>3, <1>4, <1>5, <1>6

-------------------------------------------------------------------------------
(* The reference decoder.  First the length that begins behind position p: its    *)
(* digits, as they are added up from the last one.                                *)
LEMMA LowDefined ==
  ASSUME NEW bytes, NEW p \in Nat, NEW n \in 1 .. 5
  PROVE  \A k \in 1 .. n :
           Low(bytes, p, n)[k] =
             IF k = n THEN bytes[p + 1 + k]
             ELSE bytes[p + 1 + k] - BASE + BASE * Low(bytes, p, n)[k + 1]
<1> DEFINE b(k) == bytes[p + 1 + k]
           t5 == b(5)
           t4 == IF n = 4 THEN b(4) ELSE b(4) - BASE + BASE * t5
           t3 == IF n = 3 THEN b(3) ELSE b(3) - BASE + BASE * t4
           t2 == IF n = 2 THEN b(2) ELSE b(2) - BASE + BASE * t3
           t1 == IF n = 1 THEN b(1) ELSE b(1) - BASE + BASE * t2
           g == [k \in 1 .. n |-> IF k = 1 THEN t1 ELSE IF k = 2 THEN t2 ELSE IF k = 3 THEN t3
                                  ELSE IF k = 4 THEN t4 ELSE t5]
<1>1. ASSUME NEW k \in 1 .. n
      PROVE  g[k] = IF k = n THEN b(k) ELSE b(k) - BASE + BASE * g[k + 1]
  <2> HIDE DEF b
  <2>1. k = 1 \/ k = 2 \/ k = 3 \/ k = 4 \/ k = 5
    OBVIOUS
  <2>2. k # n => k + 1 \in 1 .. n
    OBVIOUS
  <2> HIDE DEF t1, t2, t3, t4, t5
  <2>3. /\ k = 1 => g[k] = t1 /\ (k # n => g[k + 1] = t2)
        /\ k = 2 => g[k] = t2 /\ (k # n => g[k + 1] = t3)
        /\ k = 3 => g[k] = t3 /\ (k # n => g[k + 1] = t4)
        /\ k = 4 => g[k] = t4 /\ (k # n => g[k + 1] = t5)
        /\ k = 5 => g[k] = t5 /\ k = n
    BY <2>2
  <2> HIDE DEF g
  <2> QED
    BY <2>1, <2>3 DEF t1, t2, t3, t4, t5
<1>2. g = [k \in 1 .. n |-> g[k]]
  OBVIOUS
<1> HIDE DEF g
<1>3. g = [k \in 1 .. n |-> IF k = n THEN b(k) ELSE b(k) - BASE + BASE * g[k + 1]]
  BY <1>1, <1>2
<1>4. \E low : low = [k \in 1 .. n |-> IF k = n THEN b(k) ELSE b(k) - BASE + BASE * low[k + 1]]
  BY <1>3
<1> DEFINE low == Low(bytes, p, n)
<1>5. low = [k \in 1 .. n |-> IF k = n THEN b(k) ELSE b(k) - BASE + BASE * low[k + 1]]
  BY <1>4, Zenon DEF Low
<1> HIDE DEF low
<1>6. \A k \in 1 .. n : low[k] = IF k = n THEN b(k) ELSE b(k) - BASE + BASE * low[k + 1]
  BY <1>5
<1> QED
  BY <1>6 DEF low

(* A byte that goes on and a byte that ends a length, and their digits.           *)
LEMMA DigitOf ==
  ASSUME NEW c \in Byte
  PROVE  c % BASE = IF c < BASE THEN c ELSE c - BASE
BY DEF Byte

(* What the reference adds up is the number that try_read_varint computes.        *)
LEMMA SaysIsNumber ==
  ASSUME NEW bytes \in Seq(Byte), NEW tail \in Seq(Byte), NEW p \in Nat,
         \A k \in 1 .. Len(tail) : tail[k] = bytes[p + 1 + k],
         NEW n \in 1 .. 5, n <= Len(tail),
         tail[n] < BASE, \A k \in 1 .. n - 1 : ~(tail[k] < BASE)
  PROVE  Says(bytes, p, n) = Number(tail, n)
<1>0. \A k \in 1 .. n :
        Low(bytes, p, n)[k] = IF k = n THEN bytes[p + 1 + k]
                              ELSE bytes[p + 1 + k] - BASE + BASE * Low(bytes, p, n)[k + 1]
  BY ONLY n \in 1 .. 5, p \in Nat, LowDefined, Zenon
<1> DEFINE low == Low(bytes, p, n)
           d(k) == Digit(tail, n, k)
           m5 == d(5)
           m4 == d(4) + BASE * m5
           m3 == d(3) + BASE * m4
           m2 == d(2) + BASE * m3
           m1 == d(1) + BASE * m2
<1>1. /\ low[n] = bytes[p + 1 + n]
      /\ \A k \in 1 .. n - 1 : low[k] = bytes[p + 1 + k] - BASE + BASE * low[k + 1]
  <2>1. \A k \in 1 .. n - 1 : k \in 1 .. n /\ k # n
    OBVIOUS
  <2> QED
    BY <1>0, <2>1
<1>2. \A k \in 1 .. n : k \in 1 .. Len(tail) /\ tail[k] \in Byte
  OBVIOUS
<1>3. d(n) = bytes[p + 1 + n]
  BY <1>2, DigitOf DEF Digit
<1>4. \A k \in 1 .. n - 1 : d(k) = bytes[p + 1 + k] - BASE
  BY <1>2, DigitOf DEF Digit
<1>5. \A k \in n + 1 .. 5 : d(k) = 0
  BY DEF Digit
<1>6. Number(tail, n) = m1
  BY DEF Number
<1>7. low[n] = d(n) /\ \A k \in 1 .. n - 1 : low[k] = d(k) + BASE * low[k + 1]
  BY <1>1, <1>3, <1>4
<1>8. d(1) \in Nat /\ d(2) \in Nat /\ d(3) \in Nat /\ d(4) \in Nat /\ d(5) \in Nat
  BY DigitType
<1> HIDE DEF d, low
<1>9. /\ m5 = d(5) /\ m4 = d(4) + BASE * m5 /\ m3 = d(3) + BASE * m4
      /\ m2 = d(2) + BASE * m3 /\ m1 = d(1) + BASE * m2
  OBVIOUS
<1> HIDE DEF m1, m2, m3, m4, m5
<1>10. BASE * 0 = 0
  OBVIOUS
<1>11. ASSUME NEW a \in Nat, NEW m, m = 0 PROVE a + BASE * m = a
  BY <1>10, <1>11
<1>12. /\ n < 5 => d(5) = 0
       /\ n < 4 => d(4) = 0
       /\ n < 3 => d(3) = 0
       /\ n < 2 => d(2) = 0
  BY <1>5
<1>13. n < 5 => m5 = 0
  BY <1>9, <1>12
<1>14. n < 4 => m4 = 0
  BY <1>8, <1>9, <1>11, <1>12, <1>13
<1>15. n < 3 => m3 = 0
  BY <1>8, <1>9, <1>11, <1>12, <1>14
<1>16. n < 2 => m2 = 0
  BY <1>8, <1>9, <1>11, <1>12, <1>15
<1>17. /\ n = 5 => m5 = d(5)
       /\ n = 4 => m4 = d(4)
       /\ n = 3 => m3 = d(3)
       /\ n = 2 => m2 = d(2)
       /\ n = 1 => m1 = d(1)
  <2>1. n = 5 => m5 = d(5)
    BY <1>9
  <2>2. n = 4 => m4 = d(4)
    BY <1>8, <1>9, <1>11, <1>13
  <2>3. n = 3 => m3 = d(3)
    BY <1>8, <1>9, <1>11, <1>14
  <2>4. n = 2 => m2 = d(2)
    BY <1>8, <1>9, <1>11, <1>15
  <2>5. n = 1 => m1 = d(1)
    BY <1>8, <1>9, <1>11, <1>16
  <2> QED
    BY <2>1, <2>2, <2>3, <2>4, <2>5
<1>18. /\ n > 4 => low[4] = d(4) + BASE * low[5]
       /\ n > 3 => low[3] = d(3) + BASE * low[4]
       /\ n > 2 => low[2] = d(2) + BASE * low[3]
       /\ n > 1 => low[1] = d(1) + BASE * low[2]
  BY <1>7
<1>19. n > 4 => low[5] = m5
  BY <1>7, <1>17
<1>20. n > 3 => low[4] = m4
  <2>1. CASE n = 4
    BY <1>7, <1>17, <2>1
  <2>2. CASE n > 4
    BY <1>9, <1>18, <1>19, <2>2
  <2> QED
    BY <2>1, <2>2
<1>21. n > 2 => low[3] = m3
  <2>1. CASE n = 3
    BY <1>7, <1>17, <2>1
  <2>2. CASE n > 3
    BY <1>9, <1>18, <1>20, <2>2
  <2> QED
    BY <2>1, <2>2
<1>22. n > 1 => low[2] = m2
  <2>1. CASE n = 2
    BY <1>7, <1>17, <2>1
  <2>2. CASE n > 2
    BY <1>9, <1>18, <1>21, <2>2
  <2> QED
    BY <2>1, <2>2
<1>23. low[1] = m1
  <2>1. CASE n = 1
    BY <1>7, <1>17, <2>1
  <2>2. CASE n > 1
    BY <1>9, <1>18, <1>22, <2>2
  <2> QED
    BY <2>1, <2>2
<1> QED
  BY <1>6, <1>23 DEF Says, low

-------------------------------------------------------------------------------
(* A buffer that holds a whole frame at its front.                                *)
Whole(buffer) ==
  /\ buffer # <<>> /\ Head(buffer) # Close
  /\ Known(Tail(buffer))
  /\ TryReadVarint(Tail(buffer)).offset + TryReadVarint(Tail(buffer)).size <= Len(buffer)

(* The buffer is what follows position p of the bytes.                            *)
Follows(buffer, bytes, p) ==
  /\ Len(bytes) = p + Len(buffer)
  /\ \A k \in 1 .. Len(buffer) : buffer[k] = bytes[p + k]

(* The reference and the reader agree on where a length ends.                     *)
LEMMA LengthEndsAtLastByte ==
  ASSUME NEW bytes \in Seq(Byte), NEW buffer \in Seq(Byte), NEW p \in Nat,
         Follows(buffer, bytes, p), NEW n \in LengthEnds(bytes, p)
  PROVE  /\ buffer # <<>> /\ Head(buffer) = bytes[p + 1]
         /\ LastBytes(Tail(buffer)) # {}
         /\ n = LastByte(Tail(buffer))
         /\ Says(bytes, p, n) = Number(Tail(buffer), n)
<1> DEFINE tail == Tail(buffer)
<1>1. /\ n \in 1 .. 5 /\ p + n < Len(bytes) /\ bytes[p + 1 + n] < BASE
      /\ \A k \in 1 .. n - 1 : bytes[p + 1 + k] >= BASE
  BY DEF LengthEnds
<1>2. Len(buffer) \in Nat /\ Len(bytes) = p + Len(buffer)
  BY DEF Follows
<1>3. n < Len(buffer)
  BY <1>1, <1>2
<1>4. buffer # <<>>
  BY <1>1, <1>2, <1>3, EmptySeq
<1>5. /\ tail \in Seq(Byte) /\ Len(tail) = Len(buffer) - 1 /\ Head(buffer) = buffer[1]
      /\ \A k \in 1 .. Len(tail) : tail[k] = buffer[k + 1]
  BY <1>4, HeadTailProperties
<1> HIDE DEF tail
<1>6. \A k \in 1 .. Len(tail) : tail[k] = bytes[p + 1 + k]
  <2> TAKE k \in 1 .. Len(tail)
  <2>0. Len(tail) = Len(buffer) - 1
    BY <1>5
  <2>1. k + 1 \in 1 .. Len(buffer) /\ p + (k + 1) = p + 1 + k
    BY <1>2, <2>0
  <2>2. buffer[k + 1] = bytes[p + (k + 1)]
    BY <2>1 DEF Follows
  <2> QED
    BY <1>5, <2>1, <2>2
<1>7. n <= Len(tail) /\ n \in 1 .. Len(tail) /\ Len(tail) \in Nat
  BY <1>1, <1>2, <1>3, <1>5
<1>8. tail[n] < BASE /\ \A k \in 1 .. n - 1 : ~(tail[k] < BASE)
  <2>1. tail[n] < BASE
    BY <1>1, <1>6, <1>7
  <2>2. ASSUME NEW k \in 1 .. n - 1 PROVE ~(tail[k] < BASE)
    <3>1. k \in 1 .. Len(tail)
      BY <1>7
    <3>2. tail[k] >= BASE
      BY <1>1, <1>6, <3>1
    <3>3. tail[k] \in Byte
      BY <1>5, <3>1
    <3> QED
      BY <3>2, <3>3 DEF Byte
  <2> QED
    BY <2>1, <2>2
<1>9. n \in LastBytes(tail)
  BY <1>1, <1>7, <1>8 DEF LastBytes
<1>10. \A j \in LastBytes(tail) : n <= j
  BY <1>1, <1>8 DEF LastBytes
<1>11. n = LastByte(tail)
  <2>1. LastByte(tail) \in LastBytes(tail) /\ LastByte(tail) <= n
    BY <1>5, <1>9, LastByteIsFirst
  <2>2. LastByte(tail) \in 1 .. 5 /\ n <= LastByte(tail)
    BY <1>10, <2>1 DEF LastBytes
  <2> QED
    BY <1>1, <2>1, <2>2
<1>12. Says(bytes, p, n) = Number(tail, n)
  BY <1>1, <1>5, <1>6, <1>7, <1>8, SaysIsNumber
<1>13. Head(buffer) = bytes[p + 1]
  BY <1>2, <1>3, <1>1, <1>5 DEF Follows
<1> QED
  BY <1>4, <1>9, <1>11, <1>12, <1>13 DEF tail

LEMMA LastByteEndsLength ==
  ASSUME NEW bytes \in Seq(Byte), NEW buffer \in Seq(Byte), NEW p \in Nat,
         Follows(buffer, bytes, p), buffer # <<>>, LastBytes(Tail(buffer)) # {}
  PROVE  LastByte(Tail(buffer)) \in LengthEnds(bytes, p)
<1> DEFINE tail == Tail(buffer)
           n == LastByte(tail)
<1>1. /\ tail \in Seq(Byte) /\ Len(tail) = Len(buffer) - 1
      /\ \A k \in 1 .. Len(tail) : tail[k] = buffer[k + 1]
  BY HeadTailProperties
<1>2. Len(buffer) \in Nat /\ Len(bytes) = p + Len(buffer)
  BY DEF Follows
<1>3. n \in LastBytes(tail) /\ \A j \in LastBytes(tail) : n <= j
  BY <1>1, LastByteIsFirst
<1> HIDE DEF n, tail
<1>4. n \in 1 .. 5 /\ n <= Len(tail) /\ tail[n] < BASE
  BY <1>3 DEF LastBytes
<1>5. \A k \in 1 .. Len(tail) : tail[k] = bytes[p + 1 + k]
  <2> TAKE k \in 1 .. Len(tail)
  <2>1. k + 1 \in 1 .. Len(buffer) /\ p + (k + 1) = p + 1 + k
    BY <1>1, <1>2
  <2>2. buffer[k + 1] = bytes[p + (k + 1)]
    BY <2>1 DEF Follows
  <2> QED
    BY <1>1, <2>1, <2>2
<1>6. ASSUME NEW k \in 1 .. n - 1 PROVE bytes[p + 1 + k] >= BASE
  <2>1. k \in 1 .. 5 /\ k \in 1 .. Len(tail) /\ k <= Len(tail) /\ ~(n <= k)
    BY <1>1, <1>2, <1>4
  <2>2. tail[k] \in Byte /\ ~(tail[k] < BASE)
    BY <1>1, <1>3, <2>1 DEF LastBytes
  <2> QED
    BY <1>5, <2>1, <2>2 DEF Byte
<1>7. p + n < Len(bytes) /\ n \in 1 .. Len(tail)
  BY <1>1, <1>2, <1>4
<1>8. bytes[p + 1 + n] < BASE
  BY <1>4, <1>5, <1>7
<1> QED
  BY <1>4, <1>6, <1>7, <1>8 DEF LengthEnds, n, tail

(* A frame of the reference is one that the reader sees, and ends where it says.  *)
LEMMA WholeAtBuffer ==
  ASSUME NEW bytes \in Seq(Byte), NEW buffer \in Seq(Byte), NEW p \in Nat,
         Follows(buffer, bytes, p)
  PROVE  /\ WholeAt(bytes, p) # {} <=> Whole(buffer)
         /\ WholeAt(bytes, p) # {} =>
              /\ Head(buffer) = bytes[p + 1]
              /\ LengthAt(bytes, p) + 1 = TryReadVarint(Tail(buffer)).offset
              /\ Says(bytes, p, LengthAt(bytes, p)) = TryReadVarint(Tail(buffer)).size
<1> DEFINE header == TryReadVarint(Tail(buffer))
<1>0. Len(buffer) \in Nat /\ Len(bytes) = p + Len(buffer)
  BY DEF Follows
<1>1. ASSUME NEW n \in WholeAt(bytes, p)
      PROVE  /\ Whole(buffer) /\ Head(buffer) = bytes[p + 1]
             /\ n + 1 = header.offset /\ Says(bytes, p, n) = header.size
  <2>1. /\ n \in LengthEnds(bytes, p) /\ n \in 1 .. 5
        /\ bytes[p + 1] # Close /\ Says(bytes, p, n) <= MAX_MCS_FRAME_BYTES
        /\ EndAt(bytes, p, n) <= Len(bytes)
    BY DEF WholeAt, LengthEnds
  <2>2. /\ buffer # <<>> /\ Head(buffer) = bytes[p + 1]
        /\ LastBytes(Tail(buffer)) # {}
        /\ n = LastByte(Tail(buffer))
        /\ Says(bytes, p, n) = Number(Tail(buffer), n)
    BY <2>1, LengthEndsAtLastByte
  <2>3. Tail(buffer) \in Seq(Byte)
    BY <2>2, HeadTailProperties
  <2>4. n <= Len(Tail(buffer))
    BY <2>2, <2>3, LastByteIsFirst DEF LastBytes
  <2>5. Number(Tail(buffer), n) \in Nat
    BY <2>1, <2>3, <2>4, NumberType
  <2>6. ~(Number(Tail(buffer), n) > MAX_MCS_FRAME_BYTES)
    BY <2>1, <2>2, <2>5
  <2>7. header = [size |-> Number(Tail(buffer), n), offset |-> n + 1]
    BY <2>2, <2>6 DEF TryReadVarint, LastByte
  <2>8. header.offset = n + 1 /\ header.size = Number(Tail(buffer), n)
    BY <2>7
  <2>9. Known(Tail(buffer))
    <3>1. header.offset # 0 /\ header.offset # 1
      BY <2>1, <2>8
    <3> QED
      BY <3>1 DEF Known, Malformed, Incomplete
  <2>10. header.offset + header.size <= Len(buffer)
    <3>1. p + 1 + n + Number(Tail(buffer), n) <= Len(bytes)
      BY <2>1, <2>2 DEF EndAt
    <3>2. n + 1 + Number(Tail(buffer), n) <= Len(buffer)
      BY <1>0, <2>1, <2>5, <3>1
    <3> QED
      BY <2>8, <3>2
  <2> QED
    BY <2>1, <2>2, <2>8, <2>9, <2>10 DEF Whole
<1>2. ASSUME Whole(buffer)
      PROVE  WholeAt(bytes, p) # {}
  <2> DEFINE n == LastByte(Tail(buffer))
  <2>1. buffer # <<>> /\ Head(buffer) # Close /\ Known(Tail(buffer))
    BY <1>2 DEF Whole
  <2>2. Tail(buffer) \in Seq(Byte)
    BY <2>1, HeadTailProperties
  <2>3. /\ LastBytes(Tail(buffer)) # {}
        /\ ~(Number(Tail(buffer), n) > MAX_MCS_FRAME_BYTES)
        /\ header = [size |-> Number(Tail(buffer), n), offset |-> n + 1]
    BY <2>1, <2>2, VarintKnown
  <2>4. n \in LengthEnds(bytes, p)
    BY <2>1, <2>3, LastByteEndsLength
  <2>5. n \in 1 .. 5 /\ n <= Len(Tail(buffer))
    BY <2>2, <2>3, LastByteIsFirst DEF LastBytes
  <2> HIDE DEF n
  <2>6. Head(buffer) = bytes[p + 1] /\ Says(bytes, p, n) = Number(Tail(buffer), n)
    BY <2>4, LengthEndsAtLastByte
  <2>7. Number(Tail(buffer), n) \in Nat
    BY <2>2, <2>5, NumberType
  <2>8. n + 1 + Number(Tail(buffer), n) <= Len(buffer)
    <3>1. header.offset = n + 1 /\ header.size = Number(Tail(buffer), n)
      BY <2>3
    <3> QED
      BY <1>2, <3>1 DEF Whole
  <2>9. EndAt(bytes, p, n) <= Len(bytes)
    <3>1. EndAt(bytes, p, n) = p + 1 + n + Number(Tail(buffer), n)
      BY <2>6 DEF EndAt
    <3> QED
      BY <1>0, <2>5, <2>7, <2>8, <3>1
  <2>10. Says(bytes, p, n) <= MAX_MCS_FRAME_BYTES
    BY <2>3, <2>6, <2>7
  <2>11. n \in WholeAt(bytes, p)
    BY <2>1, <2>4, <2>6, <2>9, <2>10 DEF WholeAt
  <2> QED
    BY <2>11
<1>3. WholeAt(bytes, p) # {} => LengthAt(bytes, p) \in WholeAt(bytes, p)
  BY DEF LengthAt
<1> QED
  BY <1>1, <1>2, <1>3

(* What follows a position.                                                       *)
LEMMA Suffix ==
  ASSUME NEW bytes \in Seq(Byte), NEW p \in 0 .. Len(bytes)
  PROVE  \E buffer \in Seq(Byte) : Follows(buffer, bytes, p)
<1> DEFINE buffer == SubSeq(bytes, p + 1, Len(bytes))
<1>1. Len(bytes) \in Nat
  OBVIOUS
<1>2. \A k \in p + 1 .. Len(bytes) : bytes[k] \in Byte
  BY <1>1
<1>3. /\ buffer \in Seq(Byte) /\ Len(buffer) = Len(bytes) - p
      /\ \A k \in 1 .. Len(buffer) : buffer[k] = bytes[p + k]
  <2>1. p + 1 \in Int /\ Len(bytes) \in Int /\ p + 1 <= Len(bytes) + 1
    BY <1>1
  <2>2. /\ buffer \in Seq(Byte)
        /\ Len(buffer) = IF p + 1 <= Len(bytes) THEN Len(bytes) - (p + 1) + 1 ELSE 0
        /\ \A k \in 1 .. Len(bytes) - (p + 1) + 1 : buffer[k] = bytes[(p + 1) + k - 1]
    BY <1>2, <2>1, SubSeqProperties
  <2> HIDE DEF buffer
  <2>3. Len(buffer) = Len(bytes) - p
    BY <1>1, <2>2
  <2>4. ASSUME NEW k \in 1 .. Len(buffer) PROVE buffer[k] = bytes[p + k]
    <3>1. k \in 1 .. Len(bytes) - (p + 1) + 1 /\ (p + 1) + k - 1 = p + k
      BY <1>1, <2>3
    <3> QED
      BY <2>2, <3>1
  <2> QED
    BY <2>2, <2>3, <2>4
<1> HIDE DEF buffer
<1>4. Follows(buffer, bytes, p)
  BY <1>1, <1>3 DEF Follows
<1> QED
  BY <1>3, <1>4

(* The reference yields frames, and goes on behind them.                          *)
LEMMA FrameAtType ==
  ASSUME NEW bytes \in Seq(Byte), NEW p \in 0 .. Len(bytes), NEW id \in 1 .. I32_MAX,
         WholeAt(bytes, p) # {}
  PROVE  /\ FrameAt(bytes, p, id) \in Frame
         /\ EndAt(bytes, p, LengthAt(bytes, p)) \in 0 .. Len(bytes)
<1> DEFINE n == LengthAt(bytes, p)
           end == EndAt(bytes, p, n)
           body == SubSeq(bytes, p + 1 + n + 1, end)
<1>1. PICK buffer \in Seq(Byte) : Follows(buffer, bytes, p)
  BY Suffix
<1>2. Whole(buffer) /\ n + 1 = TryReadVarint(Tail(buffer)).offset
      /\ Says(bytes, p, n) = TryReadVarint(Tail(buffer)).size
  BY <1>1, WholeAtBuffer
<1>3. buffer # <<>> /\ Known(Tail(buffer)) /\ Tail(buffer) \in Seq(Byte)
  BY <1>2, HeadTailProperties DEF Whole
<1>4. n + 1 \in 2 .. 6 /\ Says(bytes, p, n) \in Nat
  BY <1>2, <1>3, VarintType
<1>5. n \in WholeAt(bytes, p)
  BY DEF LengthAt
<1>6. n \in 1 .. 5 /\ p + n < Len(bytes) /\ end <= Len(bytes)
  BY <1>5 DEF WholeAt, LengthEnds
<1>7. Len(bytes) \in Nat
  OBVIOUS
<1> HIDE DEF n
<1>8. end \in 0 .. Len(bytes) /\ p + 1 + n <= end
  BY <1>4, <1>6, <1>7 DEF EndAt
<1>9. \A k \in p + 1 + n + 1 .. end : bytes[k] \in Byte
  BY <1>6, <1>7, <1>8
<1>10. body \in Seq(Byte)
  <2> HIDE DEF end
  <2>1. p + 1 + n + 1 \in Int /\ end \in Int
    BY <1>6, <1>8
  <2> QED
    BY <1>9, <2>1, SubSeqProperties
<1>11. bytes[p + 1] \in Byte
  BY <1>6, <1>7
<1>12. FrameAt(bytes, p, id) = [tag |-> bytes[p + 1], body |-> body,
                                kind |-> Kind(bytes[p + 1], body), id |-> id]
  BY DEF FrameAt, n
<1>13. Kind(bytes[p + 1], body) \in {"ping", "data", "refused", "other"}
  BY DEF Kind
<1> HIDE DEF body, end
<1>14. FrameAt(bytes, p, id) \in Frame
  BY <1>10, <1>11, <1>12, <1>13 DEF Frame
<1> QED
  BY <1>8, <1>14 DEF n, end

(* The frames that the reference yields from every position, when those with the  *)
(* next number are known.                                                         *)
Row(bytes, next, id) ==
  [p \in 0 .. Len(bytes) |->
     IF id > I32_MAX \/ WholeAt(bytes, p) = {} THEN <<>>
     ELSE <<FrameAt(bytes, p, id)>> \o next[EndAt(bytes, p, LengthAt(bytes, p))]]

Rows(bytes) == [0 .. Len(bytes) -> Seq(Frame)]

LEMMA RowType ==
  ASSUME NEW bytes \in Seq(Byte), NEW id \in 1 .. I32_MAX + 1, NEW next,
         id <= I32_MAX => next \in Rows(bytes)
  PROVE  Row(bytes, next, id) \in Rows(bytes)
<1>1. ASSUME NEW p \in 0 .. Len(bytes)
      PROVE  Row(bytes, next, id)[p] \in Seq(Frame)
  <2>1. CASE id > I32_MAX \/ WholeAt(bytes, p) = {}
    <3>1. Row(bytes, next, id)[p] = <<>>
      BY <2>1 DEF Row
    <3> QED
      BY <3>1
  <2>2. CASE ~(id > I32_MAX \/ WholeAt(bytes, p) = {})
    <3>1. id \in 1 .. I32_MAX /\ next \in Rows(bytes)
      BY <2>2
    <3>2. /\ FrameAt(bytes, p, id) \in Frame
          /\ next[EndAt(bytes, p, LengthAt(bytes, p))] \in Seq(Frame)
      BY <2>2, <3>1, FrameAtType DEF Rows
    <3>3. Row(bytes, next, id)[p] =
            <<FrameAt(bytes, p, id)>> \o next[EndAt(bytes, p, LengthAt(bytes, p))]
      BY <2>2 DEF Row
    <3> QED
      BY <3>2, <3>3, ConcatProperties
  <2> QED
    BY <2>1, <2>2
<1>2. Row(bytes, next, id) = [p \in 0 .. Len(bytes) |-> Row(bytes, next, id)[p]]
  BY DEF Row
<1> DEFINE row == Row(bytes, next, id)
<1> HIDE DEF row
<1>3. row = [p \in 0 .. Len(bytes) |-> row[p]] /\ \A p \in 0 .. Len(bytes) : row[p] \in Seq(Frame)
  BY <1>1, <1>2 DEF row
<1>4. row \in Rows(bytes)
  BY <1>3 DEF Rows
<1> QED
  BY <1>4 DEF row

(* Numbers end at the largest, so the reference is built up from there.           *)
LEMMA FramesFromExists ==
  ASSUME NEW bytes \in Seq(Byte)
  PROVE  \E g : g = [id \in 1 .. I32_MAX + 1 |-> Row(bytes, g[id + 1], id)]
<1> DEFINE Ids(j) == I32_MAX + 1 - j .. I32_MAX + 1
           Built(j) == \E g : /\ g = [id \in Ids(j) |-> g[id]]
                              /\ \A id \in Ids(j) : g[id] = Row(bytes, g[id + 1], id)
           S == {j \in Nat : j <= I32_MAX => Built(j)}
<1>1. 0 \in S
  <2> DEFINE g == [id \in Ids(0) |-> Row(bytes, <<>>, I32_MAX + 1)]
  <2>1. \A id \in Ids(0) : id = I32_MAX + 1
    OBVIOUS
  <2>3. g = [id \in Ids(0) |-> g[id]]
    OBVIOUS
  <2>4. ASSUME NEW id \in Ids(0) PROVE g[id] = Row(bytes, g[id + 1], id)
    <3>1. id = I32_MAX + 1 /\ id > I32_MAX
      BY <2>1
    <3>2. \A next : Row(bytes, next, id) = [p \in 0 .. Len(bytes) |-> <<>>]
      BY <3>1 DEF Row
    <3>3. g[id] = Row(bytes, <<>>, id)
      BY <3>1
    <3> QED
      BY <3>2, <3>3
  <2> HIDE DEF g
  <2>5. Built(0)
    BY <2>3, <2>4
  <2> HIDE DEF Built
  <2> QED
    BY <2>5
<1>2. ASSUME NEW j \in S PROVE j + 1 \in S
  <2> HIDE DEF Built
  <2> SUFFICES ASSUME j + 1 <= I32_MAX PROVE Built(j + 1)
    OBVIOUS
  <2>1. j \in Nat /\ Built(j)
    OBVIOUS
  <2>2. PICK g : \A id \in Ids(j) : g[id] = Row(bytes, g[id + 1], id)
    BY <2>1 DEF Built
  <2> DEFINE first == I32_MAX + 1 - (j + 1)
             h == [id \in Ids(j + 1) |-> IF id = first THEN Row(bytes, g[first + 1], first) ELSE g[id]]
  <2>3. /\ first \in 1 .. I32_MAX /\ first \in Int /\ first + 1 \in Ids(j)
        /\ \A id \in Ids(j + 1) : id = first \/ id \in Ids(j)
        /\ \A id \in Ids(j) : id # first /\ id \in Ids(j + 1)
        /\ \A id \in Ids(j) : id \in 1 .. I32_MAX + 1 /\ (id <= I32_MAX => id + 1 \in Ids(j))
        /\ first \in Ids(j + 1)
    BY <2>1
  <2> HIDE DEF Ids, first
  <2>5. h = [id \in Ids(j + 1) |-> h[id]]
    OBVIOUS
  <2>6. h[first] = Row(bytes, g[first + 1], first) /\ \A id \in Ids(j) : h[id] = g[id]
    BY <2>3
  <2> HIDE DEF h
  <2>7. ASSUME NEW id \in Ids(j + 1) PROVE h[id] = Row(bytes, h[id + 1], id)
    <3>1. CASE id = first
      BY <2>3, <2>6, <3>1
    <3>2. CASE id # first
      <4>1. id \in Ids(j) /\ id \in 1 .. I32_MAX + 1 /\ h[id] = g[id] /\ g[id] = Row(bytes, g[id + 1], id)
        BY <2>2, <2>3, <2>6, <3>2
      <4>2. CASE id <= I32_MAX
        BY <2>3, <2>6, <4>1, <4>2
      <4>3. CASE ~(id <= I32_MAX)
        <5>1. id > I32_MAX
          BY <4>1, <4>3
        <5>2. \A next : Row(bytes, next, id) = [p \in 0 .. Len(bytes) |-> <<>>]
          BY <5>1 DEF Row
        <5>3. Row(bytes, h[id + 1], id) = Row(bytes, g[id + 1], id)
          BY <5>2
        <5> QED
          BY <4>1, <5>3
      <4> QED
        BY <4>2, <4>3
    <3> QED
      BY <3>1, <3>2
  <2> QED
    BY <2>5, <2>7 DEF Built
<1> HIDE DEF S
<1>3. S = Nat
  <2>1. S \subseteq Nat
    BY DEF S
  <2> QED
    BY <1>1, <1>2, <2>1, Induction
<1>4. I32_MAX \in S
  BY <1>3
<1>5. Built(I32_MAX)
  <2> HIDE DEF Built
  <2> QED
    BY <1>4 DEF S
<1>6. Ids(I32_MAX) = 1 .. I32_MAX + 1
  OBVIOUS
<1>7. PICK g : /\ g = [id \in 1 .. I32_MAX + 1 |-> g[id]]
               /\ \A id \in 1 .. I32_MAX + 1 : g[id] = Row(bytes, g[id + 1], id)
  <2> HIDE DEF Ids
  <2> QED
    BY <1>5, <1>6
<1>8. g = [id \in 1 .. I32_MAX + 1 |-> Row(bytes, g[id + 1], id)]
  BY <1>7
<1> QED
  BY <1>8

LEMMA FramesFromRow ==
  ASSUME NEW bytes \in Seq(Byte), NEW id \in 1 .. I32_MAX + 1
  PROVE  FramesFrom(bytes)[id] = Row(bytes, FramesFrom(bytes)[id + 1], id)
<1> DEFINE F == FramesFrom(bytes)
<1>1. F = [i \in 1 .. I32_MAX + 1 |-> Row(bytes, F[i + 1], i)]
  BY FramesFromExists, Zenon DEF FramesFrom, Row
<1> HIDE DEF F
<1>2. F[id] = Row(bytes, F[id + 1], id)
  BY <1>1
<1> QED
  BY <1>2 DEF F

LEMMA FramesFromType ==
  ASSUME NEW bytes \in Seq(Byte)
  PROVE  \A id \in 1 .. I32_MAX + 1 : FramesFrom(bytes)[id] \in Rows(bytes)
<1> DEFINE F == FramesFrom(bytes)
           S == {j \in Nat : j <= I32_MAX => F[I32_MAX + 1 - j] \in Rows(bytes)}
<1>1. ASSUME NEW id \in 1 .. I32_MAX + 1, id <= I32_MAX => F[id + 1] \in Rows(bytes)
      PROVE  F[id] \in Rows(bytes)
  <2>1. F[id] = Row(bytes, F[id + 1], id)
    BY FramesFromRow
  <2> HIDE DEF F
  <2> QED
    BY <1>1, <2>1, RowType
<1> HIDE DEF F
<1>2. 0 \in S
  <2>1. I32_MAX + 1 - 0 \in 1 .. I32_MAX + 1 /\ ~(I32_MAX + 1 - 0 <= I32_MAX)
    OBVIOUS
  <2> QED
    BY <1>1, <2>1
<1>3. ASSUME NEW j \in S PROVE j + 1 \in S
  <2> SUFFICES ASSUME j + 1 <= I32_MAX PROVE F[I32_MAX + 1 - (j + 1)] \in Rows(bytes)
    OBVIOUS
  <2>1. /\ I32_MAX + 1 - (j + 1) \in 1 .. I32_MAX + 1
        /\ (I32_MAX + 1 - (j + 1)) + 1 = I32_MAX + 1 - j
        /\ j <= I32_MAX
    OBVIOUS
  <2>2. F[I32_MAX + 1 - j] \in Rows(bytes)
    BY <2>1
  <2> QED
    BY <1>1, <2>1, <2>2
<1> HIDE DEF S
<1>4. S = Nat
  <2>1. S \subseteq Nat
    BY DEF S
  <2> QED
    BY <1>2, <1>3, <2>1, Induction
<1>5. ASSUME NEW id \in 1 .. I32_MAX + 1 PROVE F[id] \in Rows(bytes)
  <2>1. /\ I32_MAX + 1 - id \in Nat /\ I32_MAX + 1 - id <= I32_MAX
        /\ I32_MAX + 1 - (I32_MAX + 1 - id) = id
    OBVIOUS
  <2> QED
    BY <1>4, <2>1 DEF S
<1> QED
  BY <1>5 DEF F

(* One step of the reference.                                                     *)
LEMMA FramesFromStep ==
  ASSUME NEW bytes \in Seq(Byte), NEW id \in 1 .. I32_MAX + 1, NEW p \in 0 .. Len(bytes)
  PROVE  /\ FramesFrom(bytes)[id][p] \in Seq(Frame)
         /\ id > I32_MAX \/ WholeAt(bytes, p) = {} => FramesFrom(bytes)[id][p] = <<>>
         /\ ~(id > I32_MAX) /\ WholeAt(bytes, p) # {} =>
              FramesFrom(bytes)[id][p] =
                <<FrameAt(bytes, p, id)>>
                  \o FramesFrom(bytes)[id + 1][EndAt(bytes, p, LengthAt(bytes, p))]
<1> DEFINE F == FramesFrom(bytes)
<1>1. F[id] = Row(bytes, F[id + 1], id)
  BY FramesFromRow
<1>2. F[id] \in Rows(bytes)
  BY FramesFromType
<1> HIDE DEF F
<1>3. F[id][p] \in Seq(Frame)
  BY <1>2 DEF Rows
<1>4. F[id][p] = IF id > I32_MAX \/ WholeAt(bytes, p) = {} THEN <<>>
                 ELSE <<FrameAt(bytes, p, id)>> \o F[id + 1][EndAt(bytes, p, LengthAt(bytes, p))]
  BY <1>1 DEF Row
<1> QED
  BY <1>3, <1>4 DEF F

-------------------------------------------------------------------------------
(* Where the reader stands in all that has arrived.                               *)
Position == Len(received) - Len(receive_buffer)

(* The buffer is the rest of what has arrived, and whatever comes next, the       *)
(* reference yields the frames that the reader has got and goes on from there.    *)
Behind == Position \in Nat /\ Follows(receive_buffer, received, Position)

Ahead ==
  \A more \in Seq(Byte) :
    Decoded(received \o more) =
      frames \o FramesFrom(received \o more)[last_stream_id_received + 1][Position]

CutInv ==
  /\ Live => Behind /\ Ahead
  /\ phase = "ended" => frames = Decoded(received)

(* Bytes that follow change nothing about a frame that is whole.                  *)
LEMMA WholeStable ==
  ASSUME NEW buffer \in Seq(Byte), NEW more \in Seq(Byte), Whole(buffer)
  PROVE  /\ Whole(buffer \o more) /\ Head(buffer \o more) = Head(buffer)
         /\ TryReadVarint(Tail(buffer \o more)) = TryReadVarint(Tail(buffer))
<1> DEFINE all == buffer \o more
           header == TryReadVarint(Tail(buffer))
<1>1. buffer # <<>> /\ Head(buffer) # Close /\ Known(Tail(buffer))
      /\ header.offset + header.size <= Len(buffer)
  BY DEF Whole
<1>2. /\ all \in Seq(Byte) /\ Len(all) = Len(buffer) + Len(more)
      /\ \A k \in 1 .. Len(buffer) : all[k] = buffer[k]
      /\ Len(buffer) \in Nat \ {0} /\ Len(more) \in Nat
  BY <1>1, ConcatProperties, EmptySeq
<1>3. Tail(buffer) \in Seq(Byte) /\ Head(buffer) = buffer[1]
  BY <1>1, HeadTailProperties
<1>4. all # <<>> /\ Head(all) = buffer[1] /\ Tail(all) = Tail(buffer) \o more
  <2>1. Tail(all) = Tail(buffer) \o more
    BY <1>1
  <2>2. Len(all) # 0
    BY <1>2
  <2> HIDE DEF all
  <2>3. all # <<>>
    BY <2>2, EmptySeq
  <2>4. Head(all) = all[1]
    BY <1>2, <2>3, HeadTailProperties
  <2>5. all[1] = buffer[1]
    BY <1>2
  <2> QED
    BY <2>1, <2>3, <2>4, <2>5
<1>5. TryReadVarint(Tail(all)) = header
  BY <1>1, <1>3, <1>4, VarintStable
<1>6. header.offset \in 2 .. 6 /\ header.size \in Nat
  BY <1>1, <1>3, VarintType
<1> HIDE DEF all, header
<1>7. header.offset + header.size <= Len(all)
  BY <1>1, <1>2, <1>6
<1>8. Known(Tail(all))
  BY <1>1, <1>5 DEF Known, header
<1> QED
  BY <1>1, <1>3, <1>4, <1>5, <1>7, <1>8 DEF Whole, all, header

(* What follows still follows when more arrives.                                  *)
LEMMA FollowsMore ==
  ASSUME NEW bytes \in Seq(Byte), NEW buffer \in Seq(Byte), NEW more \in Seq(Byte),
         NEW p \in Nat, Follows(buffer, bytes, p)
  PROVE  Follows(buffer \o more, bytes \o more, p)
<1> DEFINE b == buffer \o more
           s == bytes \o more
<1>1. Len(bytes) = p + Len(buffer) /\ \A k \in 1 .. Len(buffer) : buffer[k] = bytes[p + k]
  BY DEF Follows
<1>2. Len(bytes) \in Nat /\ Len(buffer) \in Nat /\ Len(more) \in Nat
  OBVIOUS
<1>3. /\ Len(b) = Len(buffer) + Len(more)
      /\ \A k \in 1 .. Len(buffer) + Len(more) :
           b[k] = IF k <= Len(buffer) THEN buffer[k] ELSE more[k - Len(buffer)]
  BY ConcatProperties
<1>4. /\ Len(s) = Len(bytes) + Len(more)
      /\ \A k \in 1 .. Len(bytes) + Len(more) :
           s[k] = IF k <= Len(bytes) THEN bytes[k] ELSE more[k - Len(bytes)]
  BY ConcatProperties
<1> HIDE DEF b, s
<1>5. ASSUME NEW k \in 1 .. Len(b) PROVE b[k] = s[p + k]
  <2>1. k \in 1 .. Len(buffer) + Len(more) /\ p + k \in 1 .. Len(bytes) + Len(more)
    BY <1>1, <1>2, <1>3
  <2>2. CASE k <= Len(buffer)
    <3>1. k \in 1 .. Len(buffer) /\ p + k <= Len(bytes)
      BY <1>1, <1>2, <2>1, <2>2
    <3> QED
      BY <1>1, <1>3, <1>4, <2>1, <2>2, <3>1
  <2>3. CASE ~(k <= Len(buffer))
    <3>1. ~(p + k <= Len(bytes)) /\ (p + k) - Len(bytes) = k - Len(buffer)
      BY <1>1, <1>2, <2>1, <2>3
    <3> QED
      BY <1>3, <1>4, <2>1, <2>3, <3>1
  <2> QED
    BY <2>2, <2>3
<1>6. Len(s) = p + Len(b)
  BY <1>1, <1>2, <1>3, <1>4
<1> QED
  BY <1>5, <1>6 DEF Follows, b, s

(* WholeFrame is Whole for the buffer of the reader.                              *)
LEMMA WholeIsWholeFrame ==
  Whole(receive_buffer) <=> WholeFrame
BY DEF Whole, WholeFrame, Known, Header, FrameLen

(* A reader for which nothing whole is left, or no number, has got what the       *)
(* reference yields.                                                              *)
LEMMA NothingLeft ==
  ASSUME StreamTypeOK, Behind, Ahead,
         ~Whole(receive_buffer) \/ last_stream_id_received = I32_MAX
  PROVE  frames = Decoded(received)
<1> DEFINE id == last_stream_id_received + 1
<1>1. received \in Seq(Byte) /\ frames \in Seq(Frame) /\ receive_buffer \in Seq(Byte)
      /\ last_stream_id_received \in 0 .. I32_MAX
  BY DEF StreamTypeOK
<1>2. received \o <<>> = received /\ <<>> \in Seq(Byte)
  BY <1>1, ConcatEmptySeq
<1>3. Decoded(received) = frames \o FramesFrom(received)[id][Position]
  BY <1>2 DEF Ahead
<1>4. id \in 1 .. I32_MAX + 1 /\ (last_stream_id_received = I32_MAX => id > I32_MAX)
  BY <1>1
<1>5. Position \in 0 .. Len(received) /\ Position \in Nat
  <2>1. Len(received) \in Nat /\ Len(receive_buffer) \in Nat
    BY <1>1
  <2> QED
    BY <2>1 DEF Behind, Position
<1>6. ~Whole(receive_buffer) => WholeAt(received, Position) = {}
  BY <1>1, <1>5, WholeAtBuffer DEF Behind
<1> HIDE DEF id
<1>7. FramesFrom(received)[id][Position] = <<>>
  BY <1>1, <1>4, <1>5, <1>6, FramesFromStep
<1>8. frames \o <<>> = frames
  BY <1>1, ConcatEmptySeq
<1> QED
  BY <1>3, <1>7, <1>8

(* MessageStream::new.                                                            *)
LEMMA OpenCut ==
  ASSUME Open
  PROVE  CutInv'
<1>1. /\ phase' = "parse" /\ receive_buffer' = <<>> /\ received' = <<>> /\ frames' = <<>>
      /\ last_stream_id_received' = 0
  BY DEF Open
<1>2. Position' = 0
  BY <1>1 DEF Position
<1>3. Behind'
  BY <1>1, <1>2 DEF Behind, Follows
<1>4. Ahead'
  <2> SUFFICES ASSUME NEW more \in Seq(Byte)
               PROVE  Decoded(<<>> \o more) = <<>> \o FramesFrom(<<>> \o more)[0 + 1][0]
    BY <1>1, <1>2 DEF Ahead
  <2>1. <<>> \o more = more
    BY ConcatEmptySeq
  <2>2. 1 \in 1 .. I32_MAX + 1 /\ 0 \in 0 .. Len(more)
    OBVIOUS
  <2>3. FramesFrom(more)[1][0] \in Seq(Frame)
    BY <2>2, FramesFromStep
  <2>4. <<>> \o FramesFrom(more)[1][0] = FramesFrom(more)[1][0]
    BY <2>3, ConcatEmptySeq
  <2> QED
    BY <2>1, <2>4 DEF Decoded
<1> QED
  BY <1>1, <1>3, <1>4 DEF CutInv

(* Every way in which poll_next ends the stream: there is no whole frame, or no   *)
(* number for it.                                                                 *)
LEMMA EndCut ==
  ASSUME StreamInv, CutInv, ParseClose \/ ParseMalformed \/ ParseOverflow \/ ReadEnds
  PROVE  CutInv'
<1>1. UNCHANGED <<received, frames>> /\ phase' = "ended"
  BY DEF ParseClose, ParseMalformed, ParseOverflow, ReadEnds, End
<1>2. StreamTypeOK /\ Live /\ Behind /\ Ahead
  BY DEF StreamInv, CutInv, Live, ParseClose, ParseMalformed, ParseOverflow, ReadEnds, HasLength, Parses
<1>3. ~WholeFrame \/ last_stream_id_received = I32_MAX
  BY DEF StreamInv, WholeFrame, ParseClose, ParseMalformed, ParseOverflow, ReadEnds
<1>4. frames = Decoded(received)
  BY <1>2, <1>3, NothingLeft, WholeIsWholeFrame
<1> QED
  BY <1>1, <1>4 DEF CutInv, Live

(* What is there is not enough; returning to the reader and being polled again.   *)
LEMMA WaitCut ==
  ASSUME CutInv, ParseMore \/ Pend \/ PollAgain
  PROVE  CutInv'
<1>1. UNCHANGED <<receive_buffer, last_stream_id_received, received, frames>>
  BY DEF ParseMore, Pend, PollAgain
<1>2. Live /\ phase' # "ended"
  BY DEF ParseMore, NeedBody, NeedLength, NeedFrame, HasLength, Parses, Pend, PollAgain, Live
<1>3. Position' = Position
  BY <1>1 DEF Position
<1> QED
  BY <1>1, <1>2, <1>3 DEF CutInv, Behind, Ahead

(* More of the bytes.                                                             *)
LEMMA ReadCut ==
  ASSUME StreamInv, CutInv, Read
  PROVE  CutInv'
<1>0. PICK n \in 1 .. MaxBytes - Len(received) :
        \E bytes \in [1 .. n -> Byte] : /\ receive_buffer' = receive_buffer \o bytes
                                        /\ received' = received \o bytes
  BY DEF Read
<1>1. PICK bytes \in [1 .. n -> Byte] : /\ receive_buffer' = receive_buffer \o bytes
                                        /\ received' = received \o bytes
  BY <1>0
<1>2. receive_buffer \in Seq(Byte) /\ received \in Seq(Byte) /\ Len(received) \in Nat
      /\ Len(receive_buffer) \in Nat
  BY DEF StreamInv, StreamTypeOK
<1>3. bytes \in Seq(Byte)
  <2>1. n \in Nat
    BY <1>2
  <2> QED
    BY <2>1
<1>4. Behind /\ Ahead
  BY DEF Read, CutInv, Live
<1>5. Position' = Position
  <2>1. Len(bytes) \in Nat
    BY <1>3
  <2>2. Len(receive_buffer') = Len(receive_buffer) + Len(bytes)
        /\ Len(received') = Len(received) + Len(bytes)
    BY <1>1, <1>2, <1>3, ConcatProperties
  <2> QED
    BY <1>2, <2>1, <2>2 DEF Position
<1>6. Behind'
  <2>1. Follows(receive_buffer \o bytes, received \o bytes, Position)
    BY <1>2, <1>3, <1>4, FollowsMore DEF Behind
  <2> QED
    BY <1>1, <1>4, <1>5, <2>1 DEF Behind
<1>7. UNCHANGED <<last_stream_id_received, frames>> /\ phase' \in {"parse", "read"}
  BY DEF Read
<1>8. Ahead'
  <2> SUFFICES ASSUME NEW more \in Seq(Byte)
               PROVE  Decoded((received \o bytes) \o more) =
                        frames \o FramesFrom((received \o bytes) \o more)
                                    [last_stream_id_received + 1][Position]
    BY <1>1, <1>5, <1>7 DEF Ahead
  <2>1. (received \o bytes) \o more = received \o (bytes \o more)
    BY <1>2, <1>3, ConcatAssociative
  <2>2. bytes \o more \in Seq(Byte)
    BY <1>3, ConcatProperties
  <2> QED
    BY <1>4, <2>1, <2>2 DEF Ahead
<1> QED
  BY <1>6, <1>7, <1>8 DEF CutInv, Live

(* The same bytes in the buffer and where they came from.                         *)
LEMMA SameBytes ==
  ASSUME NEW all \in Seq(Byte), NEW buffer \in Seq(Byte), NEW p \in Nat,
         \A k \in 1 .. Len(buffer) : buffer[k] = all[p + k],
         NEW first \in Nat, NEW last \in Nat, first <= last, last <= Len(buffer)
  PROVE  SubSeq(all, p + first + 1, p + last) = SubSeq(buffer, first + 1, last)
<1> DEFINE sub == SubSeq(all, p + first + 1, p + last)
           body == SubSeq(buffer, first + 1, last)
<1>0. Len(buffer) \in Nat
  OBVIOUS
<1>1. \A k \in first + 1 .. last : buffer[k] \in Byte /\ all[p + k] = buffer[k]
  <2> TAKE k \in first + 1 .. last
  <2>1. k \in 1 .. Len(buffer)
    BY <1>0
  <2> QED
    BY <2>1
<1>2. /\ first + 1 \in Int /\ last \in Int /\ p + first + 1 \in Int /\ p + last \in Int
  OBVIOUS
<1>3. \A k \in p + first + 1 .. p + last : all[k] \in Byte
  <2> TAKE k \in p + first + 1 .. p + last
  <2>1. k - p \in first + 1 .. last /\ p + (k - p) = k
    OBVIOUS
  <2> QED
    BY <1>1, <2>1
<1>4. /\ body \in Seq(Byte)
      /\ Len(body) = IF first + 1 <= last THEN last - (first + 1) + 1 ELSE 0
      /\ \A k \in 1 .. last - (first + 1) + 1 : body[k] = buffer[(first + 1) + k - 1]
  BY <1>1, <1>2, SubSeqProperties
<1>5. /\ sub \in Seq(Byte)
      /\ Len(sub) = IF p + first + 1 <= p + last THEN (p + last) - (p + first + 1) + 1 ELSE 0
      /\ \A k \in 1 .. (p + last) - (p + first + 1) + 1 : sub[k] = all[(p + first + 1) + k - 1]
  BY <1>2, <1>3, SubSeqProperties
<1> HIDE DEF sub, body
<1>6. Len(sub) = Len(body) /\ Len(body) = last - first
  BY <1>4, <1>5
<1>7. ASSUME NEW k \in 1 .. Len(sub) PROVE sub[k] = body[k]
  <2>1. /\ k \in 1 .. last - (first + 1) + 1
        /\ k \in 1 .. (p + last) - (p + first + 1) + 1
        /\ (first + 1) + k - 1 = first + k
        /\ (p + first + 1) + k - 1 = p + (first + k)
        /\ first + k \in first + 1 .. last
    BY <1>6
  <2>2. body[k] = buffer[first + k]
    BY <1>4, <2>1
  <2>3. sub[k] = all[p + (first + k)]
    BY <1>5, <2>1
  <2> QED
    BY <1>1, <2>1, <2>2, <2>3
<1>8. sub = body
  BY <1>4, <1>5, <1>6, <1>7, SeqEqual
<1> QED
  BY <1>8 DEF sub, body

(* The frame at the front of the buffer is the next one of the reference, where   *)
(* the reader stands and whatever follows it.                                     *)
LEMMA NextFrame ==
  ASSUME NEW bytes \in Seq(Byte), NEW buffer \in Seq(Byte), NEW more \in Seq(Byte),
         NEW p \in Nat, Follows(buffer, bytes, p), Whole(buffer), NEW id \in 1 .. I32_MAX
  PROVE  LET header == TryReadVarint(Tail(buffer))
             len == header.offset + header.size
             body == SubSeq(buffer, header.offset + 1, len)
             all == bytes \o more
         IN  /\ FrameAt(all, p, id) = [tag |-> Head(buffer), body |-> body,
                                       kind |-> Kind(Head(buffer), body), id |-> id]
             /\ p \in 0 .. Len(all) /\ p + len \in 0 .. Len(all)
             /\ WholeAt(all, p) # {}
             /\ EndAt(all, p, LengthAt(all, p)) = p + len
<1> DEFINE offset == TryReadVarint(Tail(buffer)).offset
           size == TryReadVarint(Tail(buffer)).size
           body == SubSeq(buffer, offset + 1, offset + size)
           all == bytes \o more
           n == LengthAt(all, p)
           end == EndAt(all, p, n)
<1>1. buffer # <<>> /\ Known(Tail(buffer)) /\ offset + size <= Len(buffer)
  BY DEF Whole
<1>2. Tail(buffer) \in Seq(Byte) /\ Len(buffer) \in Nat
  BY <1>1, HeadTailProperties
<1>3. offset \in 2 .. 6 /\ size \in Nat
  BY <1>1, <1>2, VarintType
<1>4. /\ all \in Seq(Byte) /\ Len(all) = Len(bytes) + Len(more)
      /\ \A k \in 1 .. Len(bytes) : all[k] = bytes[k]
      /\ Len(bytes) \in Nat /\ Len(more) \in Nat
  BY ConcatProperties
<1>5. Len(bytes) = p + Len(buffer) /\ \A k \in 1 .. Len(buffer) : buffer[k] = bytes[p + k]
  BY DEF Follows
<1>6. buffer \o more \in Seq(Byte) /\ Follows(buffer \o more, all, p)
  BY FollowsMore, ConcatProperties
<1>7. /\ Whole(buffer \o more) /\ Head(buffer \o more) = Head(buffer)
      /\ TryReadVarint(Tail(buffer \o more)) = TryReadVarint(Tail(buffer))
  BY WholeStable
<1>8. /\ WholeAt(all, p) # {} /\ all[p + 1] = Head(buffer)
      /\ n + 1 = offset /\ Says(all, p, n) = size
  <2>1. PICK whole \in Seq(Byte) : whole = all
    BY <1>4
  <2>2. PICK ahead \in Seq(Byte) : ahead = buffer \o more
    BY <1>6
  <2>3. Follows(ahead, whole, p)
    BY <1>6, <2>1, <2>2
  <2>4. /\ WholeAt(whole, p) # {} <=> Whole(ahead)
        /\ WholeAt(whole, p) # {} =>
             /\ Head(ahead) = whole[p + 1]
             /\ LengthAt(whole, p) + 1 = TryReadVarint(Tail(ahead)).offset
             /\ Says(whole, p, LengthAt(whole, p)) = TryReadVarint(Tail(ahead)).size
    BY ONLY p \in Nat, whole \in Seq(Byte), ahead \in Seq(Byte), <2>3, WholeAtBuffer, Zenon
  <2> QED
    BY <1>7, <2>1, <2>2, <2>4
<1>9. n \in 1 .. 5
  <2>1. n \in WholeAt(all, p)
    BY <1>8 DEF LengthAt
  <2> QED
    BY <2>1 DEF WholeAt, LengthEnds
<1> HIDE DEF offset, size, n, all
<1>10. end = p + (offset + size)
  BY <1>3, <1>8, <1>9 DEF EndAt
<1>11. p \in 0 .. Len(all) /\ p + (offset + size) \in 0 .. Len(all)
  BY <1>1, <1>2, <1>3, <1>4, <1>5
<1>12. SubSeq(all, p + 1 + n + 1, end) = body
  <2>1. \A k \in 1 .. Len(buffer) : buffer[k] = all[p + k]
    <3> TAKE k \in 1 .. Len(buffer)
    <3>1. p + k \in 1 .. Len(bytes)
      BY <1>2, <1>5
    <3> QED
      BY <1>4, <1>5, <3>1
  <2>2. offset \in Nat /\ offset + size \in Nat /\ offset <= offset + size
    BY <1>3
  <2>3. SubSeq(all, p + offset + 1, p + (offset + size)) = body
    <3> DEFINE last == offset + size
    <3>1. last \in Nat /\ offset <= last /\ last <= Len(buffer)
      BY <1>1, <2>2
    <3> HIDE DEF last
    <3>2. PICK whole \in Seq(Byte) : whole = all
      BY <1>4
    <3>3. \A k \in 1 .. Len(buffer) : buffer[k] = whole[p + k]
      BY <2>1, <3>2
    <3>4. SubSeq(whole, p + offset + 1, p + last) = SubSeq(buffer, offset + 1, last)
      <4>1. offset \in Nat /\ last \in Nat /\ offset <= last /\ last <= Len(buffer)
        BY <2>2, <3>1
      <4> HIDE DEF body, end
      <4> QED
        BY ONLY p \in Nat, whole \in Seq(Byte), buffer \in Seq(Byte), <3>3, <4>1, SameBytes
    <3> QED
      BY <3>2, <3>4 DEF last
  <2>4. p + 1 + n + 1 = p + offset + 1
    BY <1>3, <1>8, <1>9
  <2> QED
    BY <1>10, <2>3, <2>4
<1>13. FrameAt(all, p, id) = [tag |-> Head(buffer), body |-> body,
                              kind |-> Kind(Head(buffer), body), id |-> id]
  BY <1>8, <1>12 DEF FrameAt, n
<1> QED
  BY <1>8, <1>10, <1>11, <1>13 DEF offset, size, all, n

(* A frame: the reader has one more, and stands behind it.                        *)
LEMMA FrameCut ==
  ASSUME StreamInv, CutInv, ParseFrame
  PROVE  CutInv'
<1> DEFINE kind == Kind(Head(receive_buffer), Body)
           id == last_stream_id_received + 1
           frame == [tag |-> Head(receive_buffer), body |-> Body, kind |-> kind, id |-> id]
           p == Position
<1>1. /\ StreamTypeOK /\ Behind /\ Ahead /\ HasLength
      /\ receive_buffer # <<>> /\ FrameLen <= Len(receive_buffer)
  BY DEF ParseFrame, StreamInv, CutInv, Live, HasLength, Parses
<1>2. /\ receive_buffer \in Seq(Byte) /\ received \in Seq(Byte) /\ frames \in Seq(Frame)
      /\ last_stream_id_received \in 0 .. I32_MAX /\ last_stream_id_received < I32_MAX
      /\ Len(receive_buffer) \in Nat /\ Len(received) \in Nat
  BY <1>1 DEF StreamTypeOK, ParseFrame
<1>3. id \in 1 .. I32_MAX /\ id \in 1 .. I32_MAX + 1 /\ id + 1 \in 1 .. I32_MAX + 1 /\ ~(id > I32_MAX)
  BY <1>2
<1>4. p \in Nat /\ Follows(receive_buffer, received, p)
  BY <1>1 DEF Behind
<1>5. Whole(receive_buffer)
  BY <1>1, WholeIsWholeFrame DEF WholeFrame, HasLength, Parses
<1>6. FrameLen \in Nat /\ Header.offset <= FrameLen
  BY <1>1, FrameLenType
<1>7. /\ last_stream_id_received' = id /\ frames' = Append(frames, frame)
      /\ receive_buffer' = Rest /\ phase' = "parse" /\ received' = received
  BY DEF ParseFrame, NextStreamId, HasLength, Parses
<1>8. ASSUME NEW more \in Seq(Byte)
      PROVE  /\ FrameAt(received \o more, p, id) = frame
             /\ p \in 0 .. Len(received \o more) /\ p + FrameLen \in 0 .. Len(received \o more)
             /\ WholeAt(received \o more, p) # {}
             /\ EndAt(received \o more, p, LengthAt(received \o more, p)) = p + FrameLen
  <2> HIDE DEF p, id
  <2> QED
    BY <1>2, <1>3, <1>4, <1>5, <1>8, NextFrame DEF Body, FrameLen, Header
<1>9. frame \in Frame
  <2>1. <<>> \in Seq(Byte)
    OBVIOUS
  <2>2. /\ frame = FrameAt(received \o <<>>, p, id)
        /\ WholeAt(received \o <<>>, p) # {} /\ p \in 0 .. Len(received \o <<>>)
        /\ received \o <<>> \in Seq(Byte)
    BY <1>2, <1>8, <2>1, ConcatProperties
  <2> HIDE DEF p, id, frame
  <2> QED
    BY <1>3, <2>2, FrameAtType
<1>10. Len(Rest) = Len(receive_buffer) - FrameLen
       /\ \A k \in 1 .. Len(Rest) : Rest[k] = receive_buffer[FrameLen + k]
  <2> DEFINE len == FrameLen
             rest == SubSeq(receive_buffer, len + 1, Len(receive_buffer))
  <2>0. len \in Nat /\ len <= Len(receive_buffer)
    BY <1>1, <1>6
  <2> HIDE DEF len
  <2>1. \A k \in len + 1 .. Len(receive_buffer) : receive_buffer[k] \in Byte
    BY <1>2, <2>0
  <2>2. len + 1 \in Int /\ Len(receive_buffer) \in Int
    BY <1>2, <2>0
  <2>3. /\ Len(rest) = IF len + 1 <= Len(receive_buffer) THEN Len(receive_buffer) - (len + 1) + 1 ELSE 0
        /\ \A k \in 1 .. Len(receive_buffer) - (len + 1) + 1 : rest[k] = receive_buffer[(len + 1) + k - 1]
    BY <2>1, <2>2, SubSeqProperties
  <2> HIDE DEF rest
  <2>4. Len(rest) = Len(receive_buffer) - len
    BY <1>2, <2>0, <2>3
  <2>5. ASSUME NEW k \in 1 .. Len(rest) PROVE rest[k] = receive_buffer[len + k]
    <3>1. k \in 1 .. Len(receive_buffer) - (len + 1) + 1 /\ (len + 1) + k - 1 = len + k
      BY <1>2, <2>0, <2>4
    <3> QED
      BY <2>3, <3>1
  <2> QED
    BY <2>4, <2>5 DEF len, rest, Rest
<1>11. Position' = p + FrameLen
  <2>1. Position' = Len(received) - Len(Rest)
    BY <1>7 DEF Position
  <2>2. p = Len(received) - Len(receive_buffer)
    BY DEF Position
  <2> HIDE DEF p
  <2> QED
    BY <1>2, <1>6, <1>10, <2>1, <2>2
<1>12. Behind'
  <2>1. \A k \in 1 .. Len(receive_buffer) : receive_buffer[k] = received[p + k]
    BY <1>4 DEF Follows
  <2>2. Len(received) = p + Len(receive_buffer)
    BY <1>4 DEF Follows
  <2> HIDE DEF p
  <2>3. Len(received) = (p + FrameLen) + Len(Rest)
    BY <1>2, <1>4, <1>6, <1>10, <2>2
  <2>4. ASSUME NEW k \in 1 .. Len(Rest) PROVE Rest[k] = received[(p + FrameLen) + k]
    <3>1. FrameLen + k \in 1 .. Len(receive_buffer) /\ p + (FrameLen + k) = (p + FrameLen) + k
      BY <1>2, <1>4, <1>6, <1>10
    <3>2. Rest[k] = receive_buffer[FrameLen + k]
      BY <1>10
    <3> QED
      BY <2>1, <3>1, <3>2
  <2>5. p + FrameLen \in Nat
    BY <1>4, <1>6
  <2> QED
    BY <1>7, <1>11, <2>3, <2>4, <2>5 DEF Behind, Follows
<1>13. Ahead'
  <2> SUFFICES ASSUME NEW more \in Seq(Byte)
               PROVE  Decoded(received \o more) =
                        frames' \o FramesFrom(received \o more)[id + 1][p + FrameLen]
    BY <1>7, <1>11 DEF Ahead
  <2> DEFINE all == received \o more
             rest == FramesFrom(all)[id + 1][p + FrameLen]
  <2>1. all \in Seq(Byte)
    BY <1>2, ConcatProperties
  <2>2. Decoded(all) = frames \o FramesFrom(all)[id][p]
    BY <1>1 DEF Ahead
  <2>3. /\ FrameAt(all, p, id) = frame /\ p \in 0 .. Len(all) /\ p + FrameLen \in 0 .. Len(all)
        /\ WholeAt(all, p) # {} /\ EndAt(all, p, LengthAt(all, p)) = p + FrameLen
    BY <1>8
  <2> HIDE DEF all, p, id, frame
  <2>4. FramesFrom(all)[id][p] = <<frame>> \o rest
    BY <1>3, <2>1, <2>3, FramesFromStep
  <2>5. rest \in Seq(Frame)
    BY <1>3, <2>1, <2>3, FramesFromStep
  <2> HIDE DEF rest
  <2>6. <<frame>> \in Seq(Frame)
    BY <1>9
  <2>7. frames \o (<<frame>> \o rest) = (frames \o <<frame>>) \o rest
    BY <1>2, <2>5, <2>6, ConcatAssociative
  <2>8. frames' = frames \o <<frame>>
    BY <1>2, <1>7, <1>9, AppendIsConcat
  <2> QED
    BY <2>2, <2>4, <2>7, <2>8 DEF all, rest
<1> QED
  BY <1>7, <1>12, <1>13 DEF CutInv, Live

(* Every round of poll_next, and a stream that is dropped or left alone.          *)
LEMMA PollNextCut == StreamInv /\ CutInv /\ PollNext => CutInv'
BY EndCut, WaitCut, ReadCut, FrameCut DEF PollNext

LEMMA OtherCut ==
  ASSUME CutInv, Open \/ Drop \/ UNCHANGED stream
  PROVE  CutInv'
<1>1. CASE Drop
  BY <1>1 DEF Drop, CutInv, Live
<1>2. CASE UNCHANGED stream
  <2>1. UNCHANGED <<phase, receive_buffer, last_stream_id_received, received, frames>>
    BY <1>2 DEF stream
  <2>2. Position' = Position
    BY <2>1 DEF Position
  <2> QED
    BY <2>1, <2>2 DEF CutInv, Live, Behind, Ahead
<1> QED
  BY <1>1, <1>2, OpenCut

(* A reader that waits has nothing whole before it.                               *)
LEMMA CutsAgree == StreamInv /\ CutInv => CutsDoNotMatter
<1> SUFFICES ASSUME StreamInv, CutInv, phase = "pending" PROVE frames = Decoded(received)
  BY DEF CutInv, CutsDoNotMatter
<1>1. StreamTypeOK /\ Behind /\ Ahead /\ ~WholeFrame
  BY DEF StreamInv, CutInv, Live
<1> QED
  BY <1>1, NothingLeft, WholeIsWholeFrame

LEMMA InitCut == StreamInit => CutInv
BY DEF StreamInit, CutInv, Live

LEMMA StreamNextCut == StreamInv /\ CutInv /\ [StreamNext]_stream => CutInv'
BY PollNextCut, OtherCut DEF StreamNext

(* MessageStream by itself: whatever bytes arrive, and however the socket cuts    *)
(* them, a reader that waits or is at the end has got the frames that the same    *)
(* bytes have in one piece (poll_next, try_read_varint).                          *)
THEOREM StreamCutsDoNotMatter == StreamSpec => []CutsDoNotMatter
<1>1. StreamInit => StreamInv /\ CutInv
  BY InitStreamInv, InitCut
<1>2. StreamInv /\ CutInv /\ [StreamNext]_stream => (StreamInv /\ CutInv)'
  <2>1. StreamInv /\ [StreamNext]_stream => StreamInv'
    BY OpenDropInv, PollNextInv, StutterStreamInv DEF StreamNext
  <2> QED
    BY <2>1, StreamNextCut
<1>3. StreamInv /\ CutInv => CutsDoNotMatter
  BY CutsAgree
<1> QED
  BY <1>1, <1>2, <1>3, PTL DEF StreamSpec

USE WebPushAssumption, PushClientAssumption

-------------------------------------------------------------------------------
(* Decryption.                                                                    *)

(* What a sender seals: the message, the delimiter, and zeros.                    *)
Padded(message, padding) == message \o <<2>> \o [n \in 1 .. padding |-> 0]

LEMMA PaddedProperties ==
  ASSUME NEW message \in Seq(Nat), NEW padding \in Nat
  PROVE  LET text == Padded(message, padding)
             end == Len(message) + 1
         IN  /\ text \in Seq(Nat) /\ Len(text) = end + padding /\ end \in Nat \ {0}
             /\ text[end] = 2
             /\ \A n \in end + 1 .. Len(text) : text[n] = 0
             /\ SubSeq(text, 1, end - 1) = message
<1> DEFINE zeros == [n \in 1 .. padding |-> 0]
           head == message \o <<2>>
           text == head \o zeros
           end == Len(message) + 1
<1>1. zeros \in Seq(Nat) /\ Len(zeros) = padding /\ \A n \in 1 .. padding : zeros[n] = 0
  OBVIOUS
<1>2. <<2>> \in Seq(Nat) /\ Len(<<2>>) = 1 /\ <<2>>[1] = 2
  OBVIOUS
<1>3. Len(message) \in Nat /\ end \in Nat \ {0}
  OBVIOUS
<1>4. /\ head \in Seq(Nat) /\ Len(head) = end /\ head[end] = 2
      /\ \A n \in 1 .. Len(message) : head[n] = message[n]
  BY <1>2, <1>3, ConcatProperties
<1> HIDE DEF head, zeros
<1>5. /\ text \in Seq(Nat) /\ Len(text) = end + padding
      /\ \A n \in 1 .. end : text[n] = head[n]
      /\ \A n \in end + 1 .. end + padding : text[n] = zeros[n - end]
  <2> HIDE DEF end
  <2>1. /\ text \in Seq(Nat) /\ Len(text) = Len(head) + Len(zeros)
        /\ \A n \in 1 .. Len(head) + Len(zeros) :
             text[n] = IF n <= Len(head) THEN head[n] ELSE zeros[n - Len(head)]
    BY <1>1, <1>4, ConcatProperties
  <2> HIDE DEF text
  <2>2. \A n \in 1 .. end + padding : text[n] = IF n <= end THEN head[n] ELSE zeros[n - end]
    BY <1>1, <1>4, <2>1
  <2>3. \A n \in 1 .. end : n \in 1 .. end + padding /\ n <= end
    BY <1>3
  <2>4. \A n \in end + 1 .. end + padding : n \in 1 .. end + padding /\ ~(n <= end)
    BY <1>3
  <2> QED
    BY <1>1, <1>4, <2>1, <2>2, <2>3, <2>4
<1>6. \A n \in end + 1 .. Len(text) : text[n] = 0
  BY <1>1, <1>3, <1>5
<1> HIDE DEF text
<1>7. SubSeq(text, 1, end - 1) = message
  <2> DEFINE sub == SubSeq(text, 1, Len(message))
  <2>1. \A n \in 1 .. Len(message) : text[n] = message[n] /\ text[n] \in Nat
    <3>1. \A n \in 1 .. Len(message) : n \in 1 .. end /\ message[n] \in Nat
      BY <1>3
    <3> QED
      BY <1>4, <1>5, <3>1
  <2>2. /\ sub \in Seq(Nat)
        /\ Len(sub) = Len(message)
        /\ \A n \in 1 .. Len(message) : sub[n] = text[n]
    <3>1. /\ sub \in Seq(Nat)
          /\ Len(sub) = IF 1 <= Len(message) THEN Len(message) - 1 + 1 ELSE 0
          /\ \A n \in 1 .. Len(message) - 1 + 1 : sub[n] = text[1 + n - 1]
      BY <1>3, <2>1, SubSeqProperties
    <3> QED
      BY <1>3, <3>1
  <2> HIDE DEF sub
  <2>3. sub = message
    BY <2>1, <2>2, SeqEqual
  <2> QED
    BY <1>3, <2>3 DEF sub
<1>8. text = Padded(message, padding)
  BY DEF text, head, zeros, Padded
<1> HIDE DEF end
<1> QED
  BY <1>3, <1>4, <1>5, <1>6, <1>7, <1>8 DEF end

(* The only delimiter that decrypt finds is the one that was sealed.              *)
LEMMA DelimiterFound ==
  ASSUME NEW message \in Seq(Nat), NEW padding \in Nat
  PROVE  Delimiters(Padded(message, padding)) = {Len(message) + 1}
<1> DEFINE text == Padded(message, padding)
           end == Len(message) + 1
<1>1. /\ text \in Seq(Nat) /\ Len(text) = end + padding /\ end \in Nat \ {0}
      /\ text[end] = 2
      /\ \A n \in end + 1 .. Len(text) : text[n] = 0
  BY PaddedProperties
<1> HIDE DEF text, end
<1>2. DOMAIN text = 1 .. Len(text) /\ end \in 1 .. Len(text)
  BY <1>1
<1>3. end \in Delimiters(text)
  BY <1>1, <1>2 DEF Delimiters
<1>4. ASSUME NEW n \in Delimiters(text) PROVE n = end
  <2>1. n \in 1 .. Len(text) /\ text[n] # 0 /\ \A m \in n + 1 .. Len(text) : text[m] = 0
    BY <1>2 DEF Delimiters
  <2>2. ~(n > end)
    BY <1>1, <2>1
  <2>3. ~(n < end)
    <3>1. n < end => end \in n + 1 .. Len(text)
      BY <1>2, <2>1
    <3> QED
      BY <1>1, <2>1, <3>1
  <2> QED
    BY <1>1, <2>1, <2>2, <2>3
<1>5. Delimiters(text) = {end}
  BY <1>3, <1>4
<1> QED
  BY <1>5 DEF text, end

(* What was sealed for the keys of a session opens and is what was sent.          *)
LEMMA DecryptsSealed ==
  ASSUME NEW message \in Seq(Nat), NEW padding \in Nat, NEW keys, keys # NoKeys
  PROVE  Decrypt(keys, Sealed(message, padding, keys)) = {message}
<1> DEFINE text == Padded(message, padding)
           payload == Sealed(message, padding, keys)
<1>1. text \in Seq(Nat) /\ Len(text) \in Nat \ {0} /\ Len(message) + 1 \in Nat
  <2>1. /\ text \in Seq(Nat) /\ Len(text) = Len(message) + 1 + padding
        /\ Len(message) + 1 \in Nat \ {0}
    BY PaddedProperties
  <2> HIDE DEF text
  <2> QED
    BY <2>1
<1>2. payload = Payload(text, keys)
  BY DEF Sealed, Padded
<1> HIDE DEF text, payload
<1>3. /\ payload.base64 /\ payload.keyOnCurve /\ payload.intact /\ payload.sealedFor = keys
      /\ payload.size = HEADER_PREFIX_LEN + PUBLIC_KEY_LEN + Len(text) + AUTH_TAG_LEN
      /\ payload.record_size = Len(text) + AUTH_TAG_LEN + 1
      /\ payload.key_id_len = PUBLIC_KEY_LEN
      /\ payload.plaintext = text
  BY <1>2 DEF Payload
<1>4. CiphertextLen(payload) = Len(text) + AUTH_TAG_LEN
  BY <1>1, <1>3 DEF CiphertextLen
<1>5. Opens(keys, payload)
  BY <1>1, <1>3, <1>4 DEF Opens
<1>6. Delimiters(text) = {Len(message) + 1}
  BY DelimiterFound DEF text
<1>7. text[Len(message) + 1] = 2 /\ SubSeq(text, 1, Len(message) + 1 - 1) = message
  BY PaddedProperties DEF text
<1>8. Decrypt(keys, payload) = {SubSeq(text, 1, n - 1) : n \in {m \in Delimiters(text) : text[m] = 2}}
  BY <1>3, <1>5 DEF Decrypt
<1>9. {m \in Delimiters(text) : text[m] = 2} = {Len(message) + 1}
  BY <1>6, <1>7
<1>10. Decrypt(keys, payload) = {SubSeq(text, 1, Len(message) + 1 - 1)}
  <2> DEFINE ends == {m \in Delimiters(text) : text[m] = 2}
             end == Len(message) + 1
  <2>1. ends = {end} /\ Decrypt(keys, payload) = {SubSeq(text, 1, n - 1) : n \in ends}
    BY <1>8, <1>9
  <2> HIDE DEF ends, end
  <2>2. Decrypt(keys, payload) = {SubSeq(text, 1, end - 1)}
    BY <2>1
  <2> QED
    BY <2>2 DEF end
<1> QED
  BY <1>7, <1>10 DEF payload

(* What was changed, has no delimiter or was sealed for others is refused.        *)
LEMMA DecryptRefuses ==
  ASSUME NEW message \in Seq(Nat), NEW padding \in Nat, NEW keys, NEW others
  PROVE  LET payload == Sealed(message, padding, others) IN
         /\ Decrypt(keys, [payload EXCEPT !.intact = FALSE]) = {}
         /\ keys # others => Decrypt(keys, payload) = {}
         /\ Decrypt(keys, [payload EXCEPT !.plaintext = [n \in 1 .. padding + 1 |-> 0]]) = {}
<1> DEFINE payload == Sealed(message, padding, others)
           zeros == [n \in 1 .. padding + 1 |-> 0]
           changed == [payload EXCEPT !.intact = FALSE]
           bare == [payload EXCEPT !.plaintext = zeros]
<1>1. ~changed.intact
  BY DEF Sealed, Payload
<1>2. payload.sealedFor = others
  BY DEF Sealed, Payload
<1>3. bare.plaintext = zeros
  BY DEF Sealed, Payload
<1>4. Delimiters(zeros) = {}
  BY DEF Delimiters
<1> HIDE DEF payload, zeros, changed, bare
<1>5. Decrypt(keys, changed) = {}
  BY <1>1 DEF Decrypt, Opens
<1>6. keys # others => Decrypt(keys, payload) = {}
  BY <1>2 DEF Decrypt, Opens
<1>7. Decrypt(keys, bare) = {}
  BY <1>3, <1>4 DEF Decrypt
<1> QED
  BY <1>5, <1>6, <1>7 DEF payload, zeros, changed, bare

-------------------------------------------------------------------------------
(* The inductive invariant: beside that of the stream, no session has been        *)
(* registered with any keys but those it still has.                               *)
DeviceTypeOK ==
  /\ memory \in Session \cup {None}
  /\ stored \in Session \cup {None}
  /\ call \in Call
  /\ call \in {"refresh", "installation", "register", "connect", "open"} => memory # None
  /\ (call = "open") <=> (phase # "closed")
  /\ attempt \in 0 .. MAX_RETRIES
  /\ (call = "register") <=> (attempt > 0)
  /\ made \in 0 .. MaxKeys
  /\ calls \in 0 .. MaxCalls

KeysKept ==
  \A session \in {memory, stored} \ {None} : session.tokens \subseteq {session.keys, NoKeys}

IInv == StreamInv /\ DeviceTypeOK /\ KeysKept

LEMMA InitIInv == Init => IInv
<1> SUFFICES ASSUME Init PROVE IInv
  OBVIOUS
<1>1. StreamInv /\ phase = "closed"
  BY InitStreamInv DEF Init, StreamInit
<1>2. [keys |-> NoKeys, tokens |-> {}] \in Session
  BY DEF Session, Keys
<1>3. DeviceTypeOK
  <2>1. stored \in Session \cup {None} /\ memory \in Session \cup {None}
    BY <1>2 DEF Init
  <2>2. call = "idle" /\ attempt = 0 /\ made = 0 /\ calls = 0
    BY DEF Init
  <2> QED
    BY <1>1, <2>1, <2>2 DEF DeviceTypeOK, Call
<1>4. KeysKept
  BY DEF Init, KeysKept
<1> QED
  BY <1>1, <1>3, <1>4 DEF IInv

(* Starting a call leaves the session alone.                                      *)
LEMMA StartIInv ==
  ASSUME IInv, NEW what \in Call \ {"idle", "register", "open"}, Start(what),
         what # "checkin" => memory # None, UNCHANGED <<attempt, stream>>
  PROVE  IInv'
<1>1. StreamInv' /\ phase' = phase
  BY StutterStreamInv DEF IInv, stream
<1>2. DeviceTypeOK'
  BY <1>1 DEF IInv, DeviceTypeOK, Start, Call
<1>3. KeysKept'
  BY DEF IInv, KeysKept, Start
<1> QED
  BY <1>1, <1>2, <1>3 DEF IInv

LEMMA CallsIInv ==
  ASSUME IInv, Fresh \/ Refresh \/ Register \/ \E ids \in 0 .. MAX_PERSISTENT_IDS + 1 : Connect(ids)
  PROVE  IInv'
BY StartIInv DEF Fresh, Refresh, Register, Connect, Call

(* Check-in and refresh: the keys of a session that has some are not replaced.    *)
LEMMA KeysIInv == IInv /\ (CheckIn \/ Refreshed) => IInv'
<1> SUFFICES ASSUME IInv, CheckIn \/ Refreshed PROVE IInv'
  OBVIOUS
<1>1. /\ StreamInv' /\ phase' = phase /\ call' = "idle" /\ attempt' = 0
      /\ UNCHANGED <<stored, calls>> /\ call \in {"checkin", "refresh"}
  BY StutterStreamInv DEF IInv, stream, CheckIn, Refreshed, Return
<1>2. CASE CheckIn
  <2> DEFINE new == [keys |-> made', tokens |-> {}]
  <2>1. made' \in 1 .. MaxKeys
    BY <1>2 DEF CheckIn, GenerateKeys, IInv, DeviceTypeOK
  <2>2. memory' = new /\ new \in Session /\ new.tokens = {}
    BY <1>2, <2>1 DEF CheckIn, Session, Keys
  <2> HIDE DEF new
  <2>3. DeviceTypeOK'
    BY <1>1, <2>1, <2>2 DEF IInv, DeviceTypeOK, Call
  <2>4. KeysKept'
    BY <1>1, <2>2 DEF IInv, KeysKept
  <2> QED
    BY <1>1, <2>3, <2>4 DEF IInv
<1>3. CASE Refreshed /\ HasKeys
  <2>1. UNCHANGED <<memory, made>>
    BY <1>3 DEF Refreshed
  <2>2. DeviceTypeOK'
    BY <1>1, <2>1 DEF IInv, DeviceTypeOK, Call
  <2>3. KeysKept'
    BY <1>1, <2>1 DEF IInv, KeysKept
  <2> QED
    BY <1>1, <2>2, <2>3 DEF IInv
<1>4. CASE Refreshed /\ ~HasKeys
  <2> DEFINE new == [memory EXCEPT !.keys = made']
  <2>1. made' \in 1 .. MaxKeys /\ memory' = new
    BY <1>4 DEF Refreshed, GenerateKeys, IInv, DeviceTypeOK
  <2>2. memory \in Session /\ memory # None /\ memory.keys = NoKeys
    BY <1>4 DEF Refreshed, HasKeys, IInv, DeviceTypeOK
  <2>3. new \in Session /\ new.tokens = memory.tokens /\ new.keys = made'
    BY <2>1, <2>2 DEF Session, Keys
  <2> HIDE DEF new
  <2>4. memory.tokens \subseteq {NoKeys}
    BY <2>2 DEF IInv, KeysKept
  <2>5. DeviceTypeOK'
    BY <1>1, <2>1, <2>3 DEF IInv, DeviceTypeOK, Call
  <2>6. KeysKept'
    BY <1>1, <2>1, <2>3, <2>4 DEF IInv, KeysKept
  <2> QED
    BY <1>1, <2>5, <2>6 DEF IInv
<1> QED
  BY <1>2, <1>3, <1>4

(* A registration, its retries, and every failure.                                *)
LEMMA RegistrationIInv == IInv /\ (Installed \/ Token \/ Retry \/ Fail) => IInv'
<1> SUFFICES ASSUME IInv, Installed \/ Token \/ Retry \/ Fail PROVE IInv'
  OBVIOUS
<1>1. /\ StreamInv' /\ phase' = phase /\ UNCHANGED <<stored, made, calls>>
  BY StutterStreamInv DEF IInv, stream, Installed, Token, Retry, Fail
<1>2. CASE Installed \/ Retry \/ Fail
  <2>1. UNCHANGED memory
    BY <1>2 DEF Installed, Retry, Fail
  <2>2. DeviceTypeOK'
    BY <1>1, <1>2, <2>1 DEF IInv, DeviceTypeOK, Call, Installed, Retry, MayRetry, Fail, Return
  <2>3. KeysKept'
    BY <1>1, <2>1 DEF IInv, KeysKept
  <2> QED
    BY <1>1, <2>2, <2>3 DEF IInv
<1>3. CASE Token
  <2> DEFINE new == [memory EXCEPT !.tokens = @ \cup {memory.keys}]
  <2>1. memory \in Session /\ memory # None /\ memory' = new
    BY <1>3 DEF Token, IInv, DeviceTypeOK
  <2>2. new \in Session /\ new.keys = memory.keys /\ new.tokens = memory.tokens \cup {memory.keys}
    BY <2>1 DEF Session
  <2> HIDE DEF new
  <2>3. memory.tokens \subseteq {memory.keys, NoKeys}
    BY <2>1 DEF IInv, KeysKept
  <2>4. call' = "idle" /\ attempt' = 0 /\ call = "register"
    BY <1>3 DEF Token, Return
  <2>5. DeviceTypeOK'
    BY <1>1, <2>1, <2>2, <2>4 DEF IInv, DeviceTypeOK, Call
  <2>6. KeysKept'
    BY <1>1, <2>1, <2>2, <2>3 DEF IInv, KeysKept
  <2> QED
    BY <1>1, <2>5, <2>6 DEF IInv
<1> QED
  BY <1>2, <1>3

(* The connection opens, goes on and is dropped.                                  *)
LEMMA ConnectionIInv == IInv /\ (Connected \/ Streaming \/ Disconnect) => IInv'
<1> SUFFICES ASSUME IInv, Connected \/ Streaming \/ Disconnect PROVE IInv'
  OBVIOUS
<1>1. UNCHANGED <<memory, stored, made, calls>>
  BY DEF Connected, Streaming, Disconnect, device
<1>2. KeysKept'
  BY <1>1 DEF IInv, KeysKept
<1>3. CASE Connected
  <2>1. StreamInv' /\ phase' = "parse"
    BY <1>3, OpenDropInv DEF IInv, Connected, Open
  <2>2. DeviceTypeOK'
    BY <1>1, <1>3, <2>1 DEF IInv, DeviceTypeOK, Connected, Call
  <2> QED
    BY <1>2, <2>1, <2>2 DEF IInv
<1>4. CASE Streaming
  <2>1. StreamInv' /\ PollNext /\ phase' # "closed"
    <3>1. PollNext
      BY <1>4 DEF Streaming
    <3>2. phase' # "closed"
      BY <3>1 DEF PollNext, ParseClose, ParseMalformed, ParseFrame, ParseOverflow, ParseMore, Read,
        Pend, PollAgain, ReadEnds, End, HasLength, Parses
    <3> QED
      BY <3>1, <3>2, PollNextInv DEF IInv
  <2>2. call = "open" /\ UNCHANGED <<call, attempt>>
    BY <1>4 DEF Streaming, device
  <2>3. DeviceTypeOK'
    BY <1>1, <2>1, <2>2 DEF IInv, DeviceTypeOK
  <2> QED
    BY <1>2, <2>1, <2>3 DEF IInv
<1>5. CASE Disconnect
  <2>1. StreamInv' /\ phase' = "closed"
    BY <1>5, OpenDropInv DEF IInv, Disconnect, Drop
  <2>2. DeviceTypeOK'
    BY <1>1, <1>5, <2>1 DEF IInv, DeviceTypeOK, Disconnect, Return, Call
  <2> QED
    BY <1>2, <2>1, <2>2 DEF IInv
<1> QED
  BY <1>3, <1>4, <1>5

(* Storing, restoring, and a crash.                                               *)
LEMMA KeepIInv == IInv /\ (Save \/ Restore \/ Crash) => IInv'
<1> SUFFICES ASSUME IInv, Save \/ Restore \/ Crash PROVE IInv'
  OBVIOUS
<1>1. CASE Save \/ Restore
  <2>1. StreamInv' /\ UNCHANGED <<phase, call, attempt, made, calls>> /\ call = "idle"
    BY <1>1, StutterStreamInv DEF IInv, stream, Save, Restore
  <2>2. {memory', stored'} \subseteq {memory, stored}
    BY <1>1 DEF Save, Restore
  <2>3. DeviceTypeOK'
    BY <2>1, <2>2 DEF IInv, DeviceTypeOK
  <2>4. KeysKept'
    BY <2>2 DEF IInv, KeysKept
  <2> QED
    BY <2>1, <2>3, <2>4 DEF IInv
<1>2. CASE Crash
  <2>1. StreamInv' /\ phase' = "closed"
    <3>1. CASE Drop
      BY <3>1, OpenDropInv DEF IInv, Drop
    <3>2. CASE phase = "closed" /\ UNCHANGED stream
      BY <3>2, StutterStreamInv DEF IInv, stream
    <3> QED
      BY <1>2, <3>1, <3>2 DEF Crash
  <2>2. memory' = None /\ call' = "idle" /\ attempt' = 0 /\ UNCHANGED <<stored, made, calls>>
    BY <1>2 DEF Crash, Return
  <2>3. DeviceTypeOK'
    BY <2>1, <2>2 DEF IInv, DeviceTypeOK, Call
  <2>4. KeysKept'
    BY <2>2 DEF IInv, KeysKept
  <2> QED
    BY <2>1, <2>3, <2>4 DEF IInv
<1> QED
  BY <1>1, <1>2

LEMMA StutterIInv == IInv /\ UNCHANGED vars => IInv'
<1> SUFFICES ASSUME IInv, UNCHANGED vars PROVE IInv'
  OBVIOUS
<1>1. StreamInv' /\ phase' = phase
  BY StutterStreamInv DEF IInv, vars, stream
<1>2. UNCHANGED <<memory, stored, call, attempt, made, calls>>
  BY DEF vars, device
<1> QED
  BY <1>1, <1>2 DEF IInv, DeviceTypeOK, KeysKept

LEMMA NextIInv == IInv /\ [Next]_vars => IInv'
BY CallsIInv, KeysIInv, RegistrationIInv, ConnectionIInv, KeepIInv, StutterIInv DEF Next

LEMMA Invariant == Spec => []IInv
BY InitIInv, NextIInv, PTL DEF Spec

(* The types of device and stream; in particular a registration is posted at most *)
(* MAX_RETRIES times (register of gcm.rs), and the connection is open as long as  *)
(* its stream.                                                                    *)
THEOREM TypeCorrect == Spec => []TypeOK
<1>1. IInv => TypeOK
  BY DEF IInv, StreamInv, DeviceTypeOK, TypeOK
<1> QED
  BY <1>1, Invariant, PTL

(* The device leaves its stream alone, or steps it as MessageStream does.         *)
LEMMA DeviceCut == IInv /\ CutInv /\ [Next]_vars => CutInv'
<1> SUFFICES ASSUME IInv, CutInv, [Next]_vars PROVE CutInv'
  OBVIOUS
<1>1. StreamInv
  BY DEF IInv
<1>2. CASE Streaming
  BY <1>1, <1>2, PollNextCut DEF Streaming
<1>3. CASE Connected
  BY <1>3, OtherCut DEF Connected
<1>4. CASE Disconnect \/ Crash
  BY <1>4, OtherCut DEF Disconnect, Crash
<1>5. CASE Fresh \/ CheckIn \/ Refresh \/ Refreshed
  BY <1>5, OtherCut DEF Fresh, CheckIn, Refresh, Refreshed
<1>6. CASE Register \/ Installed \/ Token \/ Retry \/ Fail
  BY <1>6, OtherCut DEF Register, Installed, Token, Retry, Fail
<1>7. CASE (\E ids \in 0 .. MAX_PERSISTENT_IDS + 1 : Connect(ids)) \/ Save \/ Restore
  BY <1>7, OtherCut DEF Connect, Save, Restore
<1>8. CASE UNCHANGED vars
  BY <1>8, OtherCut DEF vars
<1> QED
  BY <1>2, <1>3, <1>4, <1>5, <1>6, <1>7, <1>8 DEF Next

(* However the socket cuts what the server sends, a device has got the frames of  *)
(* all that has arrived when it waits, or when its stream has ended, each once,   *)
(* in order and with its number (poll_next).                                      *)
THEOREM CutsNeverMatter == Spec => []CutsDoNotMatter
<1>1. Init => CutInv
  BY InitCut DEF Init
<1>2. IInv /\ CutInv => CutsDoNotMatter
  BY CutsAgree DEF IInv
<1> QED
  BY <1>1, <1>2, DeviceCut, Invariant, PTL DEF Spec

(* A reader that waits for the socket has been given every frame that has arrived *)
(* as a whole, for every byte stream and every way to cut it (poll_next).         *)
THEOREM NothingWaits == Spec => []NothingHeld
<1>1. IInv => NothingHeld
  BY DEF IInv, StreamInv, NothingHeld
<1> QED
  BY <1>1, Invariant, PTL

(* Whatever is sealed for the keys that were registered is read by the session,   *)
(* for every message, every padding and any number of refreshes (DeviceSession).  *)
THEOREM AlwaysReadable == Spec => []Readable
<1>1. IInv => Readable
  <2> SUFFICES ASSUME IInv, NEW session \in {memory, stored} \ {None},
                      NEW token \in session.tokens \ {NoKeys},
                      NEW message \in Messages, NEW padding \in 0 .. MaxPadding
               PROVE  LET payload == Sealed(message, padding, token) IN
                 /\ Decrypt(session.keys, payload) = {message}
                 /\ Decrypt(session.keys, [payload EXCEPT !.intact = FALSE]) = {}
                 /\ \A keys \in Keys \ {session.keys} : Decrypt(keys, payload) = {}
                 /\ Decrypt(session.keys,
                      [payload EXCEPT !.plaintext = [n \in 1 .. padding + 1 |-> 0]]) = {}
    BY DEF Readable, Reads
  <2>1. token = session.keys /\ session.keys # NoKeys
    BY DEF IInv, KeysKept
  <2>2. message \in Seq(Nat) /\ padding \in Nat
    OBVIOUS
  <2>3. Decrypt(session.keys, Sealed(message, padding, token)) = {message}
    BY <2>1, <2>2, DecryptsSealed
  <2>4. \A keys : LET payload == Sealed(message, padding, token) IN
          /\ Decrypt(keys, [payload EXCEPT !.intact = FALSE]) = {}
          /\ keys # token => Decrypt(keys, payload) = {}
          /\ Decrypt(keys, [payload EXCEPT !.plaintext = [n \in 1 .. padding + 1 |-> 0]]) = {}
    BY <2>2, DecryptRefuses
  <2> QED
    BY <2>1, <2>3, <2>4
<1> QED
  BY <1>1, Invariant, PTL
===============================================================================
