--------------------------- MODULE ReceiveProofs ---------------------------
(***************************************************************************)
(* Proofs about the receive loop, for every buffer size, every set of      *)
(* streams and every content the buffer may start with.                    *)
(***************************************************************************)
EXTENDS Receive, TLAPS, SequenceTheorems

\* The size announced by the frame that begins at index i.
SizeAt(b, i) == 256 * b[i + 3] + b[i + 4] + OVERHEAD_SIZE

\* The buffer in use starts with a header, and so does the current frame.
Headed ==
  /\ cursor > 0 => buf[0] = HEADER
  /\ frame_start < cursor => buf[frame_start] = HEADER

\* The current frame never has more bytes than it announces; a known end is
\* the one the frame announces.
Sized ==
  /\ Have >= PREFIX_SIZE => cursor <= frame_start + SizeAt(buf, frame_start)
  /\ expected_total > 0 =>
       /\ Have >= PREFIX_SIZE
       /\ expected_frame_size = SizeAt(buf, frame_start)
       /\ expected_total = frame_start + expected_frame_size

\* InBounds is not inductive: a read stays within the frame only because the
\* end of the frame is the one its prefix announces, and bytes leave the front
\* of the buffer only before the first header byte.
IInv == TypeOK /\ InBounds /\ Headed /\ Sized

-----------------------------------------------------------------------------
(* Lemmas.                                                                 *)

\* The read loop asks for no more than the frame lacks, the buffer holds and
\* the line carries.
LEMMA ReadFits ==
  ASSUME IInv, NeedsBytes, NEW n \in 1 .. Smaller(ChunkSize, Len(line) - taken)
  PROVE  /\ n <= ReadSize
         /\ cursor + n <= BufSize
         /\ taken + n <= Len(line)
<1>1. Len(line) \in Nat
  BY StreamsAssumption DEF IInv, TypeOK
<1>2. ReadSize \in Nat
  BY DEF IInv, TypeOK, InBounds, NeedsBytes, ReadSize, Have, PREFIX_SIZE
<1> QED
  BY <1>1, <1>2, BufSizeAssumption DEF IInv, TypeOK, ChunkSize, Smaller

\* Bytes are written behind the ones in use.
LEMMA AppendedBehind ==
  ASSUME TypeOK, NEW n \in Nat, cursor + n <= BufSize, taken + n <= Len(line)
  PROVE  /\ Appended(n) \in [Index -> Byte]
         /\ \A i \in Index : i < cursor => Appended(n)[i] = buf[i]
<1>1. ASSUME NEW i \in Index, i \in cursor .. cursor + n - 1
      PROVE  line[taken + i - cursor + 1] \in Byte
  <2>1. line \in Seq(Byte)
    BY StreamsAssumption DEF TypeOK
  <2>2. taken + i - cursor + 1 \in 1 .. Len(line)
    BY <1>1, <2>1 DEF TypeOK, Index
  <2> QED
    BY <2>1, <2>2
<1> QED
  BY <1>1 DEF Appended, TypeOK, Index

\* A move to the front keeps the buffer a buffer.
LEMMA MovedIsBuffer ==
  ASSUME NEW b \in [Index -> Byte], NEW c \in 0 .. BufSize, NEW fs \in 0 .. c
  PROVE  MovedToFront(b, c, fs) \in [Index -> Byte]
<1>1. ASSUME NEW i \in Index, i < c - fs
      PROVE  b[i + fs] \in Byte
  BY <1>1, BufSizeAssumption DEF Index
<1> QED
  BY <1>1 DEF MovedToFront

\* A frame announces at least its overhead.
LEMMA AnnouncedSize ==
  ASSUME NEW b \in [Index -> Byte], NEW i \in Nat, i + PREFIX_SIZE <= BufSize
  PROVE  SizeAt(b, i) \in Nat /\ SizeAt(b, i) >= OVERHEAD_SIZE
<1>1. b[i + 3] \in 0 .. 255 /\ b[i + 4] \in 0 .. 255
  BY BufSizeAssumption DEF Index, Byte, PREFIX_SIZE
<1>2. ASSUME NEW x \in 0 .. 255, NEW y \in 0 .. 255
      PROVE  256 * x + y + 7 \in Nat /\ 256 * x + y + 7 >= 7
  OBVIOUS
<1>3. 256 * b[i + 3] + b[i + 4] + 7 \in Nat /\ 256 * b[i + 3] + b[i + 4] + 7 >= 7
  BY <1>1, <1>2
<1> QED
  BY <1>3 DEF SizeAt, OVERHEAD_SIZE

\* What ExpectFrame reads is the size the current frame announces.
LEMMA ExpectedIsAnnounced ==
  ASSUME NEW b \in [Index -> Byte], NEW i \in Nat, i + PREFIX_SIZE <= BufSize
  PROVE  ExpectedSize(Slice(b, i, PREFIX_SIZE)) \in {PARSE_ERROR, SizeAt(b, i)}
<1> DEFINE p == Slice(b, i, PREFIX_SIZE)
<1>1. p[4] = b[i + 3] /\ p[5] = b[i + 4]
  BY DEF Slice, PREFIX_SIZE
<1>2. PayloadLength(p) + OVERHEAD_SIZE = SizeAt(b, i)
  BY <1>1 DEF PayloadLength, SizeAt
<1> QED
  BY <1>2 DEF ExpectedSize

\* The length of what was collected, or an error code.
LEMMA CollectedIsInt == ASSUME TypeOK PROVE Collected \in Int
  BY DEF TypeOK, Collected, PARSE_ERROR

\* Returning changes neither the buffer nor the place in it.
LEMMA ReturnKeepsIInv ==
  ASSUME IInv, NEW r \in Int, Return(r)
  PROVE  IInv'
<1>1. TypeOK'
  BY DEF IInv, TypeOK, Return, locals, Index
<1>2. (InBounds /\ Headed /\ Sized)'
  BY DEF IInv, InBounds, Headed, Sized, Return, locals, Have, SizeAt
<1> QED
  BY <1>1, <1>2 DEF IInv

-----------------------------------------------------------------------------
(* The invariant.                                                          *)

LEMMA InitIInv == Init => IInv
<1> SUFFICES ASSUME Init PROVE IInv
  OBVIOUS
<1>1. Len(line) \in Nat
  BY StreamsAssumption DEF Init
<1>2. TypeOK
  BY <1>1, BufSizeAssumption, StaleAssumption DEF Init, TypeOK, STATUS_OK
<1>3. InBounds /\ Headed /\ Sized
  BY BufSizeAssumption DEF Init, InBounds, Headed, Sized, Have, PREFIX_SIZE
<1> QED
  BY <1>2, <1>3 DEF IInv

\* Learning the end of the frame.
LEMMA ExpectFrameIInv ==
  ASSUME IInv, ExpectFrame
  PROVE  IInv'
<1> DEFINE size == ExpectedSize(Slice(buf, frame_start, PREFIX_SIZE))
<1>1. /\ frame_start \in Nat /\ buf \in [Index -> Byte]
      /\ frame_start + PREFIX_SIZE <= BufSize
  BY BufSizeAssumption DEF IInv, TypeOK, InBounds, ExpectFrame, Have, PREFIX_SIZE
<1>2. size \in {PARSE_ERROR, SizeAt(buf, frame_start)}
  BY <1>1, ExpectedIsAnnounced
<1>3. SizeAt(buf, frame_start) \in Nat /\ SizeAt(buf, frame_start) >= OVERHEAD_SIZE
  BY <1>1, AnnouncedSize
<1>4. CASE Return(size)
  <2>1. size \in Int
    BY <1>2, <1>3 DEF PARSE_ERROR
  <2> QED
    BY <2>1, <1>4, ReturnKeepsIInv
<1>5. CASE Return(OVERFLOW)
  <2>1. OVERFLOW \in Int
    BY DEF OVERFLOW
  <2> QED
    BY <2>1, <1>5, ReturnKeepsIInv
<1>6. CASE /\ size >= 0
           /\ FitsBuffer(FrameEnd(size))
           /\ expected_frame_size' = size
           /\ expected_total' = FrameEnd(size)
           /\ UNCHANGED <<line, taken, buf, cursor, frame_start, status, result>>
  <2> HIDE DEF size
  <2>1. size = SizeAt(buf, frame_start) /\ size \in Nat /\ size >= OVERHEAD_SIZE
    BY <1>2, <1>3, <1>6 DEF PARSE_ERROR
  <2>2. TypeOK'
    BY <2>1, <1>6, BufSizeAssumption DEF IInv, TypeOK, FitsBuffer, FrameEnd, Index
  <2>3. InBounds'
    BY <2>1, <1>6, BufSizeAssumption
    DEF IInv, TypeOK, InBounds, Sized, ExpectFrame, Have, FrameEnd
  <2>4. Headed'
    BY <1>6 DEF IInv, Headed
  <2>5. Sized'
    BY <2>1, <1>6, BufSizeAssumption
    DEF IInv, TypeOK, Sized, ExpectFrame, Have, FrameEnd, SizeAt
  <2> QED
    BY <2>2, <2>3, <2>4, <2>5 DEF IInv
<1>7. size \in Int
  BY <1>2, <1>3 DEF PARSE_ERROR
<1> QED
  BY <1>4, <1>5, <1>6, <1>7 DEF ExpectFrame

\* A complete frame ends the call or gives way to the next one.
LEMMA CompleteFrameIInv ==
  ASSUME IInv, CompleteFrame
  PROVE  IInv'
<1> DEFINE check == ValidateCompleteFrame(Slice(buf, frame_start, expected_frame_size))
<1>1. check \in Int
  BY DEF ValidateCompleteFrame, PARSE_ERROR, CHECKSUM_FAILURE, STATUS_OK
<1>2. CASE Return(check)
  BY <1>1, <1>2, ReturnKeepsIInv
<1>3. CASE Return(Collected)
  BY <1>3, ReturnKeepsIInv, CollectedIsInt DEF IInv
<1>4. CASE NextFrame
  <2>1. TypeOK'
    BY <1>4, BufSizeAssumption DEF IInv, TypeOK, NextFrame, Index
  <2>2. (InBounds /\ Headed /\ Sized)'
    BY <1>4, BufSizeAssumption
    DEF IInv, TypeOK, InBounds, Headed, Sized, NextFrame, Have, PREFIX_SIZE
  <2> QED
    BY <2>1, <2>2 DEF IInv
<1> QED
  BY <1>2, <1>3, <1>4 DEF CompleteFrame

\* Reading bytes: they are appended, the frame start moves on to the next
\* header byte, and bytes before the first one leave the buffer.
LEMMA ReadIInv ==
  ASSUME IInv, NEW n \in 1 .. Smaller(ChunkSize, Len(line) - taken), Read(n)
  PROVE  IInv'
<1> DEFINE b == Appended(n)
           c == cursor + n
<1>1. /\ n \in Nat \ {0} /\ c \in Nat
      /\ n <= ReadSize /\ c <= BufSize /\ taken + n <= Len(line)
  BY ReadFits DEF Read, Reading, IInv, TypeOK
<1>2. b \in [Index -> Byte] /\ \A i \in Index : i < cursor => b[i] = buf[i]
  BY <1>1, AppendedBehind DEF IInv
<1>3. PICK fs \in frame_start .. c : IsResyncPoint(b, c, fs) /\ Resync(b, c, fs)
  BY DEF Read
<1>4. line' = line /\ taken' \in 0 .. Len(line)
  BY <1>1, StreamsAssumption DEF Read, IInv, TypeOK
<1>5. status' \in {"reading", "done"} /\ result' \in Int
  BY DEF Read, CheckType, IInv, TypeOK, PARSE_ERROR
<1>6. fs \in Nat /\ frame_start <= fs /\ fs <= c
  BY <1>1, <1>3 DEF IInv, TypeOK
<1>7. fs < c => b[fs] = HEADER
  BY <1>3 DEF IsResyncPoint
<1> HIDE DEF b, c
\* Bytes in use stay, so a frame with a header keeps its start.
<1>8. Have > 0 => fs = frame_start
  <2>1. SUFFICES ASSUME Have > 0, fs # frame_start PROVE FALSE
    OBVIOUS
  <2>2. frame_start \in Index /\ frame_start < cursor
    BY <2>1, BufSizeAssumption DEF IInv, TypeOK, InBounds, Have, Index
  <2>3. b[frame_start] = HEADER
    BY <1>2, <2>2 DEF IInv, Headed
  <2>4. frame_start \in frame_start .. fs - 1
    BY <2>1, <1>6 DEF IInv, TypeOK
  <2> QED
    BY <1>3, <2>3, <2>4 DEF IsResyncPoint
<1>9. cursor > 0 => b[0] = HEADER
  <2>1. cursor > 0 => 0 \in Index
    BY BufSizeAssumption DEF Index
  <2> QED
    BY <1>2, <2>1 DEF IInv, Headed, TypeOK
\* The frame keeps within the size it announces.
<1>10. fs + PREFIX_SIZE <= c =>
         /\ c <= fs + SizeAt(b, fs)
         /\ Have >= PREFIX_SIZE => SizeAt(b, fs) = SizeAt(buf, frame_start)
  <2>1. SUFFICES ASSUME fs + PREFIX_SIZE <= c
                 PROVE  /\ c <= fs + SizeAt(b, fs)
                        /\ Have >= PREFIX_SIZE => SizeAt(b, fs) = SizeAt(buf, frame_start)
    OBVIOUS
  <2>2. SizeAt(b, fs) \in Nat /\ SizeAt(b, fs) >= OVERHEAD_SIZE
    <3>1. fs + PREFIX_SIZE <= BufSize
      BY <2>1, <1>1, <1>6, BufSizeAssumption DEF PREFIX_SIZE
    <3> QED
      BY <3>1, <1>2, <1>6, AnnouncedSize
  <2>3. CASE Have < PREFIX_SIZE
    <3>1. expected_total = 0
      BY <2>3 DEF IInv, TypeOK, Sized, InBounds, Have, PREFIX_SIZE
    <3>2. c <= fs + PREFIX_SIZE
      BY <1>1, <1>6, <3>1 DEF IInv, TypeOK, InBounds, ReadSize, Have, PREFIX_SIZE, c
    <3> QED
      BY <2>2, <2>3, <3>2, <1>1, <1>6 DEF PREFIX_SIZE, OVERHEAD_SIZE, Have, IInv, TypeOK
  <2>4. CASE Have >= PREFIX_SIZE
    <3>1. fs = frame_start
      BY <1>8, <2>4 DEF Have, PREFIX_SIZE, IInv, TypeOK
    <3>2. /\ fs + 3 \in Index /\ fs + 3 < cursor
          /\ fs + 4 \in Index /\ fs + 4 < cursor
      BY <2>4, <3>1, BufSizeAssumption DEF Have, PREFIX_SIZE, IInv, TypeOK, InBounds, Index
    <3>3. SizeAt(b, fs) = SizeAt(buf, frame_start)
      BY <3>1, <3>2, <1>2 DEF SizeAt
    <3>4. expected_total > 0 /\ c <= expected_total
      BY BufSizeAssumption, <1>1, <2>4 DEF Read, Reading, NeedsBytes, ReadSize, Have, PREFIX_SIZE, IInv, TypeOK, InBounds, c
    <3> QED
      BY <3>1, <3>3, <3>4 DEF IInv, Sized
  <2>5. Have \in Int
    BY DEF IInv, TypeOK, Have
  <2> QED
    BY <2>3, <2>4, <2>5 DEF PREFIX_SIZE
<1>11. CASE fs = 0 /\ buf' = b /\ cursor' = c /\ frame_start' = 0
            /\ UNCHANGED <<expected_frame_size, expected_total>>
  <2>1. frame_start = 0
    BY <1>6, <1>11 DEF IInv, TypeOK
  <2>2. TypeOK'
    BY <1>1, <1>2, <1>4, <1>5, <1>11 DEF IInv, TypeOK, Index
  <2>3. InBounds'
    BY <1>1, <1>11, <2>1 DEF IInv, TypeOK, InBounds, ReadSize, c
  <2>4. Headed'
    BY <1>7, <1>11, <1>1 DEF Headed
  <2>5. Sized'
    BY <1>1, <1>10, <1>11, <2>1 DEF IInv, TypeOK, Sized, Have, PREFIX_SIZE, c, SizeAt
  <2> QED
    BY <2>2, <2>3, <2>4, <2>5 DEF IInv
<1>12. CASE fs > 0 /\ b[0] = HEADER /\ buf' = b /\ cursor' = c /\ frame_start' = fs
            /\ expected_frame_size' = 0 /\ expected_total' = 0
  <2>1. TypeOK'
    BY <1>1, <1>2, <1>4, <1>5, <1>6, <1>12, BufSizeAssumption DEF IInv, TypeOK, Index
  <2>2. InBounds' /\ Headed'
    BY <1>1, <1>6, <1>7, <1>12 DEF InBounds, Headed
  <2>3. Sized'
    BY <1>1, <1>6, <1>10, <1>12 DEF Sized, Have, PREFIX_SIZE, SizeAt
  <2> QED
    BY <2>1, <2>2, <2>3 DEF IInv
<1>13. CASE fs > 0 /\ b[0] # HEADER /\ fs = c /\ buf' = b /\ cursor' = 0 /\ frame_start' = 0
            /\ expected_frame_size' = 0 /\ expected_total' = 0
  <2>1. TypeOK'
    BY <1>1, <1>2, <1>4, <1>5, <1>13, BufSizeAssumption DEF IInv, TypeOK, Index
  <2>2. InBounds' /\ Headed' /\ Sized'
    BY <1>13, BufSizeAssumption DEF InBounds, Headed, Sized, Have, PREFIX_SIZE
  <2> QED
    BY <2>1, <2>2 DEF IInv
<1>14. CASE fs > 0 /\ b[0] # HEADER /\ fs < c /\ buf' = MovedToFront(b, c, fs)
            /\ cursor' = c - fs /\ frame_start' = 0
            /\ UNCHANGED <<expected_frame_size, expected_total>>
  \* Nothing was in use before, so what is moved is at most a prefix.
  <2>1. cursor = 0 /\ frame_start = 0
    BY <1>9, <1>14 DEF IInv, TypeOK, InBounds
  <2>2. expected_total = 0 /\ c <= PREFIX_SIZE
    BY <2>1, <1>1 DEF IInv, TypeOK, Sized, ReadSize, Have, PREFIX_SIZE, c
  <2>3. buf' \in [Index -> Byte]
    BY <1>1, <1>2, <1>6, <1>14, MovedIsBuffer
  <2>4. TypeOK'
    BY <1>1, <1>4, <1>5, <1>6, <1>14, <2>3, BufSizeAssumption DEF IInv, TypeOK, Index
  <2>5. InBounds'
    BY <1>1, <1>6, <1>14, <2>2, BufSizeAssumption DEF InBounds
  <2>6. buf'[0] = HEADER
    BY <1>1, <1>6, <1>7, <1>14, BufSizeAssumption DEF MovedToFront, Index
  <2>7. Headed'
    BY <1>14, <2>6 DEF Headed
  <2>8. Sized'
    BY <1>1, <1>6, <1>14, <2>2 DEF Sized, Have, PREFIX_SIZE
  <2> QED
    BY <2>4, <2>5, <2>7, <2>8 DEF IInv
<1> QED
  BY <1>3, <1>11, <1>12, <1>13, <1>14 DEF Resync

LEMMA NextIInv == IInv /\ [Next]_vars => IInv'
<1> SUFFICES ASSUME IInv, [Next]_vars PROVE IInv'
  OBVIOUS
<1>1. CASE ExpectFrame
  BY <1>1, ExpectFrameIInv
<1>2. CASE CompleteFrame
  BY <1>2, CompleteFrameIInv
<1>3. CASE BufferFull
  BY <1>3, ReturnKeepsIInv DEF BufferFull, OVERFLOW
<1>4. ASSUME NEW n \in 1 .. Smaller(ChunkSize, Len(line) - taken), Read(n)
      PROVE  IInv'
  BY <1>4, ReadIInv
<1>5. CASE Timeout
  <2>1. TimeoutResult \in Int
    BY CollectedIsInt DEF IInv, TimeoutResult, READ_TIMEOUT, PARSE_ERROR
  <2> QED
    BY <1>5, <2>1, ReturnKeepsIInv DEF Timeout
<1>6. CASE ReadError
  BY <1>6, ReturnKeepsIInv DEF ReadError, READ_FAILED
<1>7. CASE UNCHANGED vars
  <2>1. TypeOK'
    BY <1>7 DEF IInv, TypeOK, vars, locals, Index
  <2>2. (InBounds /\ Headed /\ Sized)'
    BY <1>7 DEF IInv, InBounds, Headed, Sized, vars, locals, Have, SizeAt
  <2> QED
    BY <2>1, <2>2 DEF IInv
<1> QED
  BY <1>1, <1>2, <1>3, <1>4, <1>5, <1>6, <1>7 DEF Next, Progress

LEMMA SpecIInv == Spec => []IInv
  BY InitIInv, NextIInv, PTL DEF Spec

-----------------------------------------------------------------------------
(* The answer in the buffer.                                               *)

\* Of the bytes read the last ones are in the buffer, in order, and what has
\* been dropped before them has no header byte.
Held ==
  /\ cursor <= taken
  /\ \A k \in 1 .. taken - cursor : line[k] # HEADER
  /\ \A i \in 0 .. cursor - 1 : buf[i] = line[taken - cursor + i + 1]

\* What neither reads nor moves leaves the answer as it was held.
LEMMA SameHeld ==
  ASSUME Held, UNCHANGED <<line, taken, cursor, buf>>
  PROVE  Held'
BY DEF Held

\* Bytes are dropped only before the first header byte has come.
LEMMA ReadHeld ==
  ASSUME IInv, Held, NEW n \in 1 .. Smaller(ChunkSize, Len(line) - taken), Read(n)
  PROVE  Held'
<1> DEFINE b == Appended(n)
           c == cursor + n
<1>1. /\ n \in Nat \ {0} /\ c \in Nat /\ cursor \in Nat /\ taken \in Nat
      /\ c <= BufSize /\ taken + n <= Len(line)
  BY ReadFits, StreamsAssumption DEF Read, Reading, IInv, TypeOK
<1>2. \A i \in Index : i < cursor => b[i] = buf[i]
  BY <1>1, AppendedBehind DEF IInv
<1>3. PICK fs \in frame_start .. c : IsResyncPoint(b, c, fs) /\ Resync(b, c, fs)
  BY DEF Read
<1>4. line' = line /\ taken' = taken + n
  BY DEF Read
<1>5. fs \in Nat /\ frame_start \in Nat /\ frame_start <= fs /\ fs <= c /\ frame_start <= cursor
  BY <1>1, <1>3 DEF IInv, TypeOK, InBounds
\* The new bytes continue the line where the old ones ended.
<1>6. \A i \in 0 .. c - 1 : b[i] = line[taken - cursor + i + 1]
  <2> SUFFICES ASSUME NEW i \in 0 .. c - 1
               PROVE  b[i] = line[taken - cursor + i + 1]
    OBVIOUS
  <2>1. i \in Index
    BY <1>1, BufSizeAssumption DEF Index
  <2>2. CASE i < cursor
    BY <2>1, <2>2, <1>1, <1>2 DEF Held
  <2>3. CASE i >= cursor
    <3>1. b[i] = line[taken + i - cursor + 1]
      BY <2>1, <2>3, <1>1 DEF Appended
    <3>2. taken + i - cursor + 1 = taken - cursor + i + 1
      BY <1>1
    <3> QED
      BY <3>1, <3>2
  <2> QED
    BY <1>1, <2>2, <2>3
<1>7. cursor > 0 => b[0] = HEADER
  <2>1. cursor > 0 => 0 \in Index
    BY BufSizeAssumption DEF Index
  <2> QED
    BY <1>2, <2>1 DEF IInv, Headed
<1> HIDE DEF b
<1>8. CASE buf' = b /\ cursor' = c
  <2>1. taken' - cursor' = taken - cursor /\ cursor' <= taken'
    BY <1>1, <1>4, <1>8 DEF Held
  <2> QED
    BY <2>1, <1>4, <1>6, <1>8 DEF Held
<1>9. ASSUME fs > 0, b[0] # HEADER
      PROVE  /\ cursor = 0 /\ c = n
             /\ \A k \in 1 .. taken + fs : line[k] # HEADER
  <2>1. cursor = 0 /\ frame_start = 0
    BY <1>1, <1>5, <1>7, <1>9
  <2>2. ASSUME NEW k \in 1 .. taken + fs
        PROVE  line[k] # HEADER
    <3>1. CASE k <= taken
      BY <1>1, <2>1, <3>1 DEF Held
    <3>2. CASE k > taken
      <4>1. k - taken - 1 \in 0 .. c - 1 /\ k - taken - 1 \in frame_start .. fs - 1
        BY <1>1, <1>5, <2>1, <3>2
      <4>2. b[k - taken - 1] # HEADER
        BY <1>3, <4>1 DEF IsResyncPoint
      <4>3. taken - cursor + (k - taken - 1) + 1 = k
        BY <1>1, <2>1
      <4> QED
        BY <1>6, <4>1, <4>2, <4>3
    <3> QED
      BY <1>1, <3>1, <3>2
  <2> QED
    BY <1>1, <2>1, <2>2
<1>10. CASE fs > 0 /\ b[0] # HEADER /\ fs = c /\ buf' = b /\ cursor' = 0
  <2>1. taken' - cursor' = taken + fs /\ cursor' <= taken'
    BY <1>1, <1>4, <1>9, <1>10
  <2>2. \A i \in 0 .. cursor' - 1 : FALSE
    BY <1>10
  <2> QED
    BY <2>1, <2>2, <1>4, <1>9, <1>10 DEF Held
<1>11. CASE fs > 0 /\ b[0] # HEADER /\ fs < c /\ buf' = MovedToFront(b, c, fs) /\ cursor' = c - fs
  <2>1. taken' - cursor' = taken + fs /\ cursor' <= taken'
    <3>1. c = n /\ taken' = taken + n /\ cursor' = c - fs
      BY <1>4, <1>9, <1>11
    <3> HIDE DEF c
    <3> QED
      BY <1>1, <1>5, <3>1
  <2>2. ASSUME NEW i \in 0 .. cursor' - 1
        PROVE  buf'[i] = line[taken + fs + i + 1]
    <3>1. i \in Index /\ i < c - fs /\ i + fs \in 0 .. c - 1
      BY <1>1, <1>5, <1>11, BufSizeAssumption DEF Index
    <3>2. buf'[i] = b[i + fs]
      BY <1>11, <3>1 DEF MovedToFront
    <3>3. taken - cursor + (i + fs) + 1 = taken + fs + i + 1
      BY <1>1, <1>5, <1>9, <1>11, <3>1
    <3> QED
      BY <1>6, <3>1, <3>2, <3>3
  <2> QED
    BY <2>1, <2>2, <1>4, <1>9, <1>11 DEF Held
<1> QED
  BY <1>3, <1>8, <1>10, <1>11 DEF Resync

\* The bytes read are held at any time.
LEMMA SpecHeld == Spec => []Held
<1>1. Init => Held
  <2> SUFFICES ASSUME Init PROVE Held
    OBVIOUS
  <2>1. cursor = 0 /\ taken = 0
    BY DEF Init
  <2> QED
    BY <2>1 DEF Held
<1>2. IInv /\ Held /\ [Next]_vars => Held'
  <2> SUFFICES ASSUME IInv, Held, [Next]_vars PROVE Held'
    OBVIOUS
  <2>1. ASSUME NEW n \in 1 .. Smaller(ChunkSize, Len(line) - taken), Read(n)
        PROVE  Held'
    BY <2>1, ReadHeld
  <2>2. CASE UNCHANGED <<line, taken, cursor, buf>>
    BY <2>2, SameHeld
  <2> QED
    BY <2>1, <2>2
    DEF Next, Progress, vars, locals, ExpectFrame, CompleteFrame, NextFrame, BufferFull, Timeout,
        ReadError, Return
<1> QED
  BY <1>1, <1>2, SpecIInv, PTL DEF Spec

\* A first header byte from k on is the one HeaderFrom finds: no other index
\* will do.
LEMMA HeaderIsFound ==
  ASSUME NEW s, Len(s) \in Nat, NEW k \in 1 .. Len(s) + 1, NEW h \in k .. Len(s) + 1,
         h <= Len(s) => s[h] = HEADER,
         \A i \in k .. h - 1 : s[i] # HEADER
  PROVE  HeaderFrom(s, k) = h
<1> DEFINE P(x) == /\ x <= Len(s) => s[x] = HEADER
                   /\ \A i \in k .. x - 1 : s[i] # HEADER
<1>1. P(h)
  OBVIOUS
<1>2. ASSUME NEW x \in k .. Len(s) + 1, P(x)
      PROVE  x = h
  <2>1. CASE x < h
    <3>1. x \in k .. h - 1 /\ x <= Len(s)
      BY <2>1
    <3> QED
      BY <3>1, <1>2
  <2>2. CASE h < x
    <3>1. h \in k .. x - 1 /\ h <= Len(s)
      BY <2>2
    <3> QED
      BY <3>1, <1>2
  <2> QED
    BY <2>1, <2>2
<1> HIDE DEF P
<1>3. (CHOOSE x \in k .. Len(s) + 1 : P(x)) = h
  BY <1>1, <1>2
<1> QED
  BY <1>3 DEF HeaderFrom, P

\* What has been collected, as a sequence: the bytes of the buffer in use.
LEMMA ContentsIsBuffer ==
  ASSUME TypeOK
  PROVE  /\ Contents \in Seq(Byte)
         /\ Len(Contents) = cursor
         /\ \A k \in 1 .. cursor : Contents[k] = buf[k - 1]
<1>1. cursor \in Nat /\ cursor <= BufSize /\ buf \in [Index -> Byte]
  BY BufSizeAssumption DEF TypeOK
<1>2. Contents = [k \in 1 .. cursor |-> buf[k - 1]]
  BY <1>1 DEF Contents, Slice
<1>3. \A k \in 1 .. cursor : k - 1 \in Index
  BY <1>1, BufSizeAssumption DEF Index
<1>4. \A k \in 1 .. cursor : buf[k - 1] \in Byte
  BY <1>1, <1>3
<1>5. [k \in 1 .. cursor |-> buf[k - 1]] \in Seq(Byte)
  BY <1>1, <1>4
<1>6. Len([k \in 1 .. cursor |-> buf[k - 1]]) = cursor
  BY <1>1, <1>5
<1> QED
  BY <1>2, <1>5, <1>6

-----------------------------------------------------------------------------
(* The theorems.                                                           *)

\* The loop's variables and the buffer keep their types, in whatever sizes
\* the answer's frames announce.
THEOREM TypeCorrect == Spec => []TypeOK
<1>1. IInv => TypeOK
  BY DEF IInv
<1> QED
  BY <1>1, SpecIInv, PTL

\* No read is asked for or written outside the buffer or behind the frame:
\* the unsigned differences of lines 144 and 162 never wrap around.
THEOREM StaysInBounds == Spec => []InBounds
<1>1. IInv => InBounds
  BY DEF IInv
<1> QED
  BY <1>1, SpecIInv, PTL

\* Skipping noise and moving the buffer never touch a frame that has been
\* accepted.
THEOREM AcceptedFramesAreKept == Spec => AcceptedFramesStay
<1> DEFINE Kept == frame_start > 0 =>
                     /\ frame_start' >= frame_start
                     /\ \A i \in 0 .. frame_start - 1 : buf'[i] = buf[i]
<1>1. IInv /\ [Next]_vars => Kept
  <2> SUFFICES ASSUME IInv, [Next]_vars, frame_start > 0 PROVE Kept
    OBVIOUS
  <2> USE DEF IInv, TypeOK, InBounds
  <2>1. CASE UNCHANGED <<buf, frame_start>>
    BY <2>1
  <2>2. CASE NextFrame
    BY <2>2 DEF NextFrame
  <2>3. ASSUME NEW n \in 1 .. Smaller(ChunkSize, Len(line) - taken), Read(n)
        PROVE  Kept
    <3>1. n \in Nat /\ cursor + n <= BufSize /\ taken + n <= Len(line)
      BY <2>3, ReadFits DEF Read, Reading
    <3>2. \A i \in Index : i < cursor => Appended(n)[i] = buf[i]
      BY <3>1, AppendedBehind
    <3>3. 0 \in Index /\ 0 < cursor /\ frame_start <= cursor
      BY BufSizeAssumption DEF Index
    <3>4. Appended(n)[0] = HEADER
      BY <3>2, <3>3 DEF Headed
    <3>5. PICK fs \in frame_start .. cursor + n : Resync(Appended(n), cursor + n, fs)
      BY <2>3 DEF Read
    <3>6. fs >= frame_start /\ buf' = Appended(n) /\ frame_start' = fs
      BY <3>4, <3>5 DEF Resync
    <3>7. \A i \in 0 .. frame_start - 1 : i \in Index /\ i < cursor
      BY <3>3, BufSizeAssumption DEF Index
    <3> QED
      BY <3>2, <3>6, <3>7
  <2> QED
    BY <2>1, <2>2, <2>3
    DEF Next, Progress, vars, locals, ExpectFrame, CompleteFrame, BufferFull, Timeout,
        ReadError, Return
<1>2. [][Kept]_vars => AcceptedFramesStay
  BY DEF AcceptedFramesStay
<1>3. Spec => [][Kept]_vars
  BY <1>1, SpecIInv, PTL DEF Spec
<1> QED
  BY <1>2, <1>3

\* Whatever the chunks, the noise and the moves within the buffer, it holds all
\* that has been read from the first header byte on, and nothing else.
THEOREM AnswerIsHeld == Spec => []BufferHoldsAnswer
<1>1. IInv /\ Held => BufferHoldsAnswer
  <2> SUFFICES ASSUME IInv, Held PROVE BufferHoldsAnswer
    OBVIOUS
  <2>1. /\ line \in Seq(Byte) /\ Len(line) \in Nat /\ taken \in 0 .. Len(line) /\ taken \in Nat
        /\ cursor \in Nat /\ cursor <= BufSize /\ cursor <= taken /\ buf \in [Index -> Byte]
    BY StreamsAssumption, BufSizeAssumption DEF IInv, TypeOK, Held
  <2> DEFINE h == taken - cursor + 1
  <2>2. /\ Consumed \in Seq(Byte) /\ Len(Consumed) = taken
        /\ \A k \in 1 .. taken : Consumed[k] = line[k]
    <3>1. \A k \in 1 .. taken : line[k] \in Byte
      BY <2>1, ElementOfSeq
    <3>2. /\ SubSeq(line, 1, taken) \in Seq(Byte)
          /\ Len(SubSeq(line, 1, taken)) = IF 1 <= taken THEN taken - 1 + 1 ELSE 0
          /\ \A k \in 1 .. taken - 1 + 1 : SubSeq(line, 1, taken)[k] = line[1 + k - 1]
      BY <2>1, <3>1, SubSeqProperties
    <3>3. \A k \in 1 .. taken : 1 + k - 1 = k /\ k \in 1 .. taken - 1 + 1
      BY <2>1
    <3> QED
      BY <2>1, <3>2, <3>3 DEF Consumed
  <2>3. h \in 1 .. taken + 1 /\ h \in Int
    BY <2>1
  <2>4. HeaderFrom(Consumed, 1) = h
    <3>1. h <= taken => Consumed[h] = HEADER
      <4> SUFFICES ASSUME h <= taken PROVE Consumed[h] = HEADER
        OBVIOUS
      <4>1. cursor > 0 /\ 0 \in 0 .. cursor - 1
        BY <2>1
      <4>2. buf[0] = HEADER /\ buf[0] = line[taken - cursor + 0 + 1]
        BY <4>1 DEF IInv, Headed, Held
      <4>3. taken - cursor + 0 + 1 = h /\ h \in 1 .. taken
        BY <2>1, <4>1
      <4> QED
        BY <2>2, <4>2, <4>3
    <3>2. \A i \in 1 .. h - 1 : Consumed[i] # HEADER
      <4>1. \A i \in 1 .. h - 1 : i \in 1 .. taken - cursor /\ i \in 1 .. taken
        BY <2>1
      <4> QED
        BY <2>2, <4>1 DEF Held
    <3>3. 1 \in 1 .. taken + 1
      BY <2>1
    <3> HIDE DEF h
    <3> QED
      BY <2>1, <2>2, <2>3, <3>1, <3>2, <3>3, HeaderIsFound
  <2>5. /\ Answer(Consumed) \in Seq(Byte) /\ Len(Answer(Consumed)) = cursor
        /\ \A k \in 1 .. cursor : Answer(Consumed)[k] = line[taken - cursor + k]
    <3>1. \A k \in h .. taken : Consumed[k] \in Byte
      <4>1. \A k \in h .. taken : k \in 1 .. Len(Consumed)
        BY <2>2, <2>3
      <4> QED
        BY <2>2, <4>1, ElementOfSeq
    <3>2. /\ SubSeq(Consumed, h, taken) \in Seq(Byte)
          /\ Len(SubSeq(Consumed, h, taken)) = IF h <= taken THEN taken - h + 1 ELSE 0
          /\ \A k \in 1 .. taken - h + 1 : SubSeq(Consumed, h, taken)[k] = Consumed[h + k - 1]
      <4> HIDE DEF h
      <4> QED
        BY <2>1, <2>3, <3>1, SubSeqProperties
    <3>3. (IF h <= taken THEN taken - h + 1 ELSE 0) = cursor /\ taken - h + 1 = cursor
      BY <2>1
    <3>4. \A k \in 1 .. cursor : /\ h + k - 1 = taken - cursor + k
                                 /\ h + k - 1 \in 1 .. taken
      BY <2>1
    <3>5. Answer(Consumed) = SubSeq(Consumed, h, taken)
      BY <2>2, <2>4 DEF Answer
    <3> HIDE DEF h
    <3>6. \A k \in 1 .. cursor : SubSeq(Consumed, h, taken)[k] = line[taken - cursor + k]
      <4> TAKE k \in 1 .. cursor
      <4>1. SubSeq(Consumed, h, taken)[k] = Consumed[h + k - 1]
        BY <3>2, <3>3
      <4>2. Consumed[h + k - 1] = line[h + k - 1]
        BY <2>2, <3>4
      <4> QED
        BY <3>4, <4>1, <4>2
    <3> QED
      BY <3>2, <3>3, <3>5, <3>6
  <2>6. /\ Contents \in Seq(Byte) /\ Len(Contents) = cursor
        /\ \A k \in 1 .. cursor : Contents[k] = line[taken - cursor + k]
    <3>1. \A k \in 1 .. cursor : k - 1 \in 0 .. cursor - 1
      BY <2>1
    <3>2. \A k \in 1 .. cursor : buf[k - 1] = line[taken - cursor + k]
      <4> TAKE k \in 1 .. cursor
      <4>1. buf[k - 1] = line[taken - cursor + (k - 1) + 1]
        BY <3>1 DEF Held
      <4>2. taken - cursor + (k - 1) + 1 = taken - cursor + k
        BY <2>1
      <4> QED
        BY <4>1, <4>2
    <3> QED
      BY <3>2, ContentsIsBuffer DEF IInv
  <2>7. \A k \in 1 .. Len(Contents) : Contents[k] = Answer(Consumed)[k]
    BY <2>5, <2>6
  <2> QED
    BY <2>5, <2>6, <2>7, SeqEqual DEF BufferHoldsAnswer
<1> QED
  BY <1>1, SpecIInv, SpecHeld, PTL

\* How far the call is from its end: four for each byte still on the line, and
\* less than that for what can be done with the bytes at hand.
Rank ==
  4 * (Len(line) - taken)
    + (IF status = "done" THEN 0
       ELSE IF expected_total > 0 THEN 2
       ELSE IF Have < PREFIX_SIZE THEN 1
       ELSE 3)

\* A byte less counts more than any phase.
LEMMA LeftThenPhase ==
  ASSUME NEW l \in Nat, NEW m \in Nat, NEW p \in 0 .. 3, NEW q \in 0 .. 3,
         (m = l /\ q < p) \/ m < l
  PROVE  4 * l + p \in Nat /\ 4 * m + q \in Nat /\ 4 * m + q < 4 * l + p
OBVIOUS

\* Every step brings the end of the call closer.
EveryStepCounts == [][Rank' < Rank /\ {Rank, Rank'} \subseteq Nat]_vars

\* The loop never goes round without either taking a byte from the line or
\* getting on with the frame it has: it takes no more than four steps for each
\* byte the line carries and one more, and cannot spin in place.
THEOREM CallsAreBounded == Spec => EveryStepCounts
<1> DEFINE Left == Len(line) - taken
           Phase == IF status = "done" THEN 0
                    ELSE IF expected_total > 0 THEN 2
                    ELSE IF Have < PREFIX_SIZE THEN 1
                    ELSE 3
           Sinks == Rank' < Rank /\ {Rank, Rank'} \subseteq Nat
<1>1. IInv /\ IInv' /\ Next => Sinks
  <2> SUFFICES ASSUME IInv, IInv', Next PROVE Sinks
    OBVIOUS
  <2>1. /\ Left \in Nat /\ Left' \in Nat /\ taken \in Nat /\ Len(line) \in Nat
        /\ Phase \in 0 .. 3 /\ Phase' \in 0 .. 3
        /\ Rank = 4 * Left + Phase /\ Rank' = 4 * Left' + Phase'
    BY StreamsAssumption, SMTT(30) DEF IInv, TypeOK, Rank
  <2>2. CASE Left' = Left /\ Phase' < Phase
    BY <2>1, <2>2, LeftThenPhase, SMTT(30)
  <2>3. CASE Left' < Left
    BY <2>1, <2>3, LeftThenPhase, SMTT(30)
  <2>4. ASSUME NEW r, Return(r), status = "reading"
        PROVE  Left' = Left /\ Phase' < Phase
    BY <2>4 DEF Return
  <2>5. CASE ExpectFrame
    <3>1. CASE \E r : Return(r)
      BY <2>2, <2>4, <2>5, <3>1 DEF ExpectFrame
    <3>2. CASE /\ expected_total' = FrameEnd(ExpectedSize(Slice(buf, frame_start, PREFIX_SIZE)))
               /\ ~ (ExpectedSize(Slice(buf, frame_start, PREFIX_SIZE)) < 0)
               /\ UNCHANGED <<line, taken, buf, cursor, frame_start, status, result>>
      <4>1. Phase = 3
        BY <2>5 DEF ExpectFrame, IInv, TypeOK, Have, PREFIX_SIZE
      <4>2. expected_total' > 0
        <5>1. /\ frame_start \in Nat /\ buf \in [Index -> Byte]
              /\ frame_start + PREFIX_SIZE <= BufSize
          BY <2>5, BufSizeAssumption DEF IInv, TypeOK, InBounds, ExpectFrame, Have, PREFIX_SIZE
        <5>2. /\ SizeAt(buf, frame_start) \in Nat
              /\ SizeAt(buf, frame_start) >= OVERHEAD_SIZE
          BY <5>1, AnnouncedSize
        <5>3. ExpectedSize(Slice(buf, frame_start, PREFIX_SIZE)) = SizeAt(buf, frame_start)
          BY <3>2, <5>1, ExpectedIsAnnounced DEF PARSE_ERROR
        <5> QED
          BY <3>2, <5>1, <5>2, <5>3 DEF FrameEnd, OVERHEAD_SIZE
      <4>3. Left' = Left /\ Phase' = 2
        BY <2>5, <3>2, <4>2 DEF ExpectFrame
      <4> QED
        BY <2>2, <4>1, <4>3
    <3> QED
      BY <2>5, <3>1, <3>2 DEF ExpectFrame
  <2>6. CASE CompleteFrame
    <3>1. CASE \E r : Return(r)
      BY <2>2, <2>4, <2>6, <3>1 DEF CompleteFrame
    <3>2. CASE NextFrame
      <4>1. Phase = 2
        BY <2>6 DEF CompleteFrame
      <4>2. Left' = Left /\ Phase' = 1
        BY <2>6, <3>2 DEF CompleteFrame, NextFrame, Have, PREFIX_SIZE, IInv, TypeOK
      <4> QED
        BY <2>2, <4>1, <4>2
    <3> QED
      BY <2>6, <3>1, <3>2 DEF CompleteFrame
  <2>7. CASE BufferFull \/ Timeout \/ ReadError
    BY <2>2, <2>4, <2>7 DEF BufferFull, Timeout, ReadError, Reading, NeedsBytes
  <2>8. ASSUME NEW n \in 1 .. Smaller(ChunkSize, Len(line) - taken), Read(n)
        PROVE  Sinks
    <3>1. n \in Nat \ {0} /\ taken + n <= Len(line) /\ line' = line /\ taken' = taken + n
      BY <2>1, <2>8, ReadFits DEF Read, Reading, IInv, TypeOK
    <3>2. Left' < Left
      BY <2>1, <3>1
    <3> QED
      BY <2>3, <3>2
  <2> QED
    BY <2>5, <2>6, <2>7, <2>8 DEF Next, Progress
<1>2. [][Sinks]_vars => EveryStepCounts
  BY DEF EveryStepCounts
<1>3. Spec => [][Sinks]_vars
  BY <1>1, SpecIInv, PTL DEF Spec
<1> QED
  BY <1>2, <1>3

=============================================================================
