------------------------------ MODULE Receive ------------------------------
(***************************************************************************)
(* One call of yrm100_command_read_response: the loop that collects an     *)
(* answer of the module, byte chunk by byte chunk, into the context's      *)
(* command_response_buf.  The serial line hands over what has arrived in   *)
(* chunks of any size, may stay silent past the read timeout at any point, *)
(* and may fail.  Notices are collected until a response ends the answer   *)
(* or the line stays silent between two frames; leading bytes that cannot  *)
(* start a frame are dropped.                                              *)
(***************************************************************************)
EXTENDS Frame

CONSTANTS
  BufSize,  \* YRM100_COMMAND_RESPONSE_BUFFER_SIZE
  Streams,  \* what the line may carry during the call, byte for byte
  Stale     \* what the buffer may hold from earlier calls

Index == 0 .. BufSize - 1

ASSUME BufSizeAssumption == BufSize \in Nat \ {0}
ASSUME StreamsAssumption == Streams \subseteq Seq(Byte)
ASSUME StaleAssumption == Stale \subseteq [Index -> Byte]

PREFIX_SIZE == 5     \* header, type, command, payload length
OVERHEAD_SIZE == 7   \* everything but the payload

VARIABLES
  line,                 \* the bytes the module puts on the line
  taken,                \* how many of them the call has read
  buf,                  \* command_response_buf
  cursor,               \* bytes in use
  frame_start,          \* where the frame being read begins
  expected_frame_size,  \* its size once its prefix is known, else 0
  expected_total,       \* where it ends once its prefix is known, else 0
  status,               \* "reading" or "done"
  result                \* what the call returned

locals == <<cursor, frame_start, expected_frame_size, expected_total>>
vars == <<line, taken, buf, locals, status, result>>

TypeOK ==
  /\ line \in Streams
  /\ taken \in 0 .. Len(line)
  /\ buf \in [Index -> Byte]
  /\ cursor \in 0 .. BufSize
  /\ frame_start \in 0 .. BufSize
  /\ expected_frame_size \in Nat
  /\ expected_total \in 0 .. BufSize
  /\ status \in {"reading", "done"}
  /\ result \in Int

Init ==
  /\ line \in Streams
  /\ taken = 0
  /\ buf \in Stale
  /\ cursor = 0
  /\ frame_start = 0
  /\ expected_frame_size = 0
  /\ expected_total = 0
  /\ status = "reading"
  /\ result = STATUS_OK

-----------------------------------------------------------------------------
(* Helpers.                                                                *)

Smaller(a, b) == IF a <= b THEN a ELSE b

\* n bytes of an array from index i on, as a sequence.
Slice(b, i, n) == [k \in 1 .. n |-> b[i + k - 1]]

Have == cursor - frame_start

IsSupportedType(type) == type \in {RESPONSE, NOTICE}

\* The size a frame announces in its first five bytes.
ExpectedSize(prefix) ==
  IF prefix[1] = HEADER /\ IsSupportedType(prefix[2])
  THEN PayloadLength(prefix) + OVERHEAD_SIZE
  ELSE PARSE_ERROR

ValidateCompleteFrame(f) ==
  IF f[Len(f)] # END THEN PARSE_ERROR
  ELSE IF Checksum(f) < 0 THEN CHECKSUM_FAILURE
  ELSE IF f[Len(f) - 1] # Checksum(f) THEN PARSE_ERROR
  ELSE STATUS_OK

\* How many bytes the frame still lacks: up to its end when that is known,
\* up to its prefix otherwise.
ReadSize == IF expected_total > 0 THEN expected_total - cursor
            ELSE PREFIX_SIZE - Have

\* The bytes asked from the serial port.  The code's ReadSize is unsigned: a
\* negative one would be huge and be cut down to the room that is left.
ChunkSize == IF ReadSize < 0 THEN BufSize - cursor
             ELSE Smaller(ReadSize, BufSize - cursor)

\* The length returned for what has been collected, unless it ends in the
\* middle of something.
Collected == IF cursor > 0 /\ buf[cursor - 1] # END THEN PARSE_ERROR ELSE cursor

Return(r) ==
  /\ status' = "done"
  /\ result' = r
  /\ UNCHANGED <<line, taken, buf, locals>>

-----------------------------------------------------------------------------
(* The steps of the loop.                                                  *)

\* Faulty: one byte too many.
MutFitsBuffer(total) == total <= BufSize + 1

FitsBuffer(total) == total <= BufSize

\* Faulty: counts from the front of the buffer.
MutFrameEnd(size) == size

\* Where a frame of this size ends.
FrameEnd(size) == frame_start + size

\* The prefix is complete: learn where the frame ends.
ExpectFrame ==
  /\ status = "reading"
  /\ expected_total = 0
  /\ Have >= PREFIX_SIZE
  /\ LET size == ExpectedSize(Slice(buf, frame_start, PREFIX_SIZE))
     IN  IF size < 0
         THEN Return(size)
         ELSE \/ /\ ~ FitsBuffer(FrameEnd(size))
                 /\ Return(OVERFLOW)
              \/ /\ FitsBuffer(FrameEnd(size))
                 /\ expected_frame_size' = size
                 /\ expected_total' = FrameEnd(size)
                 /\ UNCHANGED <<line, taken, buf, cursor, frame_start, status, result>>

\* After a notice the loop goes on with a new frame.
NextFrame ==
  /\ frame_start' = cursor
  /\ expected_frame_size' = 0
  /\ expected_total' = 0
  /\ UNCHANGED <<line, taken, buf, cursor, status, result>>

\* The frame is complete: a bad one ends the call, and so does a response.
CompleteFrame ==
  /\ status = "reading"
  /\ expected_total > 0
  /\ ReadSize = 0
  /\ LET check == ValidateCompleteFrame(Slice(buf, frame_start, expected_frame_size))
     IN  \/ /\ check # STATUS_OK
            /\ Return(check)
         \/ /\ check = STATUS_OK
            /\ buf[frame_start + 1] = RESPONSE
            /\ Return(Collected)
         \/ /\ check = STATUS_OK
            /\ buf[frame_start + 1] # RESPONSE
            /\ NextFrame

\* The frame lacks bytes.
NeedsBytes ==
  /\ status = "reading"
  /\ expected_total > 0 \/ Have < PREFIX_SIZE
  /\ ReadSize # 0

\* It lacks bytes, and there is room to read some.
Reading == NeedsBytes /\ cursor < BufSize

BufferFull == NeedsBytes /\ cursor >= BufSize /\ Return(OVERFLOW)

\* The buffer after n more bytes of the line.
Appended(n) ==
  [i \in Index |-> IF i \in cursor .. cursor + n - 1
                   THEN line[taken + i - cursor + 1] ELSE buf[i]]

\* fs is the first index from frame_start on that holds a header byte, or c.
IsResyncPoint(b, c, fs) ==
  /\ \A i \in frame_start .. fs - 1 : b[i] # HEADER
  /\ fs < c => b[fs] = HEADER

\* memmove to the front of the buffer: what lies behind stays as it was.
MovedToFront(b, c, fs) == [i \in Index |-> IF i < c - fs THEN b[i + fs] ELSE b[i]]

\* Faulty: everything before the resync point leaves the buffer.
MutResyncDrops(b, c, fs) ==
  /\ buf' = MovedToFront(b, c, fs)
  /\ cursor' = c - fs
  /\ frame_start' = 0
  /\ UNCHANGED <<expected_frame_size, expected_total>>

\* Faulty: nothing ever leaves the buffer.
MutResync(b, c, fs) ==
  /\ buf' = b
  /\ cursor' = c
  /\ frame_start' = fs
  /\ UNCHANGED <<expected_frame_size, expected_total>>

\* Bytes skipped at the front of the buffer leave it; bytes skipped after a
\* frame stay.  c is the cursor behind the new bytes, fs the resync point.
Resync(b, c, fs) ==
  \/ /\ fs = 0
     /\ buf' = b
     /\ cursor' = c
     /\ frame_start' = 0
     /\ UNCHANGED <<expected_frame_size, expected_total>>
  \/ /\ fs > 0 /\ b[0] = HEADER
     /\ buf' = b
     /\ cursor' = c
     /\ frame_start' = fs
     /\ expected_frame_size' = 0
     /\ expected_total' = 0
  \/ /\ fs > 0 /\ b[0] # HEADER /\ fs = c
     /\ buf' = b
     /\ cursor' = 0
     /\ frame_start' = 0
     /\ expected_frame_size' = 0
     /\ expected_total' = 0
  \/ /\ fs > 0 /\ b[0] # HEADER /\ fs < c
     /\ buf' = MovedToFront(b, c, fs)
     /\ cursor' = c - fs
     /\ frame_start' = 0
     /\ UNCHANGED <<expected_frame_size, expected_total>>

\* A frame of a type the library does not know ends the call.
CheckType ==
  IF cursor' - frame_start' >= 2 /\ ~ IsSupportedType(buf'[frame_start' + 1])
  THEN status' = "done" /\ result' = PARSE_ERROR
  ELSE UNCHANGED <<status, result>>

\* The port hands over n bytes.
Read(n) ==
  /\ Reading
  /\ taken' = taken + n
  /\ \E fs \in frame_start .. cursor + n :
       /\ IsResyncPoint(Appended(n), cursor + n, fs)
       /\ Resync(Appended(n), cursor + n, fs)
  /\ CheckType
  /\ UNCHANGED line

\* Faulty: a frame cut short is not told from a complete one.
MutTimeoutResult == IF cursor = 0 THEN READ_TIMEOUT ELSE Collected

\* What a silent line means depends on where it falls silent.
TimeoutResult ==
  IF cursor = 0 THEN READ_TIMEOUT
  ELSE IF frame_start = cursor THEN Collected
  ELSE IF Have < PREFIX_SIZE \/ (expected_total > 0 /\ cursor < expected_total)
       THEN PARSE_ERROR
       ELSE Collected

\* Faulty: goes on waiting while nothing has arrived.
MutTimeout == Reading /\ cursor > 0 /\ Return(TimeoutResult)

Timeout == Reading /\ Return(TimeoutResult)

ReadError == Reading /\ Return(READ_FAILED)

\* The steps the loop and a working port take; a failing port is another one.
Progress ==
  \/ ExpectFrame
  \/ CompleteFrame
  \/ BufferFull
  \/ \E n \in 1 .. Smaller(ChunkSize, Len(line) - taken) : Read(n)
  \/ Timeout

Next == Progress \/ ReadError

\* The loop runs, and a read of the port returns: with bytes, or with none
\* when VTIME has passed.  Nothing is said of a port that fails.
Spec == Init /\ [][Next]_vars /\ WF_vars(Progress)

-----------------------------------------------------------------------------
(* What the call must do, in terms of the bytes it has read.               *)

Consumed == SubSeq(line, 1, taken)

Contents == Slice(buf, 0, cursor)

\* The first header byte of s at or after k, or the end of s.
HeaderFrom(s, k) ==
  CHOOSE h \in k .. Len(s) + 1 :
    /\ h <= Len(s) => s[h] = HEADER
    /\ \A i \in k .. h - 1 : s[i] # HEADER

\* The answer starts at the first header byte.
Answer(s) == SubSeq(s, HeaderFrom(s, 1), Len(s))

\* A notice too short to have a checksum, but ended.
IsShortNotice(f) == f[2] = NOTICE /\ Len(f) < MIN_NOTICE /\ f[Len(f)] = END

\* What it means that the line falls silent between two frames.
SilenceAfter(a) ==
  IF a = << >> THEN READ_TIMEOUT
  ELSE IF Len(a) = BufSize THEN OVERFLOW
  ELSE IF a[Len(a)] = END THEN Len(a) ELSE PARSE_ERROR

\* What the bytes of a from h on mean, where h is a header or behind the end;
\* from says what those further on mean.
MeaningAt(a, h, from) ==
  LET have == Len(a) - h + 1
      size == 256 * a[h + 3] + a[h + 4] + OVERHEAD_SIZE
      f == SubSeq(a, h, h + size - 1)
  IN  IF have = 0 THEN SilenceAfter(a)
      ELSE IF have > 1 /\ a[h + 1] \notin {RESPONSE, NOTICE} THEN PARSE_ERROR
      ELSE IF have < PREFIX_SIZE THEN IF Len(a) = BufSize THEN OVERFLOW ELSE PARSE_ERROR
      ELSE IF h - 1 + size > BufSize THEN OVERFLOW
      ELSE IF have < size THEN PARSE_ERROR
      ELSE IF IsValidResponse(f) THEN h - 1 + size
      ELSE IF IsValidNotice(f) THEN from[h + size]
      ELSE IF IsShortNotice(f) THEN CHECKSUM_FAILURE ELSE PARSE_ERROR

\* What the bytes of a from each index on mean.
MeaningFrom(a) ==
  LET from[k \in 1 .. Len(a) + 1] == MeaningAt(a, HeaderFrom(a, k), from)
  IN  from

\* What an answer means, when the line carries its bytes a and then falls
\* silent: frame by frame, a length or an error code.
Meaning(a) == MeaningFrom(a)[1]

\* Where the answer is held: no index leaves the buffer, and the unsigned
\* difference expected_total - cursor never wraps around (lines 144 and 162),
\* so no read of the port can write behind the frame or the buffer.
InBounds ==
  /\ frame_start <= cursor
  /\ cursor <= BufSize
  /\ expected_total > 0 => cursor <= expected_total

\* Whatever the chunks, the skipped bytes and the moves within the buffer,
\* it holds every byte read from the first header byte on, in order: none is
\* lost, doubled, or left over from an earlier call (lines 213-243).
BufferHoldsAnswer == Contents = Answer(Consumed)

\* What the call returns is what the bytes it has read mean; how they were
\* cut into chunks and what the buffer held before make no difference.
ResultIsMeaning ==
  status = "done" /\ result # READ_FAILED => result = Meaning(Answer(Consumed))

\* Once a frame is accepted, nothing that happens to later ones moves or
\* changes it (line 222 keeps the move of lines 232-237 away from it).
AcceptedFramesStay ==
  [][frame_start > 0 =>
       /\ frame_start' >= frame_start
       /\ \A i \in 0 .. frame_start - 1 : buf'[i] = buf[i]]_vars

\* The call returns, whatever arrives and whenever the line falls silent.
Returns == <>(status = "done")

=============================================================================
