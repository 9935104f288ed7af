------------------------------- MODULE Frame -------------------------------
(***************************************************************************)
(* The frames exchanged with the YRM100 module, as yrm100_frame.c sees     *)
(* them.  A frame is a sequence of bytes; the byte the code calls buf[i]   *)
(* is f[i + 1].                                                            *)
(*                                                                         *)
(*     BB | type | command | payload length (2) | payload | sum | 7E       *)
(***************************************************************************)
EXTENDS Integers, Sequences

Byte == 0 .. 255

HEADER == 187   \* 0xBB
END == 126      \* 0x7E

\* Frame types.
COMMAND == 0
RESPONSE == 1
NOTICE == 2

MIN_COMMAND == 6
MIN_RESPONSE == 7
MIN_NOTICE == 24

READ_TAG_MEMORY_AREA == 57   \* 0x39
ERROR_COMMAND == 255         \* the command byte of an error response

\* Results of yrm100_error.h.
STATUS_OK == 0
COMMAND_FAILED == -1
OVERFLOW == -7
PARSE_ERROR == -8
CHECKSUM_FAILURE == -10
READ_TIMEOUT == -14
READ_FAILED == -15
UNKNOWN_ERROR == -99

\* The 16 bit payload length carried by bytes 3 and 4.
PayloadLength(f) == 256 * f[4] + f[5]

LooksLike(f, type, min) == Len(f) >= min /\ f[1] = HEADER /\ f[2] = type

IsCommand(f) == LooksLike(f, COMMAND, MIN_COMMAND)
IsResponse(f) == LooksLike(f, RESPONSE, MIN_RESPONSE)
IsNotice(f) == LooksLike(f, NOTICE, MIN_NOTICE)

\* The running sum of the bytes behind the header.
Sums(f) ==
  LET sum[i \in 1 .. Len(f)] == IF i = 1 THEN 0 ELSE sum[i - 1] + f[i]
  IN  sum

\* The sum of the bytes between the header and the checksum, modulo 256; a
\* frame shorter than the minimum of its type has no checksum.
Checksum(f) ==
  LET tooShort(type, min) == f[1] = HEADER /\ f[2] = type /\ Len(f) < min
  IN  IF \/ Len(f) < 2
         \/ tooShort(COMMAND, MIN_COMMAND)
         \/ tooShort(RESPONSE, MIN_RESPONSE)
         \/ tooShort(NOTICE, MIN_NOTICE)
      THEN PARSE_ERROR
      ELSE IF Len(f) = 2 THEN 0 ELSE Sums(f)[Len(f) - 2] % 256

IsSealed(f) == f[Len(f)] = END /\ f[Len(f) - 1] = Checksum(f)

IsValidCommand(f) == IsCommand(f) /\ IsSealed(f)
IsValidResponse(f) == IsResponse(f) /\ IsSealed(f)
IsValidNotice(f) == IsNotice(f) /\ IsSealed(f)

IsErrorResponse(f) == IsValidResponse(f) /\ f[3] = ERROR_COMMAND
IsOkResponse(f) == IsValidResponse(f) /\ ~ IsErrorResponse(f)

\* A tag memory answer carries the PC and EPC of the tag before the data, so
\* its payload has at least 17 bytes.
IsReadTagMemoryResponse(f) ==
  /\ IsOkResponse(f)
  /\ f[3] = READ_TAG_MEMORY_AREA
  /\ PayloadLength(f) >= 17
  /\ Len(f) = PayloadLength(f) + MIN_RESPONSE

=============================================================================
