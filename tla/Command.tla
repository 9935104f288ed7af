------------------------------ MODULE Command ------------------------------
(***************************************************************************)
(* The yrm100_command_* functions, one call after the other, the serial    *)
(* line and the module behind it, frame by frame.  A call flushes what has *)
(* arrived, writes its command, reads one answer (module Receive has the   *)
(* bytes of that) and turns it into a result.  The module answers in its   *)
(* own time: an answer may reach the host after the call it belongs to has *)
(* been given up, also between the flush and the write of a later call,    *)
(* and frames may be lost or spoilt on the way.                            *)
(***************************************************************************)
EXTENDS Frame

CONSTANTS
  Operations,   \* the operations called, a subset of AllOperations
  Arguments,    \* what they are called with, a subset of AllArguments
  MaxCalls,     \* bound on the number of calls
  MaxTags,      \* bound on the tags in the field of the antenna
  Capacity,     \* notices that fit the response buffer
  ModuleErrors, \* codes of the module's error frames
  Late          \* whether an answer may arrive once the next call has begun

TextGetters ==
  {"get_module_manufacturer", "get_module_hardware_version", "get_module_software_version"}
NumberGetters == {"get_operating_region", "get_tx_power"}
ParameterGetters == {"get_select_parameters", "get_query_parameters"}
\* Operations that do not look at an error frame.
QuietOperations ==
  ParameterGetters \cup {"set_select_parameters", "set_select_mode", "set_idle_sleep_time"}
Setters ==
  {"set_operating_region", "set_tx_power", "set_continous_wave", "set_frequency_hopping",
   "sleep", "kill", "lock", "set_select_parameters", "set_select_mode", "set_idle_sleep_time"}

AllOperations ==
  TextGetters \cup NumberGetters \cup ParameterGetters \cup Setters
    \cup {"single_poll", "read_tag_memory_area"}

\* The command byte of each operation.
CommandByte ==
  [get_module_manufacturer |-> 3, get_module_hardware_version |-> 3,
   get_module_software_version |-> 3, single_poll |-> 34,
   get_select_parameters |-> 11, set_select_parameters |-> 12, set_select_mode |-> 18,
   get_query_parameters |-> 13, set_idle_sleep_time |-> 29,
   set_operating_region |-> 7, get_operating_region |-> 8,
   set_tx_power |-> 182, get_tx_power |-> 183,
   set_continous_wave |-> 176, set_frequency_hopping |-> 173, sleep |-> 23,
   read_tag_memory_area |-> READ_TAG_MEMORY_AREA, kill |-> 101, lock |-> 130]

\* Words read by read_tag_memory_area: its answer carries 15 bytes and these.
DataLength == 2

\* The payload size of the module's answer to each operation.
PayloadSize(o) ==
  CASE o \in TextGetters -> 12
    [] o = "get_select_parameters" -> 19
    [] o \in {"get_query_parameters", "get_tx_power"} -> 2
    [] o = "read_tag_memory_area" -> 15 + 2 * DataLength
    [] OTHER -> 1

-----------------------------------------------------------------------------
(* Calls that return before a command is sent.                             *)

BUFFER_NULL == -5
BUFFER_TOO_SMALL == -6
UNKNOWN_REGION == -11
UNKNOWN_SELECT_MODE == -12
INVALID_DEVICE_HANDLE == -18
INVALID_DATA_LENGTH == -25
UNKNOWN_MEMORY_BANK == -26

\* small_buffer: the caller's string buffer is too small for the answer.
AllArguments == {"good", "no_device", "no_buffer", "small_buffer", "bad_value", "zero_length"}

\* The fault of an argument that an operation finds before it sends, or OK.
ArgumentError(o, a) ==
  CASE a = "no_device" /\ o \in {"kill", "lock"} -> UNKNOWN_ERROR
    [] a = "no_device" /\ o \notin {"kill", "lock"} -> INVALID_DEVICE_HANDLE
    [] a = "no_buffer" /\ (o \in TextGetters \cup ParameterGetters
                             \/ o \in {"set_select_parameters", "read_tag_memory_area"}) ->
         BUFFER_NULL
    [] a = "zero_length" /\ o \in TextGetters -> BUFFER_TOO_SMALL
    [] a = "zero_length" /\ o = "read_tag_memory_area" -> INVALID_DATA_LENGTH
    [] a = "bad_value" /\ o = "set_select_mode" -> UNKNOWN_SELECT_MODE
    [] a = "bad_value" /\ o = "set_operating_region" -> UNKNOWN_REGION
    [] a = "bad_value" /\ o = "read_tag_memory_area" -> UNKNOWN_MEMORY_BANK
    [] OTHER -> STATUS_OK

ASSUME OperationsAssumption == Operations \subseteq AllOperations
ASSUME ArgumentsAssumption == "good" \in Arguments /\ Arguments \subseteq AllArguments
ASSUME BoundsAssumption ==
  /\ {MaxCalls, Capacity} \subseteq Nat \ {0}
  /\ MaxTags \in Nat
  /\ ModuleErrors \subseteq 0 .. 255
  /\ Late \in BOOLEAN

-----------------------------------------------------------------------------
(* What a call makes of the frames it has read.  A frame is a record: its  *)
(* type, command byte, payload size and code, and the call it answers.     *)

IsResponseFrame(f) == f.type = "response"
IsRefusal(f) == IsResponseFrame(f) /\ f.cmd = ERROR_COMMAND
IsOk(f) == IsResponseFrame(f) /\ f.cmd # ERROR_COMMAND

\* All but a poll check the buffer as a whole: one response and nothing else.
IsSingle(got) == Len(got) = 1

\* Faulty: any answer will do.
MutFitsGetter(o, f) == TRUE

\* Number and parameter getters and the memory read look at what they got.
FitsGetter(o, f) ==
  CASE o \in NumberGetters \cup {"get_query_parameters"} ->
         f.cmd = CommandByte[o] /\ f.size = PayloadSize(o)
    [] o = "get_select_parameters" -> f.cmd = CommandByte[o] /\ f.size >= 19
    [] OTHER -> TRUE

\* An answer read_tag_memory_area takes for one, and one with enough bytes:
\* its length check (9 + 12 + data bytes of the frame) lets one byte be missing.
IsMemoryAnswer(f) == IsOk(f) /\ f.cmd = READ_TAG_MEMORY_AREA /\ f.size >= 17
HoldsTagData(f) == f.size + MIN_RESPONSE >= 9 + 12 + 2 * DataLength

\* Left out, as they only add a result that is an error: a text of more than
\* 127 bytes (yrm100_parse.c 34) and no memory for the data read (79).
OkResult(o, a, f) ==
  CASE ~ FitsGetter(o, f) -> PARSE_ERROR
    [] o \in TextGetters /\ a = "small_buffer" /\ f.size > 1 -> BUFFER_TOO_SMALL
    [] o = "read_tag_memory_area" /\ ~ HoldsTagData(f) -> PARSE_ERROR
    [] o \in NumberGetters /\ FitsGetter(o, f) -> f.code
    [] OTHER -> STATUS_OK

CommandResult(o, a, got) ==
  CASE IsSingle(got) /\ IsOk(got[1]) /\ (o = "read_tag_memory_area" => IsMemoryAnswer(got[1])) ->
         OkResult(o, a, got[1])
    [] o \in QuietOperations /\ ~ (IsSingle(got) /\ IsOk(got[1])) -> UNKNOWN_ERROR
    [] o \notin QuietOperations /\ IsSingle(got) /\ IsRefusal(got[1]) -> got[1].code
    [] OTHER -> COMMAND_FAILED

\* A poll's notices, up to the first frame that is no notice of 24 bytes.
NoticeCount(got) ==
  CHOOSE k \in 0 .. Len(got) :
    /\ \A i \in 1 .. k : got[i].type = "notice"
    /\ k < Len(got) => got[k + 1].type # "notice"

PollResult(a, got) ==
  LET k == NoticeCount(got)
  IN  CASE k < Len(got) /\ IsRefusal(got[k + 1]) -> got[k + 1].code
        [] k < Len(got) /\ ~ IsResponseFrame(got[k + 1]) -> PARSE_ERROR
        [] a = "no_buffer" /\ k > 0 /\ (k < Len(got) => IsOk(got[k + 1])) -> BUFFER_NULL
        [] OTHER -> STATUS_OK

Result(o, a, got) ==
  IF o = "single_poll" THEN PollResult(a, got) ELSE CommandResult(o, a, got)

-----------------------------------------------------------------------------
(* State.                                                                  *)

Calls == 1 .. MaxCalls

VARIABLES
  n,          \* calls made so far: the number of the current or last one
  ops,        \* what each call asked for
  arg,        \* the argument of the current or last call
  phase,      \* of the current call: "writing" its command after the flush,
              \* "reading" its answer; "idle" between two calls
  got,        \* the frames the current or last call has read
  result,     \* what the last call returned
  last_error, \* last_error_code of the context
  input,      \* frames that have arrived at the host and are not read
  pending,    \* external: calls whose command the module has yet to carry out
  wire,       \* external: frames of the module on their way
  effect,     \* external: what the module did for each call
  quiet       \* whether nothing was under way when the last call flushed

caller == <<n, ops, arg, phase, got, result, last_error, quiet>>
module == <<pending, wire, effect>>
vars == <<caller, input, module>>

op == ops[n]

FrameTypes == {"response", "notice", "odd_notice", "spoilt"}
MaxSize == 65535      \* of the 16 bit payload length
Sizes == 0 .. MaxSize
Codes == -99 .. 255   \* what a call returns, a value or an error

FrameSet == [type : FrameTypes, cmd : Byte, size : Sizes, code : Codes, id : Calls]

\* A frame that has arrived knows which call was the current one then.
ArrivedSet ==
  [type : FrameTypes, cmd : Byte, size : Sizes, code : Codes, id : Calls, at : 0 .. MaxCalls]

TypeOK ==
  /\ n \in 0 .. MaxCalls
  /\ ops \in [Calls -> Operations \cup {"none"}]
  /\ arg \in Arguments
  /\ phase \in {"idle", "writing", "reading"}
  /\ got \in Seq(ArrivedSet) /\ Len(got) <= Capacity + 1
  /\ {result, last_error} \subseteq Codes
  /\ input \in Seq(ArrivedSet)
  /\ pending \in Seq(Calls) /\ Len(pending) <= MaxCalls
  /\ wire \in Seq(FrameSet)
  /\ effect \in [Calls -> {"none", "done", "refused"}]
  /\ quiet \in BOOLEAN

Init ==
  /\ n = 0
  /\ ops = [c \in Calls |-> "none"]
  /\ arg = "good"
  /\ phase = "idle"
  /\ got = << >>
  /\ result = STATUS_OK
  /\ last_error = STATUS_OK
  /\ input = << >>
  /\ pending = << >>
  /\ wire = << >>
  /\ effect = [c \in Calls |-> "none"]
  /\ quiet = TRUE

-----------------------------------------------------------------------------
(* The caller's side.                                                      *)

\* A call returns r; set_last_error_code keeps it, except that a number
\* getter leaves OK there and returns the number.
Return(r, error) ==
  /\ phase' = "idle"
  /\ result' = r
  /\ last_error' = error

\* Call number n + 1 asks for o.
Begins(o, a) ==
  /\ phase = "idle"
  /\ n < MaxCalls
  /\ n' = n + 1
  /\ ops' = [ops EXCEPT ![n + 1] = o]
  /\ arg' = a
  /\ got' = << >>

\* A faulty argument: nothing is sent.
Reject(o, a) ==
  /\ Begins(o, a)
  /\ ArgumentError(o, a) # STATUS_OK
  /\ Return(ArgumentError(o, a), ArgumentError(o, a))
  /\ UNCHANGED <<input, module, quiet>>

\* Faulty: what has arrived stays in the port.
MutFlushed == input

\* What the port holds after yrm100_serial_flush_input.
Flushed == << >>

\* The call discards what the port has received and goes on to write.
Flush(o, a) ==
  /\ Begins(o, a)
  /\ ArgumentError(o, a) = STATUS_OK
  /\ Late \/ (pending = << >> /\ wire = << >>)
  /\ input' = Flushed
  /\ phase' = "writing"
  /\ quiet' = (pending = << >> /\ wire = << >>)
  /\ UNCHANGED <<result, last_error, module>>

\* The port has taken the whole command, however many writes that was; what
\* has arrived since the flush stays in the port.
Write ==
  /\ phase = "writing"
  /\ pending' = Append(pending, n)
  /\ phase' = "reading"
  /\ UNCHANGED <<n, ops, arg, got, result, last_error, input, wire, effect, quiet>>

\* The port fails before it has taken the whole command, which the module
\* then ignores; the caller learns of an unknown error.
WriteFails ==
  /\ phase = "writing"
  /\ Return(UNKNOWN_ERROR, UNKNOWN_ERROR)
  /\ UNCHANGED <<n, ops, arg, got, input, module, quiet>>

\* The answer read is complete: its frames decide.
Finish(frames) ==
  LET r == Result(op, arg, frames)
      isNumber == op \in NumberGetters /\ r >= 0 /\ IsOk(frames[1])
  IN  Return(r, IF isNumber THEN STATUS_OK ELSE r)

\* Faulty: one notice too many.
MutHasRoom(frames) == Len(frames) <= Capacity

\* Another notice fits the response buffer.
HasRoom(frames) == Len(frames) < Capacity

\* The next frame: a notice is kept and the call reads on, a response ends
\* the answer, a spoilt frame or one too many ends it with an error.
TakeFrame ==
  /\ phase = "reading"
  /\ input # << >>
  /\ input' = Tail(input)
  /\ LET f == Head(input)
     IN  \/ /\ f.type = "spoilt"
            /\ Return(f.code, f.code)
            /\ UNCHANGED got
         \/ /\ f.type \in {"notice", "odd_notice"} /\ ~ HasRoom(got)
            /\ Return(OVERFLOW, OVERFLOW)
            /\ UNCHANGED got
         \/ /\ f.type \in {"notice", "odd_notice"} /\ HasRoom(got)
            /\ got' = Append(got, f)
            /\ UNCHANGED <<phase, result, last_error>>
         \/ /\ f.type = "response"
            /\ got' = Append(got, f)
            /\ Finish(Append(got, f))
  /\ UNCHANGED <<n, ops, arg, module, quiet>>

\* Faulty: waits on after a notice.
MutTimeoutWaits ==
  /\ phase = "reading"
  /\ input = << >>
  /\ got = << >>
  /\ Return(READ_TIMEOUT, READ_TIMEOUT)
  /\ UNCHANGED <<n, ops, arg, got, input, module, quiet>>

\* Faulty: silence is an answer without frames.
MutTimeoutAnswers ==
  /\ phase = "reading"
  /\ input = << >>
  /\ Finish(got)
  /\ UNCHANGED <<n, ops, arg, got, input, module, quiet>>

\* Nothing arrives in time: an answer of notices alone is complete.
Timeout ==
  /\ phase = "reading"
  /\ input = << >>
  /\ IF got = << >> THEN Return(READ_TIMEOUT, READ_TIMEOUT) ELSE Finish(got)
  /\ UNCHANGED <<n, ops, arg, got, input, module, quiet>>

\* The read fails, or a signal interrupts it.
ReadFails ==
  /\ phase = "reading"
  /\ Return(READ_FAILED, READ_FAILED)
  /\ UNCHANGED <<n, ops, arg, got, input, module, quiet>>

-----------------------------------------------------------------------------
(* The module and the line: external, as the code uses them.               *)

SettingValue == 3

AnswerFrame(i, size) ==
  [type |-> "response", cmd |-> CommandByte[ops[i]], size |-> size,
   code |-> IF ops[i] \in NumberGetters THEN SettingValue ELSE 0, id |-> i]

RefusalFrame(i, code) ==
  [type |-> "response", cmd |-> ERROR_COMMAND, size |-> 1, code |-> code, id |-> i]

NoticeFrame(i, type) ==
  [type |-> type, cmd |-> CommandByte["single_poll"], size |-> 17, code |-> 0, id |-> i]

\* The tags found by a poll, with or without a response behind them.
PollAnswers(i) ==
  LET notices == UNION {[1 .. k -> {NoticeFrame(i, "notice"), NoticeFrame(i, "odd_notice")}] :
                          k \in 0 .. MaxTags}
  IN  {s \in notices : s # << >>} \cup {Append(s, AnswerFrame(i, 1)) : s \in notices}

\* Answers of the size asked for, or with a byte missing.
Answers(i) ==
  IF ops[i] = "single_poll" THEN PollAnswers(i)
  ELSE {<<AnswerFrame(i, size)>> : size \in {PayloadSize(ops[i]), PayloadSize(ops[i]) - 1}}

CarryOut ==
  /\ pending # << >>
  /\ pending' = Tail(pending)
  /\ \E a \in Answers(Head(pending)) : wire' = wire \o a
  /\ effect' = [effect EXCEPT ![Head(pending)] = "done"]
  /\ UNCHANGED <<caller, input>>

Refuse ==
  /\ pending # << >>
  /\ pending' = Tail(pending)
  /\ \E c \in ModuleErrors : wire' = Append(wire, RefusalFrame(Head(pending), c))
  /\ effect' = [effect EXCEPT ![Head(pending)] = "refused"]
  /\ UNCHANGED <<caller, input>>

\* A command the module does not understand.
Ignore ==
  /\ pending # << >>
  /\ pending' = Tail(pending)
  /\ UNCHANGED <<caller, input, wire, effect>>

Stamped(f) ==
  [type |-> f.type, cmd |-> f.cmd, size |-> f.size, code |-> f.code, id |-> f.id, at |-> n]

\* The next frame reaches the host, as it was or spoilt.
Arrive ==
  /\ wire # << >>
  /\ wire' = Tail(wire)
  /\ \/ input' = Append(input, Stamped(Head(wire)))
     \/ \E e \in {PARSE_ERROR, CHECKSUM_FAILURE} :
          input' = Append(input, [Stamped(Head(wire)) EXCEPT !.type = "spoilt", !.code = e])
  /\ UNCHANGED <<caller, pending, effect>>

Lose ==
  /\ wire # << >>
  /\ wire' = Tail(wire)
  /\ UNCHANGED <<caller, input, pending, effect>>

-----------------------------------------------------------------------------

Writes == Write \/ WriteFails

Reads == TakeFrame \/ Timeout

Next ==
  \/ \E o \in Operations, a \in Arguments : Reject(o, a) \/ Flush(o, a)
  \/ Writes
  \/ Reads
  \/ ReadFails
  \/ CarryOut \/ Refuse \/ Ignore
  \/ Arrive \/ Lose

\* A call that has begun goes on: no flow control holds its write up, and a
\* read ends after VTIME.  The module and the line owe nothing.
Spec == Init /\ [][Next]_vars /\ WF_vars(Writes) /\ WF_vars(Reads)

-----------------------------------------------------------------------------
(* Properties.                                                             *)

\* What a call has used arrived during that call, after its flush (line 44):
\* no answer that reached the port between two calls or before is used.  What
\* arrives between the flush and the write (line 45) may be.
FreshAnswers == \A i \in 1 .. Len(got) : got[i].at = n

\* A call that flushed while nothing was under way uses nothing but its own
\* answer, however many calls timed out, failed or were cut short before it:
\* a desynchronised line heals once it has been silent.
OwnAnswers == quiet => \A i \in 1 .. Len(got) : got[i].id = n

Succeeded == phase = "idle" /\ n > 0 /\ result >= 0 /\ ~ (got # << >> /\ IsRefusal(got[Len(got)]))

\* Late answers or not, a getter that reports a value took it from an answer
\* to a command of its own kind (lines 533, 664, 779, 865 and frame.c:168).
GettersKeepTheirKind ==
  Succeeded /\ op \in NumberGetters \cup ParameterGetters \cup {"read_tag_memory_area"} =>
    CommandByte[ops[got[Len(got)].id]] = CommandByte[op]

\* A call that has flushed returns within its read timeouts, whatever the module does.
CallsReturn == phase # "idle" ~> phase = "idle"

\* The last call as the caller sees it.
Verdict ==
  CASE n = 0 \/ phase # "idle" -> "none"
    [] n > 0 /\ Succeeded -> "done"
    [] n > 0 /\ phase = "idle" /\ ~ Succeeded ->
         IF result > 0 THEN "refused" ELSE "failed"

Api == INSTANCE DeviceApi
         WITH call <- n, open <- (phase # "idle"), effect <- effect, verdict <- Verdict

\* Without late answers every verdict is the module's own word on the call.
ImplementsApi == Api!Spec

\* yrm100_command.h (lines 118 and 133) promises a negative value when a
\* number getter fails.
GetterErrorsAreNegative ==
  phase = "idle" /\ n > 0 /\ op \in NumberGetters /\ ~ Succeeded => result < 0

\* yrm100_command.h promises "Value 0 on success, otherwise error code" of the
\* functions that change the module or a tag.
SuccessIsReal ==
  Succeeded /\ op \in Setters => effect[n] = "done"

=============================================================================
