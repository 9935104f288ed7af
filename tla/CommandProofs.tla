--------------------------- MODULE CommandProofs ---------------------------
(***************************************************************************)
(* Proofs about the command layer, for any number of calls, tags in the    *)
(* field and slots in the buffer, whether answers come late or not.        *)
(***************************************************************************)
EXTENDS Command, LeastElement, TLAPS, SequenceTheorems

\* What is in a sequence, in whatever order.
Elements(s) == {s[i] : i \in 1 .. Len(s)}

\* What is true of a frame: the call it answers was made, and what it says of
\* the call is what the module did.
IsHonest(f) ==
  /\ f.id \in 1 .. n
  /\ ops[f.id] \in Operations
  /\ f.type \in {"notice", "odd_notice"} => effect[f.id] = "done"
  /\ IsRefusal(f) => effect[f.id] = "refused"
  /\ IsOk(f) => effect[f.id] = "done" /\ f.cmd = CommandByte[ops[f.id]]
  /\ f.type = "spoilt" => f.code < 0

\* Frames that are read have a type an answer may have.
FramesAreHonest ==
  /\ \A f \in Elements(wire) \cup Elements(input) \cup Elements(got) : IsHonest(f)
  /\ \A f \in Elements(wire) \cup Elements(got) : f.type # "spoilt"

\* The call that is under way was made; it reads nothing before it has written,
\* and then its buffer has room for a response.
CallIsKnown ==
  /\ phase # "idle" => n > 0 /\ op \in Operations
  /\ phase = "writing" => got = << >>
  /\ phase = "reading" => Len(got) <= Capacity

\* The last call whose command the port may have taken.
Sent == IF phase = "writing" THEN n - 1 ELSE n

\* The module carries out each command once.
PendingAreOpen ==
  /\ Len(pending) <= Sent
  /\ \A i \in 1 .. Len(pending) :
       /\ pending[i] <= Sent
       /\ ops[pending[i]] \in Operations
       /\ effect[pending[i]] = "none"
       /\ \A j \in 1 .. Len(pending) : i # j => pending[i] # pending[j]
  /\ \A c \in Calls : c > Sent => effect[c] = "none"

\* What waits to be read during a call has arrived since its flush.
InputIsFresh == phase # "idle" => \A f \in Elements(input) : f.at = n

\* A line that was silent when the call flushed carries this call alone.
LineIsOwn ==
  phase # "idle" /\ quiet =>
    /\ \A c \in Elements(pending) : c = n
    /\ \A f \in Elements(wire) \cup Elements(input) : f.id = n

\* Where no answer comes late, every call flushes a silent line.
LineIsQuiet == phase # "idle" /\ ~ Late => quiet

\* What a call that has returned makes known.
ResultIsKnown ==
  phase = "idle" /\ n > 0 /\ result >= 0 => got # << >>

\* The properties are not inductive: each needs to know what is on the line,
\* and which call put it there.
IInv ==
  /\ TypeOK
  /\ CallIsKnown
  /\ PendingAreOpen
  /\ FramesAreHonest
  /\ InputIsFresh
  /\ FreshAnswers
  /\ LineIsOwn
  /\ OwnAnswers
  /\ LineIsQuiet
  /\ ResultIsKnown
  /\ GettersKeepTheirKind

-----------------------------------------------------------------------------
(* Sequences, and the least of some numbers.                               *)

\* Nothing is in the empty sequence.
LEMMA EmptyElements == Elements(<< >>) = {}
  BY EmptySeq DEF Elements

\* The elements of a sequence over S are members of S.
LEMMA SeqElements ==
  ASSUME NEW S, NEW s \in Seq(S)
  PROVE  Elements(s) \subseteq S
  BY ElementOfSeq DEF Elements

\* Append adds one element.
LEMMA AppendElements ==
  ASSUME NEW S, NEW s \in Seq(S), NEW e \in S
  PROVE  /\ Append(s, e) \in Seq(S)
         /\ Len(Append(s, e)) = Len(s) + 1
         /\ Append(s, e)[Len(s) + 1] = e
         /\ Append(s, e) # << >>
         /\ Elements(Append(s, e)) = Elements(s) \cup {e}
<1>1. /\ Append(s, e) \in Seq(S)
      /\ Len(Append(s, e)) = Len(s) + 1
      /\ Append(s, e)[Len(s) + 1] = e
      /\ \A i \in 1 .. Len(s) : Append(s, e)[i] = s[i]
  BY AppendProperties
<1>2. Append(s, e) # << >>
  BY <1>1, EmptySeq, LenProperties
<1>3. Elements(Append(s, e)) = Elements(s) \cup {e}
  <2>1. Len(s) \in Nat
    BY LenProperties
  <2>2. 1 .. Len(s) + 1 = (1 .. Len(s)) \cup {Len(s) + 1}
    BY <2>1
  <2> QED
    BY <1>1, <2>1, <2>2 DEF Elements
<1> QED
  BY <1>1, <1>2, <1>3

\* Tail takes one away, the head.
LEMMA TailElements ==
  ASSUME NEW S, NEW s \in Seq(S), s # << >>
  PROVE  /\ Tail(s) \in Seq(S)
         /\ Len(Tail(s)) = Len(s) - 1
         /\ Head(s) \in Elements(s)
         /\ Head(s) \in S
         /\ Head(s) = s[1]
         /\ Len(s) \in Nat \ {0}
         /\ \A i \in 1 .. Len(s) - 1 : Tail(s)[i] = s[i + 1]
         /\ Elements(Tail(s)) \subseteq Elements(s)
<1>1. /\ Head(s) \in S
      /\ Head(s) = s[1]
      /\ Tail(s) \in Seq(S)
      /\ Len(Tail(s)) = Len(s) - 1
      /\ \A i \in 1 .. Len(Tail(s)) : Tail(s)[i] = s[i + 1]
  BY HeadTailProperties
<1>2. Len(s) \in Nat \ {0}
  BY LenProperties, EmptySeq
<1>3. Head(s) \in Elements(s)
  BY <1>1, <1>2 DEF Elements
<1>4. Elements(Tail(s)) \subseteq Elements(s)
  BY <1>1, <1>2 DEF Elements
<1> QED
  BY <1>1, <1>2, <1>3, <1>4

\* Concatenation brings in no other element.
LEMMA ConcatElements ==
  ASSUME NEW S, NEW s \in Seq(S), NEW t \in Seq(S)
  PROVE  /\ s \o t \in Seq(S)
         /\ Elements(s \o t) \subseteq Elements(s) \cup Elements(t)
<1>1. /\ s \o t \in Seq(S)
      /\ Len(s \o t) = Len(s) + Len(t)
      /\ \A i \in 1 .. Len(s) + Len(t) :
           (s \o t)[i] = IF i <= Len(s) THEN s[i] ELSE t[i - Len(s)]
  BY ConcatProperties
<1>2. Len(s) \in Nat /\ Len(t) \in Nat
  BY LenProperties
<1> QED
  BY <1>1, <1>2 DEF Elements

\* NoticeCount is never an arbitrary choice: the loop over the notices of a
\* buffer stops somewhere (yrm100_parse.c, yrm100_parse_poll_response).
LEMMA NoticeCountIsFound ==
  ASSUME NEW frames \in Seq(ArrivedSet)
  PROVE  LET k == NoticeCount(frames)
         IN  /\ k \in 0 .. Len(frames)
             /\ \A i \in 1 .. k : frames[i].type = "notice"
             /\ k < Len(frames) => frames[k + 1].type # "notice"
<1> DEFINE T == {k \in 0 .. Len(frames) : k < Len(frames) => frames[k + 1].type # "notice"}
<1>1. T \subseteq Nat /\ T # {}
  <2>1. Len(frames) \in T
    OBVIOUS
  <2> QED
    BY <2>1
<1>2. PICK k \in T : \A j \in T : k <= j
  <2> HIDE DEF T
  <2> QED BY <1>1, LeastNatural
<1>3. ASSUME NEW i \in 1 .. k PROVE frames[i].type = "notice"
  <2>1. i - 1 \in 0 .. Len(frames) /\ i - 1 < k /\ i - 1 < Len(frames)
    OBVIOUS
  <2>2. i - 1 \notin T
    BY <1>2, <2>1
  <2> QED
    BY <2>1, <2>2
<1> QED
  BY <1>2, <1>3 DEF NoticeCount

-----------------------------------------------------------------------------
(* The operators of the command layer.                                     *)

\* Every judgement of an answer is a code a call may return.
LEMMA ResultIsCode ==
  ASSUME NEW o, NEW a, NEW frames \in Seq(ArrivedSet)
  PROVE  Result(o, a, frames) \in Codes
<1> USE DEF STATUS_OK, COMMAND_FAILED, PARSE_ERROR, UNKNOWN_ERROR, BUFFER_NULL, BUFFER_TOO_SMALL
<1>0. {STATUS_OK, COMMAND_FAILED, PARSE_ERROR, UNKNOWN_ERROR, BUFFER_NULL, BUFFER_TOO_SMALL} \subseteq Codes
  BY DEF Codes
<1>1. ASSUME NEW i \in 1 .. Len(frames) PROVE frames[i].code \in Codes
  <2>1. frames[i] \in ArrivedSet
    BY ElementOfSeq
  <2> QED
    BY <2>1 DEF ArrivedSet
<1>2. PollResult(a, frames) \in Codes
  <2> DEFINE k == NoticeCount(frames)
  <2>1. k \in 0 .. Len(frames) /\ Len(frames) \in Nat
    BY NoticeCountIsFound, LenProperties
  <2>2. ASSUME k < Len(frames) PROVE frames[k + 1].code \in Codes
    <3>1. k + 1 \in 1 .. Len(frames)
      BY <2>1, <2>2
    <3> QED
      BY <1>1, <3>1
  <2>3. PollResult(a, frames) =
          CASE k < Len(frames) /\ IsRefusal(frames[k + 1]) -> frames[k + 1].code
            [] k < Len(frames) /\ ~ IsResponseFrame(frames[k + 1]) -> PARSE_ERROR
            [] a = "no_buffer" /\ k > 0 /\ (k < Len(frames) => IsOk(frames[k + 1])) -> BUFFER_NULL
            [] OTHER -> STATUS_OK
    BY DEF PollResult
  <2> HIDE DEF k
  <2>4. CASE k < Len(frames)
    <3>1. IsRefusal(frames[k + 1]) => IsResponseFrame(frames[k + 1])
      BY DEF IsRefusal
    <3>2. IsOk(frames[k + 1]) => IsResponseFrame(frames[k + 1]) /\ ~ IsRefusal(frames[k + 1])
      BY DEF IsRefusal, IsOk
    <3> QED
      BY <1>0, <2>2, <2>3, <2>4, <3>1, <3>2
  <2>5. CASE ~ (k < Len(frames))
    BY <1>0, <2>3, <2>5
  <2> QED
    BY <2>4, <2>5
<1>3. CommandResult(o, a, frames) \in Codes
  <2>1. CASE IsSingle(frames)
    <3>1. frames[1].code \in Codes
      BY <1>1, <2>1 DEF IsSingle
    <3>2. OkResult(o, a, frames[1]) \in Codes
      BY <1>0, <3>1 DEF OkResult
    <3>3. IsRefusal(frames[1]) => ~ IsOk(frames[1])
      BY DEF IsRefusal, IsOk
    <3> QED
      BY <1>0, <2>1, <3>1, <3>2, <3>3 DEF CommandResult
  <2>2. CASE ~ IsSingle(frames)
    BY <1>0, <2>2 DEF CommandResult
  <2> QED
    BY <2>1, <2>2
<1> QED
  BY <1>2, <1>3 DEF Result

\* FitsGetter and IsMemoryAnswer: a value is not taken from an answer to a
\* command of another kind.
LEMMA ValueIsOfItsKind ==
  ASSUME NEW o \in NumberGetters \cup ParameterGetters \cup {"read_tag_memory_area"}, NEW a,
         NEW frames \in Seq(ArrivedSet),
         frames # << >>,
         Result(o, a, frames) >= 0,
         ~ IsRefusal(frames[Len(frames)])
  PROVE  IsOk(frames[Len(frames)]) /\ frames[Len(frames)].cmd = CommandByte[o]
<1>1. Result(o, a, frames) = CommandResult(o, a, frames)
  BY DEF Result, NumberGetters, ParameterGetters
<1>2. IsSingle(frames)
  BY <1>1 DEF CommandResult, COMMAND_FAILED, UNKNOWN_ERROR
<1>3. frames[1] = frames[Len(frames)]
  BY <1>2 DEF IsSingle
<1>4. IsOk(frames[1]) /\ (o = "read_tag_memory_area" => IsMemoryAnswer(frames[1]))
  BY <1>1, <1>2, <1>3 DEF CommandResult, COMMAND_FAILED, UNKNOWN_ERROR
<1>5. OkResult(o, a, frames[1]) >= 0
  <2>1. ~ IsRefusal(frames[1])
    BY <1>4 DEF IsOk, IsRefusal
  <2> QED
    BY <1>1, <1>2, <1>4, <2>1 DEF CommandResult
<1>6. o # "read_tag_memory_area" => FitsGetter(o, frames[1])
  <2>1. o \notin TextGetters
    BY DEF TextGetters, NumberGetters, ParameterGetters
  <2> QED
    BY <1>5, <2>1 DEF OkResult, PARSE_ERROR
<1>7. CASE o = "read_tag_memory_area"
  BY <1>3, <1>4, <1>7 DEF IsMemoryAnswer, CommandByte
<1>8. CASE o = "get_select_parameters"
  BY <1>3, <1>4, <1>6, <1>8 DEF FitsGetter, NumberGetters
<1>9. CASE o \in NumberGetters \cup {"get_query_parameters"}
  BY <1>3, <1>4, <1>6, <1>9 DEF FitsGetter, NumberGetters
<1> QED
  BY <1>7, <1>8, <1>9 DEF ParameterGetters

\* The error of an argument is negative, as the codes of yrm100_error.h are.
LEMMA ArgumentErrorIsNegative ==
  ASSUME NEW o, NEW a
  PROVE  ArgumentError(o, a) \in -99 .. 0
  BY DEF ArgumentError, BUFFER_NULL, BUFFER_TOO_SMALL, UNKNOWN_REGION, UNKNOWN_SELECT_MODE,
         INVALID_DEVICE_HANDLE, INVALID_DATA_LENGTH, UNKNOWN_MEMORY_BANK, UNKNOWN_ERROR, STATUS_OK

\* No operation has the command byte of an error frame.
LEMMA CommandByteIsByte ==
  ASSUME NEW o \in AllOperations
  PROVE  CommandByte[o] \in Byte \ {ERROR_COMMAND}
  BY DEF CommandByte, AllOperations, TextGetters, NumberGetters, ParameterGetters, Setters,
         Byte, READ_TAG_MEMORY_AREA, ERROR_COMMAND

\* The module's answer is a frame, and no refusal.
LEMMA AnswerFrameIsFrame ==
  ASSUME NEW i \in Calls, ops[i] \in AllOperations, NEW size \in Sizes
  PROVE  /\ AnswerFrame(i, size) \in FrameSet
         /\ AnswerFrame(i, size).id = i
         /\ AnswerFrame(i, size).type = "response"
         /\ AnswerFrame(i, size).cmd = CommandByte[ops[i]]
         /\ AnswerFrame(i, size).cmd # ERROR_COMMAND
<1>1. CommandByte[ops[i]] \in Byte \ {ERROR_COMMAND}
  BY CommandByteIsByte
<1>2. {SettingValue, 0} \subseteq Codes
  BY DEF SettingValue, Codes
<1> QED
  BY <1>1, <1>2 DEF AnswerFrame, FrameSet, FrameTypes

\* A notice is a frame.
LEMMA NoticeFrameIsFrame ==
  ASSUME NEW i \in Calls, NEW type \in {"notice", "odd_notice"}
  PROVE  /\ NoticeFrame(i, type) \in FrameSet
         /\ NoticeFrame(i, type).id = i
         /\ NoticeFrame(i, type).type = type
<1>1. CommandByte["single_poll"] \in Byte /\ 17 \in Sizes /\ 0 \in Codes
  BY DEF CommandByte, Byte, Sizes, MaxSize, Codes
<1> QED
  BY <1>1 DEF NoticeFrame, FrameSet, FrameTypes

\* What the module answers belongs to the command it carried out.
AnswersOf(i) ==
  {f \in FrameSet :
     /\ f.id = i
     /\ \/ f.type \in {"notice", "odd_notice"}
        \/ f.type = "response" /\ f.cmd = CommandByte[ops[i]] /\ f.cmd # ERROR_COMMAND}

\* All the module sends for a command is of that command.
LEMMA AnswersAreFrames ==
  ASSUME BoundsAssumption, NEW i \in Calls, ops[i] \in AllOperations, NEW a \in Answers(i)
  PROVE  a \in Seq(AnswersOf(i))
<1>1. ASSUME NEW size \in Sizes PROVE AnswerFrame(i, size) \in AnswersOf(i)
  BY AnswerFrameIsFrame DEF AnswersOf
<1>2. ASSUME NEW t \in {"notice", "odd_notice"} PROVE NoticeFrame(i, t) \in AnswersOf(i)
  BY NoticeFrameIsFrame DEF AnswersOf
<1>3. CASE ops[i] = "single_poll"
  <2> DEFINE Notices == {NoticeFrame(i, "notice"), NoticeFrame(i, "odd_notice")}
             Heard == UNION {[1 .. k -> Notices] : k \in 0 .. MaxTags}
  <2>1. ASSUME NEW s \in Heard PROVE s \in Seq(AnswersOf(i))
    <3>1. Notices \subseteq AnswersOf(i)
      BY <1>2
    <3> HIDE DEF Notices
    <3>2. PICK k \in 0 .. MaxTags : s \in [1 .. k -> Notices]
      OBVIOUS
    <3>3. k \in Nat
      BY <3>2 DEF BoundsAssumption
    <3>4. s \in Seq(Notices)
      BY <3>2, <3>3, SeqDef
    <3> QED
      BY <3>1, <3>4, SeqMonotonic
  <2>2. a \in Heard \/ \E s \in Heard : a = Append(s, AnswerFrame(i, 1))
    BY <1>3 DEF Answers, PollAnswers
  <2> HIDE DEF Heard
  <2> QED
    <3>1. 1 \in Sizes
      BY DEF Sizes, MaxSize
    <3> QED
      BY <1>1, <2>1, <2>2, <3>1, AppendProperties
<1>4. CASE ops[i] # "single_poll"
  <2>1. PayloadSize(ops[i]) \in Nat \ {0} /\ PayloadSize(ops[i]) <= MaxSize /\ MaxSize \in Nat
    BY DEF PayloadSize, DataLength, MaxSize
  <2>2. PICK size \in {PayloadSize(ops[i]), PayloadSize(ops[i]) - 1} : a = <<AnswerFrame(i, size)>>
    BY <1>4 DEF Answers
  <2>3. size \in Sizes
    BY <2>1 DEF Sizes
  <2>4. AnswerFrame(i, size) \in AnswersOf(i)
    BY <1>1, <2>3
  <2> QED
    BY <2>2, <2>4
<1> QED
  BY <1>3, <1>4

\* A refusal is a frame, and is taken for one.
LEMMA RefusalFrameIsFrame ==
  ASSUME BoundsAssumption, NEW i \in Calls, NEW c \in ModuleErrors
  PROVE  /\ RefusalFrame(i, c) \in FrameSet
         /\ RefusalFrame(i, c).id = i
         /\ IsRefusal(RefusalFrame(i, c))
         /\ RefusalFrame(i, c).type = "response"
         /\ RefusalFrame(i, c).code = c
<1>1. ERROR_COMMAND \in Byte /\ 1 \in Sizes /\ c \in Codes
  BY DEF BoundsAssumption, Byte, Sizes, MaxSize, Codes, ERROR_COMMAND
<1> QED
  BY <1>1 DEF RefusalFrame, FrameSet, FrameTypes, IsRefusal, IsResponseFrame

-----------------------------------------------------------------------------
(* What the steps do to the frames.                                        *)

\* A frame that arrives stays a frame, spoilt or not.
LEMMA StampedIsArrived ==
  ASSUME TypeOK, NEW f \in FrameSet, NEW e \in Codes
  PROVE  /\ Stamped(f) \in ArrivedSet
         /\ [Stamped(f) EXCEPT !.type = "spoilt", !.code = e] \in ArrivedSet
<1> DEFINE Times == 0 .. MaxCalls
<1>1. f.type \in FrameTypes /\ f.cmd \in Byte /\ f.size \in Sizes /\ f.code \in Codes /\ f.id \in Calls
  BY DEF FrameSet
<1>2. n \in Times
  BY DEF TypeOK
<1>3. ArrivedSet =
        [type : FrameTypes, cmd : Byte, size : Sizes, code : Codes, id : Calls, at : Times]
  BY DEF ArrivedSet
<1> HIDE DEF Times
<1>4. Stamped(f) \in ArrivedSet
  BY <1>1, <1>2, <1>3 DEF Stamped
<1>5. [Stamped(f) EXCEPT !.type = "spoilt", !.code = e] \in ArrivedSet
  BY <1>1, <1>2, <1>3 DEF Stamped, FrameTypes
<1> QED
  BY <1>4, <1>5

\* Arrive: one frame more to read, which says what the frame on the wire said
\* or nothing.
LEMMA ArriveFrames ==
  ASSUME TypeOK, Arrive
  PROVE  /\ wire' \in Seq(FrameSet) /\ input' \in Seq(ArrivedSet)
         /\ Elements(wire') \subseteq Elements(wire)
         /\ \E f \in Elements(wire), g \in ArrivedSet :
              /\ Elements(input') = Elements(input) \cup {g}
              /\ g.id = f.id /\ g.at = n
              /\ \/ g.type = f.type /\ g.cmd = f.cmd /\ g.code = f.code
                 \/ g.type = "spoilt" /\ g.code < 0
<1>1. wire # << >> /\ wire' = Tail(wire) /\ wire \in Seq(FrameSet) /\ input \in Seq(ArrivedSet)
  BY DEF Arrive, TypeOK
<1>2. /\ Tail(wire) \in Seq(FrameSet)
      /\ Head(wire) \in Elements(wire)
      /\ Head(wire) \in FrameSet
      /\ Elements(Tail(wire)) \subseteq Elements(wire)
  BY <1>1, TailElements
<1> DEFINE f == Head(wire)
<1>3. CASE input' = Append(input, Stamped(f))
  <2>1. Stamped(f) \in ArrivedSet
    <3>1. 0 \in Codes
      BY DEF Codes
    <3> QED
      BY <1>2, <3>1, StampedIsArrived
  <2>2. input' \in Seq(ArrivedSet) /\ Elements(input') = Elements(input) \cup {Stamped(f)}
    BY <1>1, <1>3, <2>1, AppendElements
  <2>3. /\ Stamped(f).id = f.id /\ Stamped(f).at = n
        /\ Stamped(f).type = f.type /\ Stamped(f).cmd = f.cmd /\ Stamped(f).code = f.code
    BY DEF Stamped
  <2> QED
    BY <1>1, <1>2, <2>1, <2>2, <2>3
<1>4. ASSUME NEW e \in {PARSE_ERROR, CHECKSUM_FAILURE},
             input' = Append(input, [Stamped(f) EXCEPT !.type = "spoilt", !.code = e])
      PROVE  /\ input' \in Seq(ArrivedSet)
             /\ \E g \in ArrivedSet :
                  /\ Elements(input') = Elements(input) \cup {g}
                  /\ g.id = f.id /\ g.at = n /\ g.type = "spoilt" /\ g.code < 0
  <2> DEFINE g == [Stamped(f) EXCEPT !.type = "spoilt", !.code = e]
  <2>1. e \in Codes /\ e < 0
    BY DEF Codes, PARSE_ERROR, CHECKSUM_FAILURE
  <2>2. g \in ArrivedSet
    BY <1>2, <2>1, StampedIsArrived
  <2>3. g.id = f.id /\ g.at = n /\ g.type = "spoilt" /\ g.code < 0
    BY <2>1 DEF Stamped
  <2>4. input' = Append(input, g)
    BY <1>4
  <2> HIDE DEF g
  <2>5. input' \in Seq(ArrivedSet) /\ Elements(input') = Elements(input) \cup {g}
    BY <1>1, <2>2, <2>4, AppendElements
  <2> QED
    BY <2>2, <2>3, <2>5
<1> QED
  <2>1. \/ input' = Append(input, Stamped(f))
        \/ \E e \in {PARSE_ERROR, CHECKSUM_FAILURE} :
             input' = Append(input, [Stamped(f) EXCEPT !.type = "spoilt", !.code = e])
    BY DEF Arrive
  <2> HIDE DEF f
  <2>2. f \in Elements(wire)
    BY <1>2 DEF f
  <2> QED
    BY <1>1, <1>2, <1>3, <1>4, <2>1, <2>2

\* TakeFrame: one frame less to read, and the call has it or does not.
LEMMA TakenFrames ==
  ASSUME TypeOK, CallIsKnown, TakeFrame
  PROVE  /\ input' \in Seq(ArrivedSet) /\ got' \in Seq(ArrivedSet)
         /\ Len(got') <= Capacity + 1
         /\ phase' = "reading" => Len(got') <= Capacity
         /\ Elements(input') \subseteq Elements(input)
         /\ \A f \in Elements(got') : f \in Elements(got) \/ (f \in Elements(input) /\ f.type # "spoilt")
<1> DEFINE f == Head(input)
<1>1. /\ input' = Tail(input) /\ input # << >> /\ input \in Seq(ArrivedSet) /\ got \in Seq(ArrivedSet)
      /\ phase = "reading"
  BY DEF TakeFrame, TypeOK
<1>2. /\ Tail(input) \in Seq(ArrivedSet)
      /\ f \in Elements(input) /\ f \in ArrivedSet
      /\ Elements(Tail(input)) \subseteq Elements(input)
  BY <1>1, TailElements
<1>3. Len(got) \in Nat /\ Len(got) <= Capacity /\ Capacity \in Nat
  BY <1>1, LenProperties, BoundsAssumption DEF CallIsKnown, BoundsAssumption
<1>4. /\ Append(got, f) \in Seq(ArrivedSet)
      /\ Len(Append(got, f)) = Len(got) + 1
      /\ Elements(Append(got, f)) = Elements(got) \cup {f}
  BY <1>1, <1>2, AppendElements
<1>5. \/ got' = got
      \/ got' = Append(got, f) /\ f.type # "spoilt" /\ (phase' = "reading" => Len(got) < Capacity)
  BY DEF TakeFrame, HasRoom, Finish, Return
<1> HIDE DEF f
<1>6. CASE got' = got
  BY <1>1, <1>2, <1>3, <1>6
<1>7. CASE got' = Append(got, f) /\ f.type # "spoilt" /\ (phase' = "reading" => Len(got) < Capacity)
  <2>1. Len(got') <= Capacity + 1 /\ (phase' = "reading" => Len(got') <= Capacity)
    BY <1>3, <1>4, <1>7
  <2> QED
    BY <1>1, <1>2, <1>4, <1>7, <2>1
<1> QED
  BY <1>5, <1>6, <1>7

\* CarryOut and Refuse: the module answers the command it has carried out.
LEMMA ModuleFrames ==
  ASSUME TypeOK, PendingAreOpen, CarryOut \/ Refuse, NEW i, i = Head(pending)
  PROVE  /\ i \in Calls /\ i <= n /\ ops[i] \in Operations /\ effect[i] = "none"
         /\ i \in Elements(pending)
         /\ wire' \in Seq(FrameSet)
         /\ \A f \in Elements(wire') : f \in Elements(wire) \/ (f.id = i /\ f.type # "spoilt")
         /\ CarryOut => \A f \in Elements(wire') : f \in Elements(wire) \/ f \in AnswersOf(i)
         /\ Refuse => \A f \in Elements(wire') :
              f \in Elements(wire) \/ (f.id = i /\ IsRefusal(f) /\ f.code \in ModuleErrors)
<1>1. pending # << >> /\ pending \in Seq(Calls) /\ wire \in Seq(FrameSet)
  BY DEF CarryOut, Refuse, TypeOK
<1>2. i = pending[1] /\ i \in Calls /\ i \in Elements(pending) /\ Len(pending) \in Nat \ {0}
  BY <1>1, TailElements
<1>3. i <= n /\ ops[i] \in Operations /\ effect[i] = "none"
  <2>1. i <= Sent /\ ops[i] \in Operations /\ effect[i] = "none"
    BY <1>2 DEF PendingAreOpen
  <2>2. n \in Nat /\ i \in Nat
    BY <1>2, BoundsAssumption DEF TypeOK, Calls, BoundsAssumption
  <2> QED
    BY <2>1, <2>2 DEF Sent
<1>4. ops[i] \in AllOperations
  BY <1>3, OperationsAssumption DEF OperationsAssumption
<1>5. CASE CarryOut
  <2>1. PICK a \in Answers(i) : wire' = wire \o a
    BY <1>5 DEF CarryOut
  <2>2. a \in Seq(AnswersOf(i))
    BY <1>2, <1>4, <2>1, AnswersAreFrames, BoundsAssumption
  <2>3. a \in Seq(FrameSet)
    <3>1. AnswersOf(i) \subseteq FrameSet
      BY DEF AnswersOf
    <3> QED
      BY <2>2, <3>1, SeqMonotonic
  <2>4. Elements(a) \subseteq AnswersOf(i)
    BY <2>2, SeqElements
  <2>5. wire' \in Seq(FrameSet) /\ Elements(wire') \subseteq Elements(wire) \cup Elements(a)
    BY <1>1, <2>1, <2>3, ConcatElements
  <2>6. \A f \in AnswersOf(i) : f.id = i /\ f.type # "spoilt"
    BY DEF AnswersOf
  <2>7. ~ Refuse
    BY <1>3, <1>5 DEF CarryOut, Refuse, TypeOK
  <2> QED
    BY <1>2, <1>3, <2>4, <2>5, <2>6, <2>7
<1>6. CASE Refuse
  <2>1. PICK c \in ModuleErrors : wire' = Append(wire, RefusalFrame(i, c))
    BY <1>6 DEF Refuse
  <2>2. ~ CarryOut
    BY <1>3, <1>2, <1>6 DEF CarryOut, Refuse, TypeOK
  <2>3. /\ RefusalFrame(i, c) \in FrameSet /\ RefusalFrame(i, c).id = i
        /\ IsRefusal(RefusalFrame(i, c)) /\ RefusalFrame(i, c).type # "spoilt"
        /\ RefusalFrame(i, c).code = c
    <3>1. i \in Calls
      BY <1>2
    <3>2. /\ RefusalFrame(i, c) \in FrameSet
          /\ RefusalFrame(i, c).id = i
          /\ IsRefusal(RefusalFrame(i, c))
          /\ RefusalFrame(i, c).type = "response"
          /\ RefusalFrame(i, c).code = c
      BY <3>1, RefusalFrameIsFrame, BoundsAssumption
    <3> QED
      BY <3>2
  <2>4. wire' \in Seq(FrameSet) /\ Elements(wire') = Elements(wire) \cup {RefusalFrame(i, c)}
    BY <1>1, <2>1, <2>3, AppendElements
  <2> QED
    BY <1>2, <1>3, <2>2, <2>3, <2>4
<1> QED
  BY <1>5, <1>6

-----------------------------------------------------------------------------
(* Each part of the invariant is kept by each step.                        *)

\* A call that begins takes the next number and leaves the others alone.
LEMMA BeginsFacts ==
  ASSUME TypeOK, NEW o \in Operations, NEW a \in Arguments, Begins(o, a)
  PROVE  /\ n \in Nat /\ n < MaxCalls /\ n + 1 \in Calls /\ n' = n + 1
         /\ ops' \in [Calls -> Operations \cup {"none"}]
         /\ ops'[n + 1] = o
         /\ \A c \in Calls : c <= n => ops'[c] = ops[c]
         /\ arg' \in Arguments /\ got' = << >>
  BY BoundsAssumption DEF Begins, TypeOK, Calls, BoundsAssumption

\* TypeOK.
LEMMA KeepsType ==
  ASSUME TypeOK, CallIsKnown, PendingAreOpen, [Next]_vars
  PROVE  TypeOK'
<1> USE BoundsAssumption DEF BoundsAssumption
<1> << >> \in Seq(ArrivedSet) /\ Len(<< >>) = 0
  BY EmptySeq
<1>0. /\ n \in 0 .. MaxCalls /\ MaxCalls \in Nat \ {0} /\ Capacity \in Nat \ {0}
      /\ ops \in [Calls -> Operations \cup {"none"}]
      /\ arg \in Arguments
      /\ phase \in {"idle", "writing", "reading"}
      /\ got \in Seq(ArrivedSet) /\ Len(got) <= Capacity + 1
      /\ result \in Codes /\ last_error \in Codes
      /\ input \in Seq(ArrivedSet)
      /\ pending \in Seq(Calls) /\ Len(pending) <= MaxCalls
      /\ wire \in Seq(FrameSet)
      /\ effect \in [Calls -> {"none", "done", "refused"}]
      /\ quiet \in BOOLEAN
  BY DEF TypeOK
<1>c. {STATUS_OK, UNKNOWN_ERROR, OVERFLOW, READ_TIMEOUT, READ_FAILED} \subseteq Codes
  BY DEF Codes, STATUS_OK, UNKNOWN_ERROR, OVERFLOW, READ_TIMEOUT, READ_FAILED
<1>b. ASSUME NEW o \in Operations, NEW a \in Arguments, Begins(o, a)
      PROVE  /\ n' \in 0 .. MaxCalls
             /\ ops' \in [Calls -> Operations \cup {"none"}]
             /\ arg' \in Arguments
             /\ got' \in Seq(ArrivedSet) /\ Len(got') <= Capacity + 1
  <2>1. /\ n \in Nat /\ n < MaxCalls /\ n' = n + 1
        /\ ops' \in [Calls -> Operations \cup {"none"}]
        /\ arg' \in Arguments /\ got' = << >>
    BY <1>b, BeginsFacts
  <2> QED
    BY <1>0, <2>1
<1>1. ASSUME NEW o \in Operations, NEW a \in Arguments, Reject(o, a)
      PROVE  TypeOK'
  <2>1. Begins(o, a)
    BY <1>1 DEF Reject
  <2>2. ArgumentError(o, a) \in Codes
    BY ArgumentErrorIsNegative DEF Codes
  <2> QED
    BY <1>0, <1>1, <1>b, <2>1, <2>2 DEF TypeOK, Reject, Return, module
<1>2. ASSUME NEW o \in Operations, NEW a \in Arguments, Flush(o, a)
      PROVE  TypeOK'
  <2>1. Begins(o, a)
    BY <1>2 DEF Flush
  <2> QED
    BY <1>0, <1>2, <1>b, <2>1 DEF TypeOK, Flush, Flushed, module
<1>w. CASE Write
  <2>1. n \in Calls /\ Len(pending) <= n - 1
    BY <1>0, <1>w DEF Write, CallIsKnown, PendingAreOpen, Sent, Calls
  <2>2. pending' \in Seq(Calls) /\ Len(pending') = Len(pending) + 1
    BY <1>0, <1>w, <2>1, AppendProperties DEF Write
  <2>3. Len(pending) \in Nat
    BY <1>0, LenProperties
  <2>4. Len(pending') <= MaxCalls
    BY <1>0, <2>1, <2>2, <2>3
  <2> QED
    BY <1>0, <1>w, <2>2, <2>4 DEF TypeOK, Write
<1>3. CASE WriteFails
  BY <1>0, <1>c, <1>3 DEF TypeOK, WriteFails, Return, module
<1>f. ASSUME NEW frames \in Seq(ArrivedSet), Finish(frames)
      PROVE  phase' = "idle" /\ result' \in Codes /\ last_error' \in Codes
  BY <1>c, <1>f, ResultIsCode DEF Finish, Return
<1>4. CASE TakeFrame
  <2>1. /\ input' \in Seq(ArrivedSet) /\ got' \in Seq(ArrivedSet)
        /\ Len(got') <= Capacity + 1
    BY <1>4, TakenFrames
  <2>2. /\ input # << >> /\ Head(input) \in ArrivedSet
    BY <1>0, <1>4, TailElements DEF TakeFrame
  <2>3. Head(input).code \in Codes
    BY <2>2 DEF ArrivedSet
  <2>4. Append(got, Head(input)) \in Seq(ArrivedSet)
    BY <1>0, <2>2, AppendProperties
  <2>5. phase' \in {"idle", "writing", "reading"} /\ result' \in Codes /\ last_error' \in Codes
    BY <1>0, <1>c, <1>f, <1>4, <2>3, <2>4 DEF TakeFrame, Return
  <2> QED
    BY <1>0, <1>4, <2>1, <2>5 DEF TypeOK, TakeFrame, module
<1>5. CASE Timeout
  <2>1. phase' \in {"idle", "writing", "reading"} /\ result' \in Codes /\ last_error' \in Codes
    BY <1>0, <1>c, <1>f, <1>5 DEF Timeout, Return
  <2> QED
    BY <1>0, <1>5, <2>1 DEF TypeOK, Timeout, module
<1>6. CASE ReadFails
  BY <1>0, <1>c, <1>6 DEF TypeOK, ReadFails, Return, module
<1>p. ASSUME pending # << >>
      PROVE  Tail(pending) \in Seq(Calls) /\ Len(Tail(pending)) <= MaxCalls
  <2>1. Len(pending) \in Nat
    BY <1>0, LenProperties
  <2>2. Tail(pending) \in Seq(Calls) /\ Len(Tail(pending)) = Len(pending) - 1
    BY <1>0, <1>p, HeadTailProperties
  <2> QED
    BY <1>0, <2>1, <2>2
<1>7. CASE CarryOut
  <2>1. wire' \in Seq(FrameSet)
    BY <1>7, ModuleFrames
  <2>2. pending' \in Seq(Calls) /\ Len(pending') <= MaxCalls
    BY <1>7, <1>p DEF CarryOut
  <2>3. effect' \in [Calls -> {"none", "done", "refused"}]
    BY <1>0, <1>7 DEF CarryOut
  <2> QED
    BY <1>0, <1>7, <2>1, <2>2, <2>3 DEF TypeOK, CarryOut, caller
<1>8. CASE Refuse
  <2>1. wire' \in Seq(FrameSet)
    BY <1>8, ModuleFrames
  <2>2. pending' \in Seq(Calls) /\ Len(pending') <= MaxCalls
    BY <1>8, <1>p DEF Refuse
  <2>3. effect' \in [Calls -> {"none", "done", "refused"}]
    BY <1>0, <1>8 DEF Refuse
  <2> QED
    BY <1>0, <1>8, <2>1, <2>2, <2>3 DEF TypeOK, Refuse, caller
<1>9. CASE Ignore
  <2>1. pending' \in Seq(Calls) /\ Len(pending') <= MaxCalls
    BY <1>9, <1>p DEF Ignore
  <2> QED
    BY <1>0, <1>9, <2>1 DEF TypeOK, Ignore, caller
<1>10. CASE Arrive
  <2>1. wire' \in Seq(FrameSet) /\ input' \in Seq(ArrivedSet)
    BY <1>10, ArriveFrames
  <2> QED
    BY <1>0, <1>10, <2>1 DEF TypeOK, Arrive, caller
<1>11. CASE Lose
  <2>1. wire' \in Seq(FrameSet)
    BY <1>0, <1>11, HeadTailProperties DEF Lose
  <2> QED
    BY <1>0, <1>11, <2>1 DEF TypeOK, Lose, caller
<1>12. CASE UNCHANGED vars
  BY <1>0, <1>12 DEF TypeOK, vars, caller, module
<1> QED
  BY <1>1, <1>2, <1>w, <1>3, <1>4, <1>5, <1>6, <1>7, <1>8, <1>9, <1>10, <1>11, <1>12
     DEF Next, Writes, Reads

\* CallIsKnown: the next notice is kept only where it fits.
LEMMA KeepsCall ==
  ASSUME TypeOK, CallIsKnown, [Next]_vars
  PROVE  CallIsKnown'
<1> USE BoundsAssumption DEF BoundsAssumption
<1>1. ASSUME NEW o \in Operations, NEW a \in Arguments, Reject(o, a)
      PROVE  CallIsKnown'
  BY <1>1 DEF CallIsKnown, Reject, Return
<1>2. ASSUME NEW o \in Operations, NEW a \in Arguments, Flush(o, a)
      PROVE  CallIsKnown'
  <2>1. n \in Nat /\ n' = n + 1 /\ ops'[n + 1] = o /\ got' = << >> /\ phase' = "writing"
    BY <1>2, BeginsFacts DEF Flush
  <2> QED
    BY <2>1 DEF CallIsKnown, op
<1>w. CASE Write
  <2>1. Len(got) = 0 /\ n > 0 /\ op \in Operations
    BY <1>w, EmptySeq DEF Write, CallIsKnown
  <2> QED
    BY <1>w, <2>1 DEF CallIsKnown, Write, op
<1>3. CASE TakeFrame
  <2>1. phase' = "reading" => Len(got') <= Capacity
    BY <1>3, TakenFrames
  <2>2. phase = "reading" /\ phase' \in {"idle", "reading"} /\ UNCHANGED <<n, ops>>
    BY <1>3 DEF TakeFrame, Finish, Return
  <2> QED
    BY <2>1, <2>2 DEF CallIsKnown, op
<1>4. CASE WriteFails \/ Timeout \/ ReadFails
  BY <1>4 DEF CallIsKnown, WriteFails, Timeout, ReadFails, Finish, Return
<1>5. CASE CarryOut \/ Refuse \/ Ignore \/ Arrive \/ Lose \/ UNCHANGED vars
  BY <1>5 DEF CallIsKnown, CarryOut, Refuse, Ignore, Arrive, Lose, vars, caller, op
<1> QED
  BY <1>1, <1>2, <1>w, <1>3, <1>4, <1>5 DEF Next, Writes, Reads

\* PendingAreOpen: the module takes each command off the list as it acts.
LEMMA KeepsPending ==
  ASSUME TypeOK, CallIsKnown, PendingAreOpen, [Next]_vars
  PROVE  PendingAreOpen'
<1>0. /\ n \in Nat /\ n <= MaxCalls /\ MaxCalls \in Nat
      /\ Sent \in Nat /\ Sent <= n
      /\ pending \in Seq(Calls) /\ Len(pending) \in Nat /\ Len(pending) <= Sent
      /\ \A c \in Calls : c \in Nat
      /\ ops \in [Calls -> Operations \cup {"none"}]
      /\ effect \in [Calls -> {"none", "done", "refused"}]
  <2>1. n \in Nat /\ n <= MaxCalls /\ MaxCalls \in Nat
    BY BoundsAssumption DEF TypeOK, BoundsAssumption
  <2>2. Sent \in Nat /\ Sent <= n
    BY <2>1 DEF Sent, CallIsKnown
  <2> QED
    BY <2>1, <2>2, LenProperties DEF TypeOK, PendingAreOpen, Calls
<1>1. \A i \in 1 .. Len(pending) :
        /\ pending[i] \in Calls /\ pending[i] <= Sent
        /\ ops[pending[i]] \in Operations /\ effect[pending[i]] = "none"
        /\ \A j \in 1 .. Len(pending) : i # j => pending[i] # pending[j]
  BY <1>0, ElementOfSeq DEF PendingAreOpen
<1>2. \A c \in Calls : c > Sent => effect[c] = "none"
  BY DEF PendingAreOpen
<1>3. ASSUME UNCHANGED <<pending, effect>>, Sent' \in Nat, Sent <= Sent',
             \A c \in Calls : c <= Sent => ops'[c] = ops[c]
      PROVE  PendingAreOpen'
  BY <1>0, <1>1, <1>2, <1>3 DEF PendingAreOpen
<1>4. CASE Write
  <2>1. n \in Calls /\ Sent = n - 1 /\ Sent' = n /\ ops' = ops /\ ops[n] \in Operations
    BY <1>0, <1>4 DEF Write, CallIsKnown, Sent, Calls, op
  <2>2. /\ Len(pending') = Len(pending) + 1
        /\ pending'[Len(pending) + 1] = n
        /\ \A i \in 1 .. Len(pending) : pending'[i] = pending[i]
    BY <1>0, <1>4, <2>1, AppendProperties DEF Write
  <2>3. effect' = effect
    BY <1>4 DEF Write
  <2>4. \A i \in 1 .. Len(pending') : i = Len(pending) + 1 \/ i \in 1 .. Len(pending)
    BY <1>0, <2>2
  <2>5. \A i \in 1 .. Len(pending') :
          /\ pending'[i] <= Sent' /\ ops'[pending'[i]] \in Operations /\ effect'[pending'[i]] = "none"
          /\ \A j \in 1 .. Len(pending') : i # j => pending'[i] # pending'[j]
    <3>1. \A i \in 1 .. Len(pending) : pending[i] # n /\ pending[i] <= n
      BY <1>0, <1>1, <2>1, SMTT(30)
    <3>2. effect[n] = "none"
      BY <1>0, <1>2, <2>1
    <3>3. ASSUME NEW i \in 1 .. Len(pending)
          PROVE  /\ pending'[i] = pending[i] /\ pending'[i] <= Sent'
                 /\ ops'[pending'[i]] \in Operations /\ effect'[pending'[i]] = "none"
      BY <1>0, <1>1, <2>1, <2>2, <2>3, <3>1
    <3>4. ASSUME NEW i \in 1 .. Len(pending'), NEW j \in 1 .. Len(pending'), i # j
          PROVE  pending'[i] # pending'[j]
      <4>1. CASE i = Len(pending) + 1
        BY <2>2, <2>4, <3>1, <3>4, <4>1
      <4>2. CASE j = Len(pending) + 1
        BY <2>2, <2>4, <3>1, <3>4, <4>2
      <4>3. CASE i \in 1 .. Len(pending) /\ j \in 1 .. Len(pending)
        BY <1>1, <2>2, <3>4, <4>3
      <4> QED
        BY <2>4, <4>1, <4>2, <4>3
    <3>5. pending'[Len(pending) + 1] <= Sent' /\ ops'[n] \in Operations /\ effect'[n] = "none"
      BY <1>0, <2>1, <2>2, <2>3, <3>2
    <3> QED
      BY <2>2, <2>4, <3>3, <3>4, <3>5
  <2> QED
    BY <1>0, <1>2, <2>1, <2>2, <2>3, <2>5 DEF PendingAreOpen
<1>5. ASSUME pending # << >>, pending' = Tail(pending), UNCHANGED <<Sent, ops>>,
             \A c \in Calls : c # Head(pending) => effect'[c] = effect[c]
      PROVE  PendingAreOpen'
  <2>1. /\ Len(pending') = Len(pending) - 1
        /\ Head(pending) = pending[1]
        /\ Len(pending) \in Nat \ {0}
        /\ \A i \in 1 .. Len(pending) - 1 : pending'[i] = pending[i + 1]
    BY <1>0, <1>5, TailElements
  <2>2. \A i \in 1 .. Len(pending') :
          /\ i + 1 \in 1 .. Len(pending) /\ i + 1 # 1 /\ pending'[i] = pending[i + 1]
          /\ pending[i + 1] # Head(pending)
    BY <1>0, <1>1, <2>1
  <2>3. \A i \in 1 .. Len(pending') :
          /\ pending'[i] <= Sent' /\ ops'[pending'[i]] \in Operations /\ effect'[pending'[i]] = "none"
    BY <1>1, <1>5, <2>2
  <2>4. ASSUME NEW i \in 1 .. Len(pending'), NEW j \in 1 .. Len(pending'), i # j
        PROVE  pending'[i] # pending'[j]
    <3>1. pending'[i] = pending[i + 1] /\ pending'[j] = pending[j + 1]
      BY <2>2
    <3>2. i + 1 \in 1 .. Len(pending) /\ j + 1 \in 1 .. Len(pending) /\ i + 1 # j + 1
      BY <2>1, <2>2, <2>4
    <3> QED
      BY <1>1, <3>1, <3>2
  <2>5. pending[1] <= Sent
    BY <1>1, <2>1
  <2> QED
    BY <1>0, <1>2, <1>5, <2>1, <2>3, <2>4, <2>5 DEF PendingAreOpen
<1>6. CASE CarryOut \/ Refuse \/ Ignore
  <2>1. pending # << >> /\ pending' = Tail(pending) /\ UNCHANGED <<Sent, ops>>
    BY <1>6 DEF CarryOut, Refuse, Ignore, caller, Sent
  <2>2. \A c \in Calls : c # Head(pending) => effect'[c] = effect[c]
    BY <1>0, <1>6 DEF CarryOut, Refuse, Ignore
  <2> QED
    BY <1>5, <2>1, <2>2
<1>7. ASSUME NEW o \in Operations, NEW a \in Arguments, Reject(o, a) \/ Flush(o, a)
      PROVE  PendingAreOpen'
  <2>1. Begins(o, a) /\ phase' \in {"idle", "writing"} /\ UNCHANGED <<pending, effect>>
    BY <1>7 DEF Reject, Flush, Return, module
  <2>2. phase = "idle" /\ n' = n + 1 /\ \A c \in Calls : c <= n => ops'[c] = ops[c]
    BY <2>1, BeginsFacts DEF Begins
  <2>3. Sent = n /\ Sent' \in {n, n + 1}
    BY <1>0, <2>1, <2>2 DEF Sent
  <2> QED
    BY <1>0, <1>3, <2>1, <2>2, <2>3
<1>8. CASE WriteFails \/ TakeFrame \/ Timeout \/ ReadFails
  <2>1. UNCHANGED <<n, ops, pending, effect>> /\ phase' # "writing"
    BY <1>8 DEF WriteFails, TakeFrame, Timeout, ReadFails, Finish, Return, module
  <2>2. Sent' = n
    BY <2>1 DEF Sent
  <2> QED
    BY <1>0, <1>3, <2>1, <2>2
<1>9. CASE Arrive \/ Lose \/ UNCHANGED vars
  <2>1. UNCHANGED <<ops, pending, effect, Sent>>
    BY <1>9 DEF Arrive, Lose, vars, caller, module, Sent
  <2> QED
    BY <1>0, <1>3, <2>1
<1> QED
  BY <1>4, <1>6, <1>7, <1>8, <1>9 DEF Next, Writes, Reads

\* The frames of a call are judged by what was asked and what was done, which
\* no later step takes back.
LEMMA StaysHonest ==
  ASSUME TypeOK, NEW f, IsHonest(f), n' \in Nat, n <= n',
         \A c \in Calls : c <= n => ops'[c] = ops[c],
         \A c \in Calls : effect[c] # "none" => effect'[c] = effect[c]
  PROVE  IsHonest(f)'
<1>1. f.id \in 1 .. n' /\ f.id \in Calls /\ ops'[f.id] = ops[f.id]
  BY BoundsAssumption DEF IsHonest, TypeOK, Calls, BoundsAssumption
<1> QED
  BY <1>1 DEF IsHonest

\* FramesAreHonest: a frame is put on the line with the deed it reports.
LEMMA KeepsHonesty ==
  ASSUME TypeOK, CallIsKnown, PendingAreOpen, FramesAreHonest, [Next]_vars
  PROVE  FramesAreHonest'
<1> DEFINE Now == Elements(wire) \cup Elements(input) \cup Elements(got)
           Then == Elements(wire') \cup Elements(input') \cup Elements(got')
<1>0. /\ \A f \in Now : IsHonest(f)
      /\ \A f \in Elements(wire) \cup Elements(got) : f.type # "spoilt"
  BY DEF FramesAreHonest
<1>e. Elements(<< >>) = {}
  BY EmptyElements
<1>n. n \in Nat /\ n <= MaxCalls
  BY BoundsAssumption DEF TypeOK, BoundsAssumption
<1>1. ASSUME UNCHANGED <<n, ops, effect>>,
             \A f \in Then : f \in Now \/ IsHonest(f),
             \A f \in Elements(wire') \cup Elements(got') : f.type # "spoilt"
      PROVE  FramesAreHonest'
  <2>1. \A f \in Then : IsHonest(f)'
    <3> SUFFICES ASSUME NEW f \in Then PROVE IsHonest(f)'
      OBVIOUS
    <3>1. IsHonest(f)
      BY <1>0, <1>1
    <3> QED
      BY <1>1, <1>n, <3>1, StaysHonest
  <2> QED
    BY <1>1, <2>1 DEF FramesAreHonest
<1>2. ASSUME NEW o \in Operations, NEW a \in Arguments, Begins(o, a),
             UNCHANGED <<wire, effect>>, input' = input \/ input' = << >>
      PROVE  FramesAreHonest'
  <2>1. /\ n' = n + 1 /\ got' = << >> /\ \A c \in Calls : c <= n => ops'[c] = ops[c]
    BY <1>2, BeginsFacts
  <2>2. Then \subseteq Now /\ Elements(wire') \cup Elements(got') \subseteq Elements(wire)
    BY <1>2, <1>e, <2>1
  <2>3. \A f \in Then : IsHonest(f)'
    <3> SUFFICES ASSUME NEW f \in Then PROVE IsHonest(f)'
      OBVIOUS
    <3>1. IsHonest(f)
      BY <1>0, <2>2
    <3> QED
      BY <1>2, <1>n, <2>1, <3>1, StaysHonest
  <2> QED
    BY <1>0, <2>2, <2>3 DEF FramesAreHonest
<1>3. ASSUME NEW o \in Operations, NEW a \in Arguments, Reject(o, a) \/ Flush(o, a)
      PROVE  FramesAreHonest'
  BY <1>2, <1>3 DEF Reject, Flush, Flushed, module
<1>4. CASE TakeFrame
  <2>1. /\ Elements(input') \subseteq Elements(input)
        /\ \A f \in Elements(got') : f \in Elements(got) \/ (f \in Elements(input) /\ f.type # "spoilt")
        /\ UNCHANGED <<n, ops, effect, wire>>
    BY <1>4, TakenFrames DEF TakeFrame, module
  <2> QED
    BY <1>0, <1>1, <2>1
<1>5. CASE CarryOut \/ Refuse
  <2> DEFINE i == Head(pending)
  <2>1. /\ i \in Calls /\ i <= n /\ ops[i] \in Operations /\ effect[i] = "none"
        /\ \A f \in Elements(wire') : f \in Elements(wire) \/ (f.id = i /\ f.type # "spoilt")
        /\ CarryOut => \A f \in Elements(wire') : f \in Elements(wire) \/ f \in AnswersOf(i)
        /\ Refuse => \A f \in Elements(wire') : f \in Elements(wire) \/ (f.id = i /\ IsRefusal(f))
    BY <1>5, ModuleFrames
  <2>2. UNCHANGED <<n, ops, input, got>>
    BY <1>5 DEF CarryOut, Refuse, caller
  <2>3. /\ \A c \in Calls : c # i => effect'[c] = effect[c]
        /\ CarryOut => effect'[i] = "done"
        /\ Refuse => effect'[i] = "refused"
    BY <1>5, <2>1 DEF CarryOut, Refuse, TypeOK
  <2> HIDE DEF i
  <2>4. \A c \in Calls : effect[c] # "none" => effect'[c] = effect[c]
    BY <2>1, <2>3
  <2>5. ASSUME NEW f \in Now PROVE IsHonest(f)'
    BY <1>0, <1>n, <2>2, <2>4, <2>5, StaysHonest
  <2>6. ASSUME CarryOut, NEW f \in AnswersOf(i) PROVE IsHonest(f)'
    <3>1. /\ f.id = i /\ f.type # "spoilt" /\ ~ IsRefusal(f)
          /\ IsOk(f) => f.cmd = CommandByte[ops[i]]
      BY <2>6 DEF AnswersOf, IsRefusal, IsOk, IsResponseFrame
    <3>2. i \in 1 .. n'
      BY <1>n, <2>1, <2>2 DEF Calls
    <3> QED
      BY <2>1, <2>2, <2>3, <2>6, <3>1, <3>2 DEF IsHonest
  <2>7. ASSUME Refuse, NEW f, f.id = i /\ IsRefusal(f) PROVE IsHonest(f)'
    <3>1. f.type = "response" /\ ~ IsOk(f)
      BY <2>7 DEF IsRefusal, IsOk, IsResponseFrame
    <3>2. i \in 1 .. n'
      BY <1>n, <2>1, <2>2 DEF Calls
    <3> QED
      BY <2>1, <2>2, <2>3, <2>7, <3>1, <3>2 DEF IsHonest
  <2>8. \A f \in Then : IsHonest(f)'
    BY <1>5, <2>1, <2>2, <2>5, <2>6, <2>7
  <2> QED
    BY <1>0, <2>1, <2>2, <2>8 DEF FramesAreHonest
<1>6. CASE Arrive
  <2>1. PICK f \in Elements(wire), g \in ArrivedSet :
              /\ Elements(input') = Elements(input) \cup {g}
              /\ g.id = f.id /\ g.at = n
              /\ \/ g.type = f.type /\ g.cmd = f.cmd /\ g.code = f.code
                 \/ g.type = "spoilt" /\ g.code < 0
    BY <1>6, ArriveFrames
  <2>2. IsHonest(f) /\ f.type # "spoilt"
    BY <1>0
  <2>3. IsHonest(g)
    BY <2>1, <2>2 DEF IsHonest, IsRefusal, IsOk, IsResponseFrame
  <2>4. UNCHANGED <<n, ops, effect, got>> /\ Elements(wire') \subseteq Elements(wire)
    BY <1>6, ArriveFrames DEF Arrive, caller
  <2> QED
    BY <1>0, <1>1, <2>1, <2>3, <2>4
<1>7. CASE Lose
  <2>1. UNCHANGED <<n, ops, effect, got, input>> /\ Elements(wire') \subseteq Elements(wire)
    BY <1>7, TailElements DEF Lose, TypeOK, caller
  <2> QED
    BY <1>0, <1>1, <2>1
<1>8. CASE Write \/ WriteFails \/ Timeout \/ ReadFails \/ Ignore \/ UNCHANGED vars
  <2>1. UNCHANGED <<n, ops, effect, got, input, wire>>
    BY <1>8 DEF Write, WriteFails, Timeout, ReadFails, Ignore, vars, caller, module
  <2> QED
    BY <1>0, <1>1, <2>1
<1> QED
  BY <1>3, <1>4, <1>5, <1>6, <1>7, <1>8 DEF Next, Writes, Reads

\* InputIsFresh and FreshAnswers: each call that reads has flushed.
LEMMA KeepsFreshness ==
  ASSUME TypeOK, CallIsKnown, InputIsFresh, FreshAnswers, [Next]_vars
  PROVE  InputIsFresh' /\ FreshAnswers'
<1>0. \A f \in Elements(got) : f.at = n
  BY DEF FreshAnswers, Elements
<1>1. ASSUME \A f \in Elements(got') : f.at = n' PROVE FreshAnswers'
  BY <1>1 DEF FreshAnswers, Elements
<1>2. ASSUME NEW o \in Operations, NEW a \in Arguments, Reject(o, a) \/ Flush(o, a)
      PROVE  InputIsFresh' /\ FreshAnswers'
  <2>1. got' = << >> /\ (phase' # "idle" => input' = << >>)
    BY <1>2 DEF Reject, Flush, Begins, Return, Flushed
  <2> QED
    BY <1>1, <2>1, EmptyElements DEF InputIsFresh
<1>3. CASE TakeFrame
  <2>1. /\ Elements(input') \subseteq Elements(input)
        /\ \A f \in Elements(got') : f \in Elements(got) \/ f \in Elements(input)
        /\ n' = n /\ phase = "reading"
    BY <1>3, TakenFrames DEF TakeFrame
  <2> QED
    BY <1>0, <1>1, <2>1 DEF InputIsFresh
<1>4. CASE Arrive
  <2>1. PICK g \in ArrivedSet : Elements(input') = Elements(input) \cup {g} /\ g.at = n
    BY <1>4, ArriveFrames
  <2>2. UNCHANGED <<n, got, phase>>
    BY <1>4 DEF Arrive, caller
  <2> QED
    BY <1>0, <1>1, <2>1, <2>2 DEF InputIsFresh
<1>5. CASE \/ Write \/ WriteFails \/ Timeout \/ ReadFails
           \/ CarryOut \/ Refuse \/ Ignore \/ Lose \/ UNCHANGED vars
  <2>1. UNCHANGED <<n, got, input>> /\ (phase' # "idle" => phase # "idle")
    BY <1>5 DEF Write, WriteFails, Timeout, ReadFails, Finish, Return, CarryOut, Refuse, Ignore,
                Lose, vars, caller
  <2> QED
    BY <1>0, <1>1, <2>1 DEF InputIsFresh
<1> QED
  BY <1>2, <1>3, <1>4, <1>5 DEF Next, Writes, Reads

\* LineIsOwn, OwnAnswers and LineIsQuiet: on a silent line the call is alone.
LEMMA KeepsOwnership ==
  ASSUME TypeOK, CallIsKnown, PendingAreOpen, LineIsOwn, OwnAnswers, LineIsQuiet, [Next]_vars
  PROVE  LineIsOwn' /\ OwnAnswers' /\ LineIsQuiet'
<1>0. quiet => \A f \in Elements(got) : f.id = n
  BY DEF OwnAnswers, Elements
<1>1. ASSUME quiet' => \A f \in Elements(got') : f.id = n' PROVE OwnAnswers'
  BY <1>1 DEF OwnAnswers, Elements
<1>2. ASSUME NEW o \in Operations, NEW a \in Arguments, Reject(o, a)
      PROVE  LineIsOwn' /\ OwnAnswers' /\ LineIsQuiet'
  <2>1. got' = << >> /\ phase' = "idle"
    BY <1>2 DEF Reject, Begins, Return
  <2> QED
    BY <1>1, <2>1, EmptyElements DEF LineIsOwn, LineIsQuiet
<1>3. ASSUME NEW o \in Operations, NEW a \in Arguments, Flush(o, a)
      PROVE  LineIsOwn' /\ OwnAnswers' /\ LineIsQuiet'
  <2>1. /\ got' = << >> /\ input' = << >> /\ UNCHANGED <<pending, wire>>
        /\ quiet' = (pending = << >> /\ wire = << >>)
        /\ ~ Late => pending = << >> /\ wire = << >>
    BY <1>3 DEF Flush, Begins, Flushed, module
  <2> QED
    BY <1>1, <2>1, EmptyElements DEF LineIsOwn, LineIsQuiet
<1>w. CASE Write
  <2>1. /\ UNCHANGED <<n, wire, input, got, quiet>> /\ phase = "writing"
        /\ pending' = Append(pending, n) /\ n \in Calls
    BY <1>w, BoundsAssumption DEF Write, CallIsKnown, TypeOK, Calls, BoundsAssumption
  <2>2. Elements(pending') = Elements(pending) \cup {n}
    BY <2>1, AppendElements DEF TypeOK
  <2> QED
    BY <1>0, <1>1, <2>1, <2>2 DEF LineIsOwn, LineIsQuiet
<1>4. CASE TakeFrame
  <2>1. /\ Elements(input') \subseteq Elements(input)
        /\ \A f \in Elements(got') : f \in Elements(got) \/ f \in Elements(input)
        /\ UNCHANGED <<n, pending, wire, quiet>> /\ phase = "reading"
    BY <1>4, TakenFrames DEF TakeFrame, module
  <2> QED
    BY <1>0, <1>1, <2>1 DEF LineIsOwn, LineIsQuiet
<1>5. CASE CarryOut \/ Refuse
  <2> DEFINE i == Head(pending)
  <2>1. /\ i \in Elements(pending)
        /\ \A f \in Elements(wire') : f \in Elements(wire) \/ f.id = i
    BY <1>5, ModuleFrames
  <2>2. UNCHANGED <<n, phase, got, input, quiet>>
    BY <1>5 DEF CarryOut, Refuse, caller
  <2>3. Elements(pending') \subseteq Elements(pending)
    BY <1>5, TailElements DEF CarryOut, Refuse, TypeOK
  <2> HIDE DEF i
  <2> QED
    BY <1>0, <1>1, <2>1, <2>2, <2>3 DEF LineIsOwn, LineIsQuiet
<1>6. CASE Ignore
  <2>1. UNCHANGED <<n, phase, got, input, quiet, wire>>
    BY <1>6 DEF Ignore, caller
  <2>2. Elements(pending') \subseteq Elements(pending)
    BY <1>6, TailElements DEF Ignore, TypeOK
  <2> QED
    BY <1>0, <1>1, <2>1, <2>2 DEF LineIsOwn, LineIsQuiet
<1>7. CASE Arrive
  <2>1. PICK f \in Elements(wire), g \in ArrivedSet :
          Elements(input') = Elements(input) \cup {g} /\ g.id = f.id
    BY <1>7, ArriveFrames
  <2>2. UNCHANGED <<n, phase, got, quiet, pending>> /\ Elements(wire') \subseteq Elements(wire)
    BY <1>7, ArriveFrames DEF Arrive, caller
  <2> QED
    BY <1>0, <1>1, <2>1, <2>2 DEF LineIsOwn, LineIsQuiet
<1>8. CASE Lose
  <2>1. UNCHANGED <<n, phase, got, input, quiet, pending>> /\ Elements(wire') \subseteq Elements(wire)
    BY <1>8, TailElements DEF Lose, TypeOK, caller
  <2> QED
    BY <1>0, <1>1, <2>1 DEF LineIsOwn, LineIsQuiet
<1>9. CASE WriteFails \/ Timeout \/ ReadFails
  <2>1. UNCHANGED <<n, got, quiet>> /\ phase' = "idle"
    BY <1>9 DEF WriteFails, Timeout, ReadFails, Finish, Return
  <2> QED
    BY <1>0, <1>1, <2>1 DEF LineIsOwn, LineIsQuiet
<1>10. CASE UNCHANGED vars
  BY <1>0, <1>1, <1>10 DEF LineIsOwn, LineIsQuiet, vars, caller, module
<1> QED
  BY <1>2, <1>3, <1>w, <1>4, <1>5, <1>6, <1>7, <1>8, <1>9, <1>10 DEF Next, Writes, Reads

\* A step leaves what the caller knows as it was, or the call reads on, or it
\* returns an error of its own, or it returns what its frames say.
LEMMA Outcomes ==
  ASSUME TypeOK, CallIsKnown, FramesAreHonest, [Next]_vars
  PROVE  \/ UNCHANGED <<n, ops, phase, got, result>>
         \/ phase' # "idle"
         \/ phase' = "idle" /\ result' < 0
         \/ /\ phase = "reading" /\ phase' = "idle" /\ UNCHANGED <<n, ops, arg, effect>>
            /\ got' \in Seq(ArrivedSet) /\ got' # << >>
            /\ result' = Result(op, arg, got')
<1>0. got \in Seq(ArrivedSet) /\ input \in Seq(ArrivedSet)
  BY DEF TypeOK
<1>n. OVERFLOW < 0 /\ READ_TIMEOUT < 0 /\ READ_FAILED < 0 /\ UNKNOWN_ERROR < 0
  BY DEF OVERFLOW, READ_TIMEOUT, READ_FAILED, UNKNOWN_ERROR
<1>1. ASSUME NEW o \in Operations, NEW a \in Arguments, Reject(o, a)
      PROVE  phase' = "idle" /\ result' < 0
  <2>1. ArgumentError(o, a) \in -99 .. 0
    BY ArgumentErrorIsNegative
  <2> QED
    BY <1>1, <1>n, <2>1 DEF Reject, Return, STATUS_OK
<1>2. ASSUME (\E o \in Operations, a \in Arguments : Flush(o, a)) \/ Write
      PROVE  phase' # "idle"
  BY <1>2 DEF Flush, Write
<1>3. CASE TakeFrame
  <2> DEFINE f == Head(input)
  <2>1. f \in Elements(input) /\ f \in ArrivedSet
    BY <1>0, <1>3, TailElements DEF TakeFrame
  <2>2. f.type = "spoilt" => f.code < 0
    BY <2>1 DEF FramesAreHonest, IsHonest
  <2>3. Append(got, f) \in Seq(ArrivedSet) /\ Append(got, f) # << >>
    BY <1>0, <2>1, AppendElements
  <2>4. \/ f.type = "spoilt" /\ phase' = "idle" /\ result' = f.code
        \/ phase' = "idle" /\ result' = OVERFLOW
        \/ phase' = phase
        \/ got' = Append(got, f) /\ phase' = "idle" /\ result' = Result(op, arg, Append(got, f))
    BY <1>3 DEF TakeFrame, Finish, Return
  <2>5. phase = "reading" /\ UNCHANGED <<n, ops, arg, effect>>
    BY <1>3 DEF TakeFrame, module
  <2> HIDE DEF f
  <2> QED
    BY <1>n, <2>2, <2>3, <2>4, <2>5
<1>4. CASE Timeout
  BY <1>0, <1>4, <1>n DEF Timeout, Finish, Return, module
<1>5. CASE WriteFails \/ ReadFails
  BY <1>5, <1>n DEF WriteFails, ReadFails, Return
<1>6. CASE CarryOut \/ Refuse \/ Ignore \/ Arrive \/ Lose \/ UNCHANGED vars
  BY <1>6 DEF CarryOut, Refuse, Ignore, Arrive, Lose, vars, caller
<1> QED
  BY <1>1, <1>2, <1>3, <1>4, <1>5, <1>6 DEF Next, Writes, Reads

\* The last frame of a call.
LEMMA LastElement ==
  ASSUME NEW S, NEW s \in Seq(S), s # << >>
  PROVE  s[Len(s)] \in Elements(s) /\ s[Len(s)] \in S
<1>1. Len(s) \in 1 .. Len(s)
  BY TailElements
<1> QED
  BY <1>1, ElementOfSeq DEF Elements

\* ResultIsKnown and GettersKeepTheirKind: every check of an answer counts.
LEMMA KeepsResults ==
  ASSUME TypeOK, TypeOK', CallIsKnown, FramesAreHonest, FramesAreHonest',
         ResultIsKnown, GettersKeepTheirKind, [Next]_vars
  PROVE  ResultIsKnown' /\ GettersKeepTheirKind'
<1>1. CASE UNCHANGED <<n, ops, phase, got, result>>
  BY <1>1 DEF ResultIsKnown, GettersKeepTheirKind, Succeeded, op, IsRefusal, IsResponseFrame
<1>2. CASE phase' # "idle"
  BY <1>2 DEF ResultIsKnown, GettersKeepTheirKind, Succeeded
<1>3. CASE phase' = "idle" /\ result' < 0
  <2>1. result' \in Codes
    BY DEF TypeOK
  <2>2. result' \in Int
    BY <2>1 DEF Codes
  <2> QED
    BY <1>3, <2>2 DEF ResultIsKnown, GettersKeepTheirKind, Succeeded
<1>4. CASE /\ phase = "reading" /\ phase' = "idle" /\ UNCHANGED <<n, ops, arg, effect>>
           /\ got' \in Seq(ArrivedSet) /\ got' # << >>
           /\ result' = Result(op, arg, got')
  <2>1. PICK f \in Elements(got') : f = got'[Len(got')]
    BY <1>4, LastElement
  <2>2. IsHonest(f)'
    BY <2>1 DEF FramesAreHonest
  <2>3. ASSUME Succeeded',
               op' \in NumberGetters \cup ParameterGetters \cup {"read_tag_memory_area"}
        PROVE  CommandByte[ops'[got'[Len(got')].id]] = CommandByte[op']
    <3>1. op' = op /\ result' >= 0 /\ ~ IsRefusal(f)
      BY <1>4, <2>1, <2>3 DEF Succeeded, op
    <3>2. IsOk(f) /\ f.cmd = CommandByte[op]
      BY <1>4, <2>1, <2>3, <3>1, ValueIsOfItsKind
    <3> QED
      BY <2>1, <2>2, <3>1, <3>2 DEF IsHonest
  <2> QED
    BY <1>4, <2>3 DEF ResultIsKnown, GettersKeepTheirKind
<1> QED
  BY <1>1, <1>2, <1>3, <1>4, Outcomes

-----------------------------------------------------------------------------

\* Before the first call all of it holds.
LEMMA InitIInv == Init => IInv
<1> SUFFICES ASSUME Init PROVE IInv
  OBVIOUS
<1> USE BoundsAssumption DEF Init, BoundsAssumption
<1>1. /\ << >> \in Seq(ArrivedSet) /\ << >> \in Seq(FrameSet) /\ << >> \in Seq(Calls)
      /\ Len(<< >>) = 0 /\ Elements(<< >>) = {}
  BY EmptySeq, EmptyElements
<1>2. TypeOK
  <2>1. STATUS_OK \in Codes
    BY DEF STATUS_OK, Codes
  <2> QED
    BY <1>1, <2>1, ArgumentsAssumption DEF TypeOK, ArgumentsAssumption
<1>3. CallIsKnown /\ InputIsFresh /\ LineIsOwn /\ LineIsQuiet
  BY DEF CallIsKnown, InputIsFresh, LineIsOwn, LineIsQuiet
<1>4. PendingAreOpen
  BY <1>1 DEF PendingAreOpen, Sent, Calls
<1>5. FramesAreHonest
  BY <1>1 DEF FramesAreHonest
<1>6. FreshAnswers /\ OwnAnswers
  BY <1>1 DEF FreshAnswers, OwnAnswers
<1>7. ResultIsKnown /\ GettersKeepTheirKind
  BY DEF ResultIsKnown, GettersKeepTheirKind, Succeeded
<1> QED
  BY <1>2, <1>3, <1>4, <1>5, <1>6, <1>7 DEF IInv

\* The invariant is inductive.
LEMMA NextIInv == IInv /\ [Next]_vars => IInv'
<1> SUFFICES ASSUME IInv, [Next]_vars PROVE IInv'
  OBVIOUS
<1>1. TypeOK'
  BY KeepsType DEF IInv
<1>2. CallIsKnown'
  BY KeepsCall DEF IInv
<1>3. PendingAreOpen'
  BY KeepsPending DEF IInv
<1>4. FramesAreHonest'
  BY KeepsHonesty DEF IInv
<1>5. InputIsFresh' /\ FreshAnswers'
  BY KeepsFreshness DEF IInv
<1>6. LineIsOwn' /\ OwnAnswers' /\ LineIsQuiet'
  BY KeepsOwnership DEF IInv
<1>7. ResultIsKnown' /\ GettersKeepTheirKind'
  BY <1>1, <1>4, KeepsResults DEF IInv
<1> QED
  BY <1>1, <1>2, <1>3, <1>4, <1>5, <1>6, <1>7 DEF IInv

\* The invariant holds of every behaviour.
LEMMA SpecIInv == Spec => []IInv
<1>1. Init => IInv
  BY InitIInv
<1>2. IInv /\ [Next]_vars => IInv'
  BY NextIInv
<1> QED
  BY <1>1, <1>2, PTL DEF Spec

\* The variables keep their types, for any number of calls, tags and slots: no
\* answer is judged to be a code that yrm100_error.h does not know.
THEOREM TypeCorrect == Spec => []TypeOK
<1>1. IInv => TypeOK
  BY DEF IInv
<1> QED
  BY <1>1, SpecIInv, PTL

\* Whatever arrives late, is lost or is spoilt, a call uses nothing that was
\* in the port when it began: yrm100_serial_flush_input comes before the write
\* in yrm100_command_send.  A frame that comes between the two is kept.
THEOREM AnswersAreFresh == Spec => []FreshAnswers
<1>1. IInv => FreshAnswers
  BY DEF IInv
<1> QED
  BY <1>1, SpecIInv, PTL

\* However many calls timed out, failed or were cut short before it, a call
\* begun on a silent line uses its own answer alone.
THEOREM QuietLinesHeal == Spec => []OwnAnswers
<1>1. IInv => OwnAnswers
  BY DEF IInv
<1> QED
  BY <1>1, SpecIInv, PTL

\* Late answers included, no getter reports a value that answers a command of
\* another kind.
THEOREM ValuesKeepTheirKind == Spec => []GettersKeepTheirKind
<1>1. IInv => GettersKeepTheirKind
  BY DEF IInv
<1> QED
  BY <1>1, SpecIInv, PTL

-----------------------------------------------------------------------------
(* The abstract specification: each step is a step of DeviceApi or none.   *)

\* What arithmetic needs of the types.
LEMMA TypeFacts == TypeOK => n \in Nat /\ result \in Int /\ phase \in {"idle", "writing", "reading"}
<1> SUFFICES ASSUME TypeOK PROVE n \in Nat /\ result \in Int /\ phase \in {"idle", "writing", "reading"}
  OBVIOUS
<1>1. n \in Nat /\ phase \in {"idle", "writing", "reading"}
  BY BoundsAssumption DEF TypeOK, BoundsAssumption
<1>2. result \in Codes
  BY DEF TypeOK
<1>3. result \in Int
  BY <1>2 DEF Codes
<1> QED
  BY <1>1, <1>3

\* An error is a failure to the caller.
LEMMA VerdictOfError ==
  ASSUME phase = "idle", n \in Nat \ {0}, result \in Int, result < 0
  PROVE  Verdict = "failed"
  BY DEF Verdict, Succeeded

\* The call that returns takes its verdict from what the module did for it.
LEMMA VerdictIsTrue ==
  IInv /\ quiet /\ phase = "idle" /\ n > 0 =>
    Verdict \in {"failed"} \cup ({effect[n]} \ {"none"})
<1> SUFFICES ASSUME IInv, quiet, phase = "idle", n > 0
             PROVE  Verdict \in {"failed"} \cup ({effect[n]} \ {"none"})
  OBVIOUS
<1>0. n \in Nat /\ result \in Int
  BY TypeFacts DEF IInv
<1>1. CASE result < 0
  BY <1>0, <1>1, VerdictOfError
<1>2. CASE result >= 0
  <2>1. got # << >> /\ got \in Seq(ArrivedSet)
    BY <1>2 DEF IInv, ResultIsKnown, TypeOK
  <2>2. PICK f \in Elements(got) : f = got[Len(got)] /\ f \in ArrivedSet
    BY <2>1, LastElement
  <2>3. IsHonest(f) /\ f.type # "spoilt" /\ f.type \in FrameTypes
    BY <2>2 DEF IInv, FramesAreHonest, ArrivedSet
  <2>4. f.id = n
    BY <2>2 DEF IInv, OwnAnswers, Elements
  <2>5. CASE IsRefusal(f)
    <3>1. effect[n] = "refused"
      BY <2>3, <2>4, <2>5 DEF IsHonest
    <3>2. ~ Succeeded
      BY <2>1, <2>2, <2>5 DEF Succeeded
    <3> QED
      BY <1>0, <3>1, <3>2 DEF Verdict
  <2>6. CASE ~ IsRefusal(f)
    <3>1. effect[n] = "done"
      BY <2>3, <2>4, <2>6 DEF IsHonest, IsRefusal, IsOk, IsResponseFrame, FrameTypes
    <3>2. Succeeded
      BY <1>2, <2>2, <2>6 DEF Succeeded
    <3> QED
      BY <1>0, <3>1, <3>2 DEF Verdict
  <2> QED
    BY <2>5, <2>6
<1> QED
  BY <1>0, <1>1, <1>2

\* Initial states are initial states of DeviceApi.
LEMMA InitImplements == Init => Api!Init
<1> SUFFICES ASSUME Init PROVE Api!Init
  OBVIOUS
<1>1. Verdict = "none"
  BY DEF Init, Verdict
<1> QED
  BY <1>1 DEF Init, Api!Init, Api!Calls, Calls

\* Every step is a step of DeviceApi or changes nothing it shows.
LEMMA NextImplements ==
  ASSUME ~ Late, IInv, IInv', [Next]_vars
  PROVE  [Api!Next]_(Api!vars)
<1>0. /\ n \in Nat /\ n' \in Nat /\ result' \in Int /\ phase \in {"idle", "writing", "reading"}
      /\ TypeOK /\ TypeOK' /\ CallIsKnown /\ FramesAreHonest /\ PendingAreOpen
  <2>1. (TypeOK => n \in Nat /\ result \in Int /\ phase \in {"idle", "writing", "reading"})'
    BY TypeFacts, PTL
  <2> QED
    BY <2>1, TypeFacts DEF IInv
<1>1. ASSUME NEW o \in Operations, NEW a \in Arguments, Reject(o, a)
      PROVE  Api!Next
  <2>1. Begins(o, a) /\ phase' = "idle" /\ UNCHANGED effect
    BY <1>1 DEF Reject, Return, module
  <2>2. result' < 0
    BY <1>1, ArgumentErrorIsNegative DEF Reject, Return, STATUS_OK
  <2>3. n < MaxCalls /\ n' = n + 1 /\ phase = "idle"
    BY <2>1 DEF Begins
  <2>4. Verdict' = "failed"
    BY <1>0, <2>1, <2>2, <2>3 DEF Verdict, Succeeded
  <2> QED
    BY <2>1, <2>3, <2>4 DEF Api!Next, Api!Reject
<1>2. ASSUME NEW o \in Operations, NEW a \in Arguments, Flush(o, a)
      PROVE  Api!Next
  <2>1. phase = "idle" /\ n < MaxCalls /\ n' = n + 1 /\ phase' = "writing" /\ UNCHANGED effect
    BY <1>2 DEF Flush, Begins, module
  <2>2. Verdict' = "none"
    BY <1>0, <2>1 DEF Verdict, Succeeded
  <2> QED
    BY <2>1, <2>2 DEF Api!Next, Api!Begin
<1>3. ASSUME phase = "reading", UNCHANGED <<n, effect, quiet>>, phase' \in {"idle", "reading"}
      PROVE  [Api!Next]_(Api!vars)
  <2>1. CASE phase' = "reading"
    BY <1>0, <1>3, <2>1 DEF Api!vars, Verdict
  <2>2. CASE phase' = "idle"
    <3>1. quiet' /\ n' > 0
      BY <1>3 DEF IInv, LineIsQuiet, CallIsKnown
    <3>2. Verdict' \in {"failed"} \cup ({effect'[n']} \ {"none"})
      <4>1. (IInv /\ quiet /\ phase = "idle" /\ n > 0 =>
               Verdict \in {"failed"} \cup ({effect[n]} \ {"none"}))'
        BY VerdictIsTrue, PTL
      <4> QED
        BY <2>2, <3>1, <4>1
    <3> QED
      BY <1>3, <2>2, <3>2 DEF Api!Next, Api!Return
  <2> QED
    BY <1>3, <2>1, <2>2
<1>4. CASE TakeFrame \/ Timeout \/ ReadFails
  <2>1. phase = "reading" /\ UNCHANGED <<n, effect, quiet>>
    BY <1>4 DEF TakeFrame, Timeout, ReadFails, module
  <2>2. phase' \in {"idle", "reading"}
    BY <1>4, <2>1 DEF TakeFrame, Timeout, ReadFails, Finish, Return
  <2> QED
    BY <1>3, <2>1, <2>2
<1>w. CASE Write
  BY <1>w DEF Write, Api!vars, Verdict, Succeeded
<1>f. CASE WriteFails
  <2>1. phase = "writing" /\ phase' = "idle" /\ UNCHANGED <<n, effect>> /\ result' = UNKNOWN_ERROR
    BY <1>f DEF WriteFails, Return, module
  <2>2. n' > 0 /\ result' < 0
    BY <1>0, <2>1 DEF CallIsKnown, UNKNOWN_ERROR
  <2>3. Verdict' = "failed"
    BY <1>0, <2>1, <2>2 DEF Verdict, Succeeded
  <2> QED
    BY <2>1, <2>3 DEF Api!Next, Api!Return
<1>5. ASSUME UNCHANGED <<n, phase, got, result, effect>>
      PROVE  UNCHANGED Api!vars
  BY <1>5 DEF Api!vars, Verdict, Succeeded, IsRefusal, IsResponseFrame
<1>6. CASE CarryOut \/ Refuse
  <2> DEFINE i == Head(pending)
  <2>1. i \in Calls /\ i <= n /\ effect[i] = "none"
    BY <1>0, <1>6, ModuleFrames
  <2>2. \E e \in {"done", "refused"} : effect' = [effect EXCEPT ![i] = e]
    BY <1>6 DEF CarryOut, Refuse
  <2>3. UNCHANGED <<n, phase, got, result>>
    BY <1>6 DEF CarryOut, Refuse, caller
  <2>4. UNCHANGED Verdict
    BY <2>3 DEF Verdict, Succeeded, IsRefusal, IsResponseFrame
  <2> HIDE DEF i
  <2>5. Api!Act(i)
    BY <2>1, <2>2, <2>3, <2>4 DEF Api!Act
  <2> QED
    BY <2>1, <2>5 DEF Api!Next, Api!Calls, Calls
<1>7. CASE Ignore \/ Arrive \/ Lose \/ UNCHANGED vars
  BY <1>5, <1>7 DEF Ignore, Arrive, Lose, vars, caller, module
<1> QED
  BY <1>1, <1>2, <1>w, <1>f, <1>4, <1>6, <1>7 DEF Next, Writes, Reads

\* Where no answer comes after the next command, a verdict other than "failed"
\* is the module's own word on this call, for every operation, any number of
\* calls and whatever is lost or spoilt.
THEOREM VerdictsAreTheModules ==
  ASSUME ~ Late
  PROVE  Spec => ImplementsApi
<1>1. Init => Api!Init
  BY InitImplements
<1>2. IInv /\ IInv' /\ [Next]_vars => [Api!Next]_(Api!vars)
  BY NextImplements
<1> QED
  BY <1>1, <1>2, SpecIInv, PTL DEF Spec, ImplementsApi, Api!Spec

-----------------------------------------------------------------------------
(* What a caller may conclude from a success.                              *)

\* SuccessIsReal, of a call begun on a silent line.
QuietSuccessIsReal == quiet => SuccessIsReal

\* The change a function promises was made, where its success says so: only a
\* late answer can tell a caller otherwise.
THEOREM QuietSuccessesAreReal == Spec => []QuietSuccessIsReal
<1>1. IInv => QuietSuccessIsReal
  <2> SUFFICES ASSUME IInv, quiet, Succeeded PROVE effect[n] = "done"
    BY DEF QuietSuccessIsReal, SuccessIsReal
  <2>1. phase = "idle" /\ n > 0 /\ n \in Nat
    BY TypeFacts DEF Succeeded, IInv
  <2>2. Verdict = "done"
    BY <2>1 DEF Verdict
  <2> QED
    BY <2>1, <2>2, VerdictIsTrue
<1> QED
  BY <1>1, SpecIInv, PTL

\* Where no answer comes after the next command every call is such a call, and
\* SuccessIsReal holds: the late answer of its counterexample is the one cause.
THEOREM TimelySuccessesAreReal ==
  ASSUME ~ Late
  PROVE  Spec => []SuccessIsReal
<1>1. Init => quiet
  BY DEF Init
<1>2. quiet /\ [Next]_vars => quiet'
  BY DEF Next, Writes, Reads, Reject, Flush, Write, WriteFails, TakeFrame, Timeout, ReadFails,
         CarryOut, Refuse, Ignore, Arrive, Lose, vars, caller
<1>3. QuietSuccessIsReal /\ quiet => SuccessIsReal
  BY DEF QuietSuccessIsReal
<1> QED
  BY <1>1, <1>2, <1>3, QuietSuccessesAreReal, PTL DEF Spec

\* The error codes that are read are the module's.
RefusalsAreCoded ==
  \A f \in Elements(wire) \cup Elements(input) \cup Elements(got) :
    IsRefusal(f) => f.code \in ModuleErrors

\* A call to change something that ends with a refusal returns its code.
RefusalIsReturned ==
  phase = "idle" /\ n > 0 /\ op \in Setters /\ result >= 0 /\ IsRefusal(got[Len(got)]) =>
    result = got[Len(got)].code

\* What the caller sees: 0 was returned, and the change was made.
ZeroMeansDone ==
  phase = "idle" /\ n > 0 /\ op \in Setters /\ quiet /\ result = STATUS_OK =>
    effect[n] = "done"

\* RefusalsAreCoded: a code is read as it was sent, or the frame is spoilt.
LEMMA KeepsCodes ==
  ASSUME TypeOK, CallIsKnown, PendingAreOpen, RefusalsAreCoded, [Next]_vars
  PROVE  RefusalsAreCoded'
<1> DEFINE Now == Elements(wire) \cup Elements(input) \cup Elements(got)
           Then == Elements(wire') \cup Elements(input') \cup Elements(got')
<1>1. ASSUME \A f \in Then : f \in Now \/ ~ IsRefusal(f) \/ f.code \in ModuleErrors
      PROVE  RefusalsAreCoded'
  BY <1>1 DEF RefusalsAreCoded
<1>2. ASSUME NEW o \in Operations, NEW a \in Arguments, Reject(o, a) \/ Flush(o, a)
      PROVE  RefusalsAreCoded'
  <2>1. wire' = wire /\ got' = << >> /\ (input' = input \/ input' = << >>)
    BY <1>2 DEF Reject, Flush, Begins, Flushed, module
  <2> QED
    BY <1>1, <2>1, EmptyElements
<1>3. CASE TakeFrame
  BY <1>1, <1>3, TakenFrames DEF TakeFrame, module
<1>4. CASE CarryOut \/ Refuse
  <2> DEFINE i == Head(pending)
  <2>1. /\ CarryOut => \A f \in Elements(wire') : f \in Elements(wire) \/ f \in AnswersOf(i)
        /\ Refuse => \A f \in Elements(wire') :
             f \in Elements(wire) \/ (f.id = i /\ IsRefusal(f) /\ f.code \in ModuleErrors)
    BY <1>4, ModuleFrames
  <2> HIDE DEF i
  <2>2. \A f \in AnswersOf(i) : ~ IsRefusal(f)
    BY DEF AnswersOf, IsRefusal, IsResponseFrame
  <2>3. UNCHANGED <<input, got>>
    BY <1>4 DEF CarryOut, Refuse, caller
  <2> QED
    BY <1>1, <1>4, <2>1, <2>2, <2>3
<1>5. CASE Arrive
  <2>1. PICK f \in Elements(wire), g \in ArrivedSet :
              /\ Elements(input') = Elements(input) \cup {g}
              /\ \/ g.type = f.type /\ g.cmd = f.cmd /\ g.code = f.code
                 \/ g.type = "spoilt" /\ g.code < 0
    BY <1>5, ArriveFrames
  <2>2. IsRefusal(g) => g.code \in ModuleErrors
    BY <2>1 DEF RefusalsAreCoded, IsRefusal, IsResponseFrame
  <2>3. got' = got /\ Elements(wire') \subseteq Elements(wire)
    BY <1>5, ArriveFrames DEF Arrive, caller
  <2> QED
    BY <1>1, <2>1, <2>2, <2>3
<1>6. CASE Lose
  <2>1. UNCHANGED <<got, input>> /\ Elements(wire') \subseteq Elements(wire)
    BY <1>6, TailElements DEF Lose, TypeOK, caller
  <2> QED
    BY <1>1, <2>1
<1>7. CASE Write \/ WriteFails \/ Timeout \/ ReadFails \/ Ignore \/ UNCHANGED vars
  <2>1. UNCHANGED <<got, input, wire>>
    BY <1>7 DEF Write, WriteFails, Timeout, ReadFails, Ignore, vars, caller, module
  <2> QED
    BY <1>1, <2>1
<1> QED
  BY <1>2, <1>3, <1>4, <1>5, <1>6, <1>7 DEF Next, Writes, Reads

\* A refusal is returned as its code by all that look at one.
LEMMA RefusalHasItsCode ==
  ASSUME NEW o \in Setters, NEW a, NEW frames \in Seq(ArrivedSet), frames # << >>,
         IsRefusal(frames[Len(frames)]), Result(o, a, frames) >= 0
  PROVE  Result(o, a, frames) = frames[Len(frames)].code
<1>1. Result(o, a, frames) = CommandResult(o, a, frames)
  BY DEF Result, Setters
<1>2. IsSingle(frames)
  BY <1>1 DEF CommandResult, COMMAND_FAILED, UNKNOWN_ERROR
<1>3. frames[1] = frames[Len(frames)]
  BY <1>2 DEF IsSingle
<1>4. ~ IsOk(frames[1])
  BY <1>3 DEF IsOk, IsRefusal
<1> QED
  BY <1>1, <1>2, <1>3, <1>4 DEF CommandResult, COMMAND_FAILED, UNKNOWN_ERROR

\* RefusalIsReturned: only a call that returns sets a result.
LEMMA KeepsRefusal ==
  ASSUME TypeOK, TypeOK', CallIsKnown, FramesAreHonest, RefusalIsReturned, [Next]_vars
  PROVE  RefusalIsReturned'
<1>1. CASE UNCHANGED <<n, ops, phase, got, result>>
  BY <1>1 DEF RefusalIsReturned, op, IsRefusal, IsResponseFrame
<1>2. CASE phase' # "idle"
  BY <1>2 DEF RefusalIsReturned
<1>3. CASE phase' = "idle" /\ result' < 0
  <2>1. result' \in Codes
    BY DEF TypeOK
  <2>2. result' \in Int
    BY <2>1 DEF Codes
  <2> QED
    BY <1>3, <2>2 DEF RefusalIsReturned
<1>4. CASE /\ phase = "reading" /\ phase' = "idle" /\ UNCHANGED <<n, ops, arg, effect>>
           /\ got' \in Seq(ArrivedSet) /\ got' # << >>
           /\ result' = Result(op, arg, got')
  <2>1. op' = op
    BY <1>4 DEF op
  <2> SUFFICES ASSUME op \in Setters, result' >= 0, IsRefusal(got'[Len(got')])
               PROVE  result' = got'[Len(got')].code
    BY <2>1 DEF RefusalIsReturned, IsRefusal, IsResponseFrame
  <2> QED
    BY <1>4, RefusalHasItsCode
<1> QED
  BY <1>1, <1>2, <1>3, <1>4, Outcomes

\* A refused change never returns 0 to a caller whose line was silent, unless
\* the module sends an error frame of code 0: that frame is the one gap
\* (yrm100_parse.c, yrm100_parse_get_error_code).
THEOREM ZerosAreReal ==
  ASSUME 0 \notin ModuleErrors
  PROVE  Spec => []ZeroMeansDone
<1> DEFINE J == RefusalsAreCoded /\ RefusalIsReturned
<1>1. Init => J
  BY EmptyElements DEF Init, RefusalsAreCoded, RefusalIsReturned
<1>2. IInv /\ IInv' /\ J /\ [Next]_vars => J'
  BY KeepsCodes, KeepsRefusal DEF IInv
<1>3. IInv /\ J => ZeroMeansDone
  <2> SUFFICES ASSUME IInv, J, phase = "idle", n > 0, op \in Setters, quiet, result = STATUS_OK
               PROVE  effect[n] = "done"
    BY DEF ZeroMeansDone
  <2>1. result >= 0 /\ result = 0
    BY DEF STATUS_OK
  <2>2. got # << >> /\ got \in Seq(ArrivedSet)
    BY <2>1 DEF IInv, ResultIsKnown, TypeOK
  <2>3. ~ IsRefusal(got[Len(got)])
    <3>1. got[Len(got)] \in Elements(got)
      BY <2>2, LastElement
    <3>2. ASSUME IsRefusal(got[Len(got)]) PROVE FALSE
      BY <2>1, <3>1, <3>2 DEF RefusalsAreCoded, RefusalIsReturned
    <3> QED
      BY <3>2
  <2>4. Succeeded
    BY <2>1, <2>3 DEF Succeeded
  <2>5. n \in Nat
    BY TypeFacts DEF IInv
  <2>6. Verdict = "done"
    BY <2>4, <2>5 DEF Verdict
  <2> QED
    BY <2>6, VerdictIsTrue
<1> QED
  BY <1>1, <1>2, <1>3, SpecIInv, PTL DEF Spec

-----------------------------------------------------------------------------
(* How long a call can last.                                               *)

\* Frames the call may still look at, the one that ends it included.
FramesLeft == IF phase = "reading" THEN Capacity + 1 - Len(got) ELSE 0

\* While a call reads, nothing the module or the line does adds to its frames,
\* and each of its own steps leaves it fewer.
ReadsCount ==
  [][phase = "reading" =>
       /\ FramesLeft \in 1 .. Capacity + 1
       /\ 0 <= FramesLeft' /\ FramesLeft' <= FramesLeft
       /\ Reads \/ ReadFails => FramesLeft' < FramesLeft]_vars

\* A call looks at no more frames than its buffer holds notices, and one: a
\* module that goes on sending cannot keep it (the loop of
\* yrm100_command_read_response, yrm100_command.c).
THEOREM CallsAreShort == Spec => ReadsCount
<1> DEFINE Counts ==
      phase = "reading" =>
       /\ FramesLeft \in 1 .. Capacity + 1
       /\ 0 <= FramesLeft' /\ FramesLeft' <= FramesLeft
       /\ Reads \/ ReadFails => FramesLeft' < FramesLeft
<1>1. IInv /\ [Next]_vars => [Counts]_vars
  <2> SUFFICES ASSUME IInv, Next, phase = "reading" PROVE Counts
    OBVIOUS
  <2>1. Len(got) \in Nat /\ Capacity \in Nat /\ Len(got) <= Capacity
    <3>1. got \in Seq(ArrivedSet) /\ Len(got) <= Capacity
      BY DEF IInv, TypeOK, CallIsKnown
    <3>2. Len(got) \in Nat
      BY <3>1, LenProperties
    <3> QED
      BY <3>1, <3>2, BoundsAssumption
  <2>2. FramesLeft \in 1 .. Capacity + 1 /\ FramesLeft = Capacity + 1 - Len(got)
    BY <2>1 DEF FramesLeft
  <2>3. ASSUME phase' = "idle" PROVE Counts
    BY <2>1, <2>2, <2>3 DEF FramesLeft
  <2>4. ASSUME NEW f \in ArrivedSet, HasRoom(got), got' = Append(got, f), phase' = "reading"
        PROVE  Counts
    <3>1. Len(got') = Len(got) + 1
      BY <2>4, AppendElements DEF IInv, TypeOK
    <3>2. Len(got) < Capacity
      BY <2>4 DEF HasRoom
    <3>3. FramesLeft' = Capacity + 1 - Len(got')
      BY <2>4 DEF FramesLeft
    <3> QED
      BY <2>1, <2>2, <3>1, <3>2, <3>3
  <2>5. CASE TakeFrame
    <3>1. Head(input) \in ArrivedSet
      BY <2>5, TailElements DEF TakeFrame, IInv, TypeOK
    <3> QED
      BY <2>3, <2>4, <2>5, <3>1 DEF TakeFrame, Return, Finish
  <2>6. CASE Timeout \/ ReadFails
    BY <2>3, <2>6 DEF Timeout, ReadFails, Return, Finish
  <2>7. ASSUME CarryOut \/ Refuse \/ Ignore \/ Arrive \/ Lose, ~ (Reads \/ ReadFails)
        PROVE  Counts
    <3>1. UNCHANGED <<phase, got>>
      BY <2>7 DEF CarryOut, Refuse, Ignore, Arrive, Lose, caller
    <3>2. FramesLeft' = FramesLeft
      BY <3>1 DEF FramesLeft
    <3> QED
      BY <2>1, <2>2, <2>7, <3>2
  <2>8. CASE (\E o \in Operations, a \in Arguments : Reject(o, a) \/ Flush(o, a)) \/ Writes
    BY <2>8 DEF Reject, Flush, Begins, Writes, Write, WriteFails
  <2> QED
    BY <2>5, <2>6, <2>7, <2>8 DEF Next, Reads
<1>2. [][Counts]_vars => ReadsCount
  BY DEF ReadsCount
<1> QED
  BY <1>1, <1>2, SpecIInv, PTL DEF Spec

=============================================================================
