# Verification of yrm100lib

TLA+ specifications of yrm100lib, a C library for UHF RFID readers of the YRM100
(MagicRF M100) family, and of the two scanner programs built on it. TLC checks the
specifications on small instances; TLAPS proves theorems about them for every
value of their constants. Paths below are relative to the repository; file names
without a path are under `src/yrm100/`.

## The system

| Component | Code | State | Operations | Module |
| --- | --- | --- | --- | --- |
| Frame codec | `yrm100_frame.c` | none | predicates on frames, checksum | `Frame` |
| Answer reader | `yrm100_command.c` 68-267 | response buffer, cursors | `yrm100_command_read_response` | `Receive` |
| Commands | `yrm100_command.c` 16-66, 304-1136 | last error code; the input queue of the port | 19 operations: flush, write, read an answer, judge it | `Command` |
| Answer parsing | `yrm100_parse.c` | tags of the caller | texts, polls, tag memory, error codes | `Command` (length checks), `TagMemory` |
| Scanner | `src/scanner.c` | `should_stop`, socket, client, tags, output flags | poll, print, stop | `Scanner` |
| Double scanner | `src/doublescanner.c` | the same, two readers and one tag buffer | the same, readers in turn | `DoubleScanner` |
| Context, tag buffers | `yrm100.c`, `yrm100_util.c` | port, heap memory | init, deinit, reset, free | `TagMemory` |
| Parameters | `yrm100_param.c`, packing in `yrm100_command.c` 269-302 and in the setters and getters | the settings kept by the module | valid values, bit fields, clamping | `Settings` |
| Serial port | `yrm100_serial.c` | termios | open, configure, read, write, flush | as seen by its callers |
| Texts | `yrm100_string.c`, `yrm100_print.c`, `yrm100_error.c` | none | formatting | not modelled |
| Example, deployment, tests | `src/example.c`, `deploy/`, `tests/` | - | - | not modelled |

How they interact. A program (scanner, double scanner, example) calls the
library; the library is synchronous and keeps no threads. An operation flushes
the port's input, writes one command frame, sleeps 75 ms and reads one answer:
zero or more notice frames and, mostly, a response frame. The module on the other
end of the line works in its own time. The port is configured with VMIN 0 and
VTIME 3: a read returns some bytes, or none after 0.3 s. Signals reach the
scanner between any two of its steps and interrupt blocking calls (the handlers
are installed without SA_RESTART).

What is hard:

- **Framing.** The reader collects frames from chunks of any size in one buffer,
  with unsigned index arithmetic, moves bytes within the buffer to drop noise,
  and gives silence three different meanings.
- **Matching answers to calls.** Frames carry no sequence number. A call that
  has timed out leaves an answer behind that the next call may meet.
- **Stopping.** A signal may come between a check of the flag and the blocking
  call it guards, while the output is full, or while a command's answer is read.
- **Leaving.** The scanner returns from six places with different things open,
  and shares its socket path and its stdout with other programs.
- **Two readers.** Each module works in its own time: one may still carry out a
  poll that the host has given up while the other one is polled, and both fill
  the same tag buffer. Either may fail to open, or fail every poll.
- **Settings out of sight.** A setter may fail after the module has carried it
  out, and what it asks for is cut to the bits the line has room for.
- **Memory.** A tag's data is allocated by one call and freed by several others,
  in any order; `yrm100_init` can fail at four places with different things made.

What makes each component correct:

- Answer reader: indices stay in bounds; the buffer holds the answer whatever
  the chunks; the result is what the bytes mean; accepted frames stay; it returns.
- Commands: nothing that arrived before a command's flush is used for it; a silent
  line heals; getters take values of their own kind only; a verdict other than
  "failed" is the module's own word on that call, as long as no answer is late.
- Scanner: lines are written whole, tags come from the poll just made, a signal
  stops the process after at most one more write, nothing is left behind.
- Double scanner: the same, and a tag is printed for the module that reported it,
  a broken reader does not keep the other from its turn, and two fields are on at
  once only while a module outlasts its timeout.
- Context and tags: nothing leaks or is freed twice, `data_length` is the size of
  `data`, tags side by side are of one poll, data stays with the tag it was read from.
- Parameters: whatever fails, a caller can tell which settings the module may
  have; they are legal; packing loses nothing the line has room for.

`PROJECT.json` lists the hazards of the code line by line, with the properties
that would catch them going wrong.

## The modules

```
Frame  <--  Receive  <--  MCReceive
  ^            ^--------  ReceiveProofs  <--  MeaningProofs
  |                                                ^
  |                            LeastElement  <-----+---- CommandProofs
  |
  +-------  Command  <--  MCCommand          DeviceApi  (what Command implements)
               ^--------  CommandProofs

Scanner        <--  MCScanner,       ScannerProofs
DoubleScanner  <--  MCDoubleScanner, DoubleScannerProofs
Settings       <--  MCSettings,      SettingsProofs
TagMemory      <--  MCTagMemory,     TagMemoryProofs
```

`Frame` and `Receive` work on bytes. `Command` takes whole frames for granted:
what is proved of `Receive` (a call that succeeds has judged every frame it hands
on, `SuccessesAreFrames`, and its result is the meaning of the bytes,
`ReturnsMeaning`) is what `Command` assumes of the frames it takes one by one.
`Scanner` takes a poll for one step with the outcomes `Command` gives it;
`DoubleScanner` takes it for two, the command and the answer, with the module in
between, and a line for one. `Settings` and `TagMemory` look at what the calls
that `Command` judges carry, into the module and into the caller's memory.

Operators whose names begin with `Mut` are faulty variants of the definitions
they stand next to; each one is what the code would do with a plausible mistake
in it. No specification uses them: put in the place of the original they make a
property fail, which shows that the property can tell the code from its faults.

### Frame

A frame is a sequence of bytes; the predicates and the checksum are the ones of
`yrm100_frame.c`, with `buf[i]` written `f[i + 1]`. NULL buffers are left out: no
caller within the library passes one.

### Receive

The variables are the locals of `yrm100_command_read_response` with their
names, the buffer, and the line. `line` is what the module sends during the call,
`taken` how much of it has been read. One action per way through the loop's body:

| Action | Lines | |
| --- | --- | --- |
| `ExpectFrame` | 150-163 | the prefix announces a size that fits, does not fit, or is of no known frame |
| `CompleteFrame` | 165-181 | a broken frame ends the call, a response ends the answer, a notice goes on |
| `BufferFull` | 183-186 | |
| `Read(n)` | 187-249 | n bytes arrive, noise is skipped (`Resync`), the type is looked at |
| `Timeout` | 197-212 | silence |
| `ReadError` | 193-196 | failure or interruption of the read |

`read_size` is unsigned in the code; `ChunkSize` says what a wrap-around would
come to, and `InBounds` that there is none. `Meaning` is a reference definition
of what an answer means, written over the bytes and without cursors
(`MeaningAt` one frame, `SilenceAfter` a line that falls silent between two,
`MeaningFrom` the recursion), against which the loop is checked. Lines 252-259 print and are left out.

### Command and DeviceApi

State: the caller's view (current call, its argument, frames read, result,
`last_error_code`), the port's input queue, and the module with the line. A
frame is a record with its type, command byte, payload size, code, and the call
it answers; the last field is seen by properties only. `Flush` and `Write` are
`yrm100_command_send`: what arrives after `tcflush` (line 44) and before the port
has taken the command (lines 45-58) stays in the port and may be used as its answer.
`TakeFrame`, `Timeout` and `ReadFails` are the reader seen frame by frame, and
`Result` is what each operation makes of the frames: by their kind (`TextGetters`,
`NumberGetters`, `ParameterGetters`, `QuietOperations`, `Setters`, the poll and the
memory read). `Reject` and `WriteFails` are the calls that end before there is an
answer. `OkResult` leaves out two more ways to an error, a text longer than 127
bytes and a memory read that finds no memory.

The module and the line are not in the repository. They are modelled as the code
uses them: a command is carried out, refused or ignored; frames arrive in order,
late, spoilt (a bad checksum or end byte), or never. With `Late = FALSE` the
next call flushes only when nothing of the last one is under way, which is
what the timeouts assume of a module that works.

`DeviceApi` is what a caller may rely on: each call ends with a verdict, and
"done" or "refused" is the module's own word on that very call. `Command`
implements it (`ImplementsApi`), with `Verdict` as the refinement mapping, when
answers are not late.

### Scanner

The process from the installed handlers on: `pc` names the places between two
steps at which a signal or another program can make a difference. Start (open,
configure, check the path, bind), the loops of `main` (`AcceptLoop`, `Accept`,
`Block`, `ServeLoop`, `Pause`), `scan_for_tags` (`Poll`, `PrintSlot`,
`NextPart`), `write_all` (`SetNonblocking`, `CheckStop`, `Write`,
`WriteWouldBlock`, `Wait`, `RestoreAndGoOn`, `RestoreAndEnd`), the end (`Close`,
`ShutdownReader`). `pc = "accept"` is the moment between the check of
`should_stop` and the system call, `"accepting"` the sleep in it. In debug mode
`"announce"` stands for the `printf` and `fflush` of lines 373-374, on a stdout
that is blocking there, and `"announcing"` for the sleep in them while stdout is
full (`AnnounceBlocks`): it ends when stdout is read (`StdoutIsRead`, external) or a
signal cuts the write short (`CutsShort`).
`Signal`, `Connect`, `Disconnect`, `OtherTakesPath` and `OtherRemovesSocket` are
the surroundings. `column` and `torn` follow what a reader of an output sees.
The restoring `fcntl` of line 213 is taken to work, since the same call has
worked on the same descriptor at line 165. Text printed on stderr is left out, and
that stderr takes it is taken for granted.

### DoubleScanner

The same process for `ModuleCount` readers: `OpenModule` and `ConfigureModule`
are the loop of `open_modules`, `SendPoll`, the three answers, `PollFails` and
`NextModule` the round of `scan_all_modules`, `ShutdownModule` a step of
`shutdown_modules`, which starts with the first module whichever one has failed.
`Announce` and `AnnounceBlocks` are the blocking `printf` and `fflush` of the
settings (lines 391-392, in every mode) and of a client (436-437, in debug mode).
A line is one step (`LineTaken`, `LineFails`, `LineStopped`): bytes and flags are in
`Scanner`.

`CheckPath` is the look at the socket path, `CreateServer` and `CreateServerFails`
what comes after it. Between any two steps other programs may put something there
(`OtherTakesPath`) or take the process's socket away (`OtherRemovesSocket`). `path`
says whose it is: this process's (`"ours"`), a killed one's (`"stale"`), or another
program's, made before the check (`"older"`) or after it (`"newer"`); a restart
makes a newer one an older one. What is newer is unlinked when `bind` or `listen`
fails (line 112) and at the end (line 452), whoever made it.

Each module is a process of its own: `working` is the set of modules that carry
out the poll last sent to them, `overdue` counts earlier polls they have not
finished, and `Field(m)` says that the antenna of `m` is on. When the host gives
a poll up, because of silence, a spoilt answer or a signal, the module goes on
(`Abandons`), and its answer may come while the next poll's is awaited
(`OverdueAnswer`), or after some notices and a silence that the reader took for
the end (`AnswerOfNotices`). `Kill` ends the process anywhere and leaves the
socket file and the modules as they are; `Restart` is the service manager's.

### TagMemory

The heap is `size`, the bytes of each block; `malloc` picks any free block or
fails, and `free` remembers in `sound` whether the block was live. `yrm100_init`
is four steps, `InitFails` its way out after each of them. A poll, a memory read,
a reset and `yrm100_free_tag_data` are one step each, since nothing runs between
their lines; inside the memory read the order matters (the new block first, then
the reset) and is in the formula. Polls and memory reads that fail, and polls that
find no tag, return before they touch heap or tags and are steps that change
nothing. `ReadMemory` also says where in the frame the
copied bytes come from (`DataBytes`), since its length check admits answers that
are one byte short.

### Settings

The module's settings are the external half of the state, kept as the payloads
they travel in. A setter succeeds, or it fails and the module has or has not
carried it out. `selectBelief`, `regionBelief` and `powerBelief` are what a
caller who knows only the results of the calls must expect; a getter that
succeeds settles them. `PackSelect`, `SelectOf`, `PackQuery`, `UnpackQuery`,
`PointerBytes` and `Clamped` are the code's arithmetic on bytes.

## The runs

| Run | Instance | Shows |
| --- | --- | --- |
| `receive` | buffer of 56 bytes, answers of up to three pieces, two leftovers in the buffer | `InBounds`, `BufferHoldsAnswer`, `ResultIsMeaning`, `AcceptedFramesStay`, `Returns` |
| `command_late` | two calls, one operation of each kind, every argument, late answers | `GettersKeepTheirKind`, `FreshAnswers`, `OwnAnswers`, `CallsReturn` |
| `command_api` | two calls, all operations, no late answers | `ImplementsApi` |
| `getter_sign` | one call | **violated:** `GetterErrorsAreNegative` |
| `late_answer` | two calls, late answers | **violated:** `SuccessIsReal` |
| `scanner` | three modes, two tags, two signals, two clients | `LeavesNothing`, `WholeLines`, `FreshTags`, `AtMostOneLateWrite`, `FlagsAreRestored`, `OlderPathIsKept`, `HeardSignalEnds`, `GoneClientIsDropped` |
| `scanner_missed_signal` | one signal | **violated:** `EverySignalEnds` |
| `scanner_exit_status` | one signal | **violated:** `SignalExitIsClean` |
| `double_scanner` | three modes, two modules, two tags, one overdue poll each, one kill, other programs at the path | `LeavesNothing`, `TagsAreTheModules`, `OverlapsAreOverdue`, `LatePollsAreFew`, `HeardSignalEnds`, `EveryModuleIsPolled`, `LeftoverIsRefused` |
| `double_fields` | stdout mode, one tag | **violated:** `FieldsNeverOverlap` |
| `tag_memory` | five blocks, two tags, three notices, three words | `HeapIsOwned`, `FreesAreSound`, `LengthMatchesData`, `CopiedIsAnswer`, `TagsAreOfOnePoll`, `DataIsOfItsTag` |
| `settings` | three calls, values at and beyond every limit | `CallersKnow`, `SettingsAreLegal`, `QueryReadsBack` |

Each passing run but `command_api` also checks its module's `TypeOK`.

The five violated properties are what a header, a comment or `deploy/README.md`
says of the program, and the runs show executions of the code that do otherwise:

- `getter_sign`: `yrm100_command.h` (118, 133) promises a negative value for an
  error; the module's error code comes back as a positive number.
- `late_answer`: `yrm100_command.h` (200) promises 0 on success; a poll that
  was given up, because its read timed out or failed, is answered after `kill` was
  sent, and `kill` takes that OK for its own.
- `scanner_missed_signal`: `deploy/README.md` (156) says SIGTERM shuts the
  scanner down; between lines 358 and 360 of `scanner.c` it does not.
- `scanner_exit_status`: `deploy/README.md` (159) says a signal-driven stop exits
  zero; during the configuration of the reader it does not.
- `double_fields`: the comment at `doublescanner.c` 306-307 says the fields never
  overlap; a poll that has timed out at the host (line 310) may go on in its module
  while the next one is polled. `OverlapsAreOverdue` says that this is the only way.

All runs say `CHECK_DEADLOCK FALSE`: a call that has returned, a bounded number
of calls that are over, and a process that has exited are ends, not deadlocks; a
heap can be full. `Returns`, `CallsReturn` and `HeardSignalEnds` are what rules
out being stuck.

**Bounds and why they are enough.** In `Receive` nothing depends on the size of
the buffer but the comparisons with it; 56 bytes hold two notices of 24 and a
response of 8 exactly, so that answers that just fit, overflow at the size check
and overflow when full all occur, and the proofs cover every size. Three pieces
let a frame, noise and another frame follow in every order; the tag's EPC holds a
header and an end byte, so that resynchronising inside a frame would be seen. In
`Command` two calls are enough for one answer to meet another call and for a
silent line to give the second call its own; what more calls bring is covered by
the theorems. One notice of capacity makes overflow occur. In `Scanner` two tags of
two bytes give partial writes within an EPC, between EPC and newline, and between
lines; two signals give one that is missed
and one that is heard; two waiting clients give one served and one in the
backlog. In `DoubleScanner` two modules are what the program has; one poll
overdue beside the last one makes answers fall out of step, and one kill gives a
restart that finds a stale path or another program's file, and busy modules. In `TagMemory` a context, its
name and two tags fill four of the five blocks, so that a memory read may find
the heap full and may find room with all pointers in use; blocks are alike, hence
the symmetry (the run has no liveness property). Three notices are more than the
two slots, and answers range from too short to one word too long. In `Settings`
three calls give two failures and a read. Powers, regions, modes and bit fields
take values on, inside and outside each limit.
`MaxCalls`, `MaxTags`, `MaxSignals`, `MaxWaiting`, `MaxNotices`, `MaxWords`,
`MaxOverdue` and `MaxKills` are bounds of the instances, in guards of the caller
and the surroundings only; past `MaxOverdue` a module drops the command.

**Fairness.** `Receive` assumes weak fairness of the loop, `Command` of the write of
a command (`Writes`: the port is configured without flow control) and of its reads
(`Reads`), both of the reads of the port: a read returns, with bytes or, after VTIME,
without any. Nothing is assumed of a port that fails. `Command` assumes nothing of the module
and the line, `Scanner` nothing of signals, clients, outputs and other programs:
each may stay away or silent for ever. `Scanner` assumes weak fairness of the
process's own steps, which covers the bounded waits (the 100 ms of `poll`, the
interval, a poll's timeouts) and covers neither the sleep in `accept` nor the one in
`printf` and `fflush` on a full stdout. `HeardSignalEnds` of both programs and
`LeftoverIsRefused` therefore have a premise: stdout takes at last what is printed
there (`[]<> (pc # "announcing")`). Without it TLC finds a process that was asked to
stop asleep over what it announces.
`GoneClientIsDropped` has a premise of its own, that tags are seen again and
again: without tags nothing is written and a client that has gone stays.
`DoubleScanner` assumes weak fairness of the process's own steps (`Steps`) and
nothing of modules, clients, outputs, kills and restarts; `PollFails` is among
those steps because a read of the port ends after VTIME. `EveryModuleIsPolled`
has premises: the rounds go on (module 0 is polled again and again) and the
output does not break. `Settings` and `TagMemory` have no fairness and no
liveness: nothing obliges a caller to call.

## What is proved

`ReceiveProofs` proves, for every buffer size, every set of byte streams and
every content the buffer may start with:

- `TypeCorrect`: `Spec => []TypeOK`.
- `StaysInBounds`: `Spec => []InBounds`. No index leaves the buffer and the
  unsigned differences of lines 144 and 162 never wrap around.
- `AcceptedFramesAreKept`: `Spec => AcceptedFramesStay`.
- `AnswerIsHeld`: `Spec => []BufferHoldsAnswer`. The buffer holds what has been
  read from the first header byte on, and nothing else.

The assumptions are those of `Receive`: the size is positive, streams are
sequences of bytes, leftovers are buffers of bytes. The argument: `InBounds`
alone is not inductive. A read is limited by `expected_total`, so it must be
known that this is the end the current frame's own prefix announces, and that
noise is never skipped within a frame whose end is known. `IInv` adds both:
`Headed` (the bytes in use begin with a header byte, and so does the current
frame) and `Sized` (the current frame has no more bytes than it announces; a
known end is the one announced). With `Headed`, a read can skip bytes only while
fewer than a whole prefix has been collected, and a move within the buffer
happens only when nothing has been accepted. Lemmas say what a read may add
(`ReadFits`), that it writes behind the bytes in use (`AppendedBehind`), what the
move leaves (`MovedIsBuffer`) and what a prefix announces (`AnnouncedSize`,
`ExpectedIsAnnounced`); one lemma per action shows that it keeps `IInv`, and
`NextIInv` and `SpecIInv` put them together. For `AnswerIsHeld` a second
invariant, `Held`, says the same index by index: the bytes in use are the last
ones taken from the line, and those dropped before them have no header byte. It
needs `IInv`: only there is it known that bytes are dropped from an empty buffer.
`CallsAreBounded` gives each state a `Rank`, four for each byte left on the line
and up to three for the phase of the current frame, and shows that every step
lowers it: the loop takes no turn in which it neither reads nor gets on.

`MeaningProofs` goes on from there, under the same assumptions:

- `ReturnsMeaning`: `Spec => []ResultIsMeaning`. Whatever the call returns, short
  of a failing port, is what the bytes read mean, for every stream, chunking,
  buffer size and leftover.
- `SuccessesAreFrames`: `Spec => []SuccessIsFrames`. A call that returns a length
  has found valid notices and at most one valid response, which comes last;
  every header byte it keeps lies in one of them. This is the input that
  `yrm100_parse.c` and the module `Command` take for granted.
- `OneByteErrorsAreFound`: two valid frames of one length never differ in exactly
  one byte, so a frame with one byte spoilt is not taken for the one sent.

`Meaning` and the checksum are recursive functions over the bytes, and the
library's induction theorems cannot be used here. They are treated without them:
the equations of `Sums` can be met up to every index, or there is a least index up
to which they cannot, and a solution up to the one before is extended by a step;
those of `MeaningFrom` likewise, from the end of the answer backwards (`SumsExist`,
`MeaningExists`, from `LeastNatural` in `LeastElement`, which follows from the
library's fact that < is well founded). After that each is unfolded where the
loop needs it: `SumsUnfold`, `MeaningUnfolds`. The invariant `Tracked` ties the
loop to it: while it reads, the meaning of the whole answer is the meaning from the
current frame on (`Route`), since each notice accepted hands the question on and
noise is skipped by the meaning too (`MeaningSkipsNoise`); when it has returned, the
result is that meaning (`Verdict`). Bytes that arrive later do not change the
meaning of what was judged before, because `MeaningAt` looks at one frame
(`MeaningIsLocal`, `Extends`). `SuccessIsFrames` follows from `Accepted`, that
what lies before the current frame is a set of valid notices that share no byte
and hold every header byte; a move within the buffer happens only when that set
is empty.

`CommandProofs` proves, for any operations, arguments, codes, buffer sizes and
numbers of calls: `TypeCorrect`; `AnswersAreFresh` (`FreshAnswers`: nothing that had
arrived before a call's flush is used for it, while a frame that comes between the
flush and the write may be);
`QuietLinesHeal` (`OwnAnswers`); `ValuesKeepTheirKind` (`GettersKeepTheirKind`);
and, where no answer outlives its call (`~ Late`), `VerdictsAreTheModules`:
`Spec => ImplementsApi`. None of these is inductive: what a call may take depends
on what is on the line. `IInv` follows the frames from the module to the caller:
which calls the module has yet to carry out (`PendingAreOpen`), that a frame on the line,
in the input queue or in the buffer is what the module did for the call it
answers (`FramesAreHonest`), that what is in the queue has come since the last
flush (`InputIsFresh`), that a line quiet at the start of a call holds frames of
this call only (`LineIsOwn`), and that without lateness all the line holds is the
current call's (`LineIsQuiet`). `CallsAreShort` bounds a call by the frames it may
still look at (`FramesLeft`), one more than its buffer holds: neither the module
nor the line can add to them. For the refinement each step of `Command` is an
`Act`, a `Begin`, a `Return`, a `Reject` or a stutter of `DeviceApi`. The number
of notices in a buffer is the least one at which the code's loop stops; that
there is a least one is `LeastNatural` again.

Three theorems say what the finding of `late_answer` rests on. A setter, a kill or
a lock that reports success on a line that was silent when it flushed
has had its effect (`QuietSuccessesAreReal`); where no answer outlives its call that
is every success (`TimelySuccessesAreReal`: `SuccessIsReal` under `~ Late`), so the
late answer is the one cause of that counterexample. A caller sees the returned
number and not `Succeeded`: `ZerosAreReal` says the same of a result of 0 when
`0 \notin ModuleErrors`. It needs the codes of refusals followed from the module to
the buffer (`RefusalsAreCoded`) and that a setter returns the code of the refusal it
ends with (`RefusalIsReturned`). With `ModuleErrors = {0}` TLC finds a refused kill
that returns 0.

`ScannerProofs` proves, for any modes, numbers of tags, signals and clients and
any EPC length: `TypeCorrect`, `NothingIsLeft` (`LeavesNothing`), `LinesAreWhole`
(`WholeLines`), `TagsAreFresh` (`FreshTags`), `OneWriteIsLate`
(`AtMostOneLateWrite`), `FlagsComeBack` (`FlagsAreRestored`) and `OlderPathStays`
(`OlderPathIsKept`). The invariant says for each place of the process what must
hold there: which output the slot being printed goes to and how far into the line
it is (`ColumnIsKnown`), which output is non-blocking (`FlagsAreKnown`), what is open
(`SocketIsKnown`, `PathIsKnown`, `DeviceIsKnown`), whether a write can still
follow a signal (`LateIsKnown`). Two more theorems are the safety half of
`HeardSignalEnds`: `EndIsNear`, that with `should_stop` set every step of the
process lowers `StepsLeft`, which is at most `MaxTags + 11`, and nothing from
outside raises it; and `SleepIsUnasked`, that such a process is not in `accept`
or on the way to it unless the signal came in the gap before the call. What
remains to TLC is that a process outside `accept` and not held up by a full stdout
can take a step and takes it.

`DoubleScannerProofs` proves the corresponding facts for any number of modules
and tags: `TypeCorrect`, `OverlapsAreOfOverduePolls` (`OverlapsAreOverdue`),
`TagsBelongToTheModule` (`TagsAreTheModules`), `FewPollsAreLate`
(`LatePollsAreFew`) and `NothingIsLeft` (`LeavesNothing`). What carries them: a
module works on its last poll only while the host awaits the answer, and there is
one module whose turn it is, so that any other field belongs to a poll that is
overdue (`FieldsAreKnown`), the late polls of a round
are bounded by its turn (`LatePollsAreKnown`), and the devices before the turn of
`shutdown_modules` are released. `EndIsNear` and `SleepIsUnasked` are proved as
for the scanner; the bound is `ModuleCount * (MaxTags + 5) + 5`, a whole round
being finished after a signal, and counts the steps of the process only, since
modules go on as they like, a full stdout may hold the process up between two of
them, and a killed process may be started again.
`ForeignPathStays` says that the process never removes what was at the socket path
when it looked there: another program's file stays, and a killed process's socket
stays until somebody removes it, since a process that has come past its check has
found the path free and whatever is there now is newer (`PathIsKnown`). What others
make after the check is not covered: lines 112 and 452 unlink it.

`SettingsProofs` proves `TypeCorrect`, `CallersAreRight` (`CallersKnow`),
`SettingsStayLegal` (`SettingsAreLegal`) and `QueriesReadBack` (`QueryReadsBack`)
for all values of every parameter, that is every 32 bit pointer, every byte,
every power and every query word. Here the properties are inductive with
`TypeOK`; the work is in the lemmas about the codecs, that unpacking what was
packed gives the fields cut to their bits (`SelectComesBack`), the pointer whole
(`PointerComesBack`), the power within its limits (`PowerComesBack`,
`ClampedIsLegal`).

`TagMemoryProofs` proves `TypeCorrect`, `HeapStaysOwned` (`HeapIsOwned`),
`NoDoubleFree` (`FreesAreSound`), `LengthsAreTrue` (`LengthMatchesData`),
`DataIsOfTheAnswer` (`CopiedIsAnswer`), `PollsDoNotMix` (`TagsAreOfOnePoll`) and
`DataStaysWithItsTag` (`DataIsOfItsTag`) for any heap, array and answers.
`HeapIsOwned` speaks of the time between two calls; the steps of `yrm100_init`
need to know the heap inside as well, so `IInv` says in every state that live
blocks are pointed to (`LiveIsOwned`), by one pointer each (`PointersAreApart`),
and how far `yrm100_init` has come (`DeviceIsKnown`).

The assumptions of these proofs are the named `ASSUME`s of the modules they are
about: bounds are natural numbers, modes and operations are those of the code,
`NoBlock` is no block, error codes are bytes, the module starts within its limits.

Only model-checked: liveness (`Returns`, `CallsReturn`, `HeardSignalEnds`,
`GoneClientIsDropped`, `EveryModuleIsPolled`, `LeftoverIsRefused`), which the
prover cannot treat, and the fairness that goes with it. Of the first three the
ranks above are proved, that is, that the steps taken are bounded; that a step can
be taken (ENABLED) and is taken (fairness) is TLC's. The last three speak of what
happens again and again and rest on TLC alone, but for the safety half of
`LeftoverIsRefused` in `ForeignPathStays`. `Rank`, both `StepsLeft`, `FramesLeft`
and the invariants of the proofs were checked by TLC on the instances above
before they were proved. The violated properties are counterexamples and need no
proof.

## Not modelled

- The texts, printing and error names: formatting, no decision depends on it.
- The Windows port: a second implementation of the same four calls.
- termios settings, sleeps and timeouts as durations: only their order matters here.
- Multi poll: declared in the headers and not implemented; the context has fields
  for it that are set once (`yrm100.c`) and used nowhere.
- A line that never stops carrying noise: the reader has no overall deadline.
- The example program, which calls the library in a straight line and prints, the
  parsing of command lines, which ends before any state is made, and the tests.
- Writes of single bytes of a tag (`epc`, `rssi`, `pc`, `crc`): copies at fixed
  places of a frame whose size has been checked.
- In `DoubleScanner` the bytes of a line and the output's flags, which are the
  same code as in `scanner.c` and are in `Scanner`.

## Plan

1. `FrameReader`: an abstract reader that takes whole frames from the line, which
   `Receive` implements and `Command` is built on. `ReturnsMeaning` and
   `SuccessesAreFrames` say what such a refinement would say of the end of a call;
   what is left is the correspondence step by step.
2. `DoubleScanner` and `Scanner` as refinements of one abstract program that polls,
   prints and stops, now that both are proved to leave nothing behind.
