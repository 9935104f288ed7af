------------------------------ MODULE Scanner ------------------------------
(***************************************************************************)
(* The scanner program: one reader polled in a loop, every EPC written as  *)
(* a line to a client of a Unix socket or to stdout, until a signal asks   *)
(* it to stop.  The process is sequential; signals, clients and other      *)
(* programs that use the socket path act between any two of its steps.     *)
(* A poll is one step here: module Command has its frames.                 *)
(***************************************************************************)
EXTENDS Integers

CONSTANTS
  Modes,       \* "stdout", "socket" and "debug": a socket and a copy on stdout
  MaxTags,     \* MAX_TAG_COUNT
  EpcLength,   \* bytes of an EPC, without the newline
  MaxSignals,  \* bound on SIGINT and SIGTERM
  MaxWaiting,  \* bound on the clients that wait to be accepted
  DeviceFails  \* whether the reader may fail to open or to be configured

ASSUME ModesAssumption == Modes \subseteq {"stdout", "socket", "debug"}
ASSUME BoundsAssumption ==
  /\ {MaxTags, EpcLength} \subseteq Nat \ {0}
  /\ {MaxSignals, MaxWaiting} \subseteq Nat
  /\ DeviceFails \in BOOLEAN

Outputs == {"main", "copy"}

VARIABLES
  mode,         \* the command line's choice
  pc,           \* where the process is
  stop,         \* should_stop
  signals,      \* signals received
  missed,       \* whether the last one came between the check and accept
  path,         \* who made what is at the socket path: nobody, this process, or
                \* another program before ("older") or after ("newer") the check
  listening,    \* whether server_fd is open
  waiting,      \* clients in the backlog
  client,       \* the client served
  device,       \* the reader: "new", "open" or, carrier off, "released"
  tags,         \* tag buffer: empty slots, tags of the last poll, older ones
  i,            \* the slot being printed
  out,          \* the output being written
  part,         \* the part of its line being written
  written,      \* bytes of that part written
  nonblocking,  \* outputs with O_NONBLOCK set by write_all
  column,       \* bytes of the current line the main output has taken
  torn,         \* whether the main output has taken a byte out of place
  late,         \* writes made although a signal had been received
  exit          \* exit status

process == <<mode, pc, stop, signals, missed, exit>>
socket == <<path, listening, waiting, client>>
line == <<i, out, part, written>>
outputs == <<nonblocking, column, torn, late>>
vars == <<process, socket, device, tags, line, outputs>>

Slots == 1 .. MaxTags
PartLength == [epc |-> EpcLength, newline |-> 1]

Locations ==
  {"open", "configure", "check_path", "bind", "loop", "accept", "accepting",
   "announce", "announcing", "serve", "poll", "print", "begin", "check", "write", "wait", "restore",
   "pause", "close", "shutdown", "give_up", "exited"}

TypeOK ==
  /\ mode \in Modes
  /\ pc \in Locations
  /\ stop \in BOOLEAN /\ missed \in BOOLEAN
  /\ signals \in 0 .. MaxSignals
  /\ path \in {"absent", "ours", "older", "newer"}
  /\ listening \in BOOLEAN
  /\ waiting \in 0 .. MaxWaiting
  /\ client \in {"none", "connected", "gone"}
  /\ device \in {"new", "open", "released"}
  /\ tags \in [Slots -> {"empty", "fresh", "stale"}]
  /\ i \in 1 .. MaxTags + 1
  /\ out \in Outputs
  /\ part \in {"epc", "newline"}
  /\ written \in 0 .. PartLength[part]
  /\ nonblocking \subseteq Outputs
  /\ column \in 0 .. EpcLength
  /\ torn \in BOOLEAN
  /\ late \in Nat
  /\ exit \in {"none", "success", "failure"}

\* Signal handlers are installed.
Init ==
  /\ mode \in Modes
  /\ pc = "open"
  /\ stop = FALSE /\ signals = 0 /\ missed = FALSE
  /\ path \in {"absent", "older"}
  /\ listening = FALSE /\ waiting = 0 /\ client = "none"
  /\ device = "new"
  /\ tags = [s \in Slots |-> "empty"]
  /\ i = 1 /\ out = "main" /\ part = "epc" /\ written = 0
  /\ nonblocking = {}
  /\ column = 0
  /\ torn = FALSE /\ late = 0
  /\ exit = "none"

Goes(from, to) ==
  /\ pc = from
  /\ pc' = to
  /\ UNCHANGED <<mode, stop, signals, missed, exit>>

Exits(status) ==
  /\ pc' = "exited"
  /\ exit' = status
  /\ UNCHANGED <<mode, stop, signals, missed>>

-----------------------------------------------------------------------------
(* Start.                                                                  *)

OpenDevice ==
  /\ Goes("open", "configure")
  /\ device' = "open"
  /\ UNCHANGED <<socket, tags, line, outputs>>

OpenFails ==
  /\ DeviceFails
  /\ pc = "open" /\ Exits("failure")
  /\ UNCHANGED <<socket, device, tags, line, outputs>>

Configure ==
  /\ Goes("configure", IF mode = "stdout" THEN "serve" ELSE "check_path")
  /\ UNCHANGED <<socket, device, tags, line, outputs>>

ConfigureFails ==
  /\ DeviceFails
  /\ Goes("configure", "give_up")
  /\ UNCHANGED <<socket, device, tags, line, outputs>>

\* Faulty: the path is not looked at.
MutPathIsFree == TRUE

PathIsFree == path = "absent"

CheckPath ==
  /\ Goes("check_path", IF PathIsFree THEN "bind" ELSE "give_up")
  /\ UNCHANGED <<socket, device, tags, line, outputs>>

\* bind finds the path as it is by then.
CreateSocket ==
  /\ path = "absent"
  /\ Goes("bind", "loop")
  /\ path' = "ours"
  /\ listening' = TRUE
  /\ UNCHANGED <<waiting, client, device, tags, line, outputs>>

\* socket fails, or bind or listen: then the path is unlinked, whoever made it.
CreateSocketFails ==
  /\ Goes("bind", "give_up")
  /\ path' \in {path, "absent"}
  /\ UNCHANGED <<listening, waiting, client, device, tags, line, outputs>>

-----------------------------------------------------------------------------
(* The loops of main.                                                      *)

AcceptLoop ==
  /\ Goes("loop", IF stop THEN "close" ELSE "accept")
  /\ UNCHANGED <<socket, device, tags, line, outputs>>

\* A client is accepted: at once, or after a wait.
Accept ==
  /\ waiting > 0
  /\ pc \in {"accept", "accepting"} /\ Goes(pc, IF mode = "debug" THEN "announce" ELSE "serve")
  /\ waiting' = waiting - 1
  /\ client' = "connected"
  /\ column' = 0
  /\ UNCHANGED <<path, listening, device, tags, line, nonblocking, torn, late>>

\* The process sleeps in accept, until a client or a signal comes.
Block ==
  /\ waiting = 0
  /\ Goes("accept", "accepting")
  /\ UNCHANGED <<socket, device, tags, line, outputs>>

\* printf and fflush tell stdout, blocking by now, of the client; whether they
\* could is not looked at.
Announce ==
  /\ Goes("announce", "serve")
  /\ UNCHANGED <<socket, device, tags, line, outputs>>

\* stdout is full: the process sleeps in the write of fflush.
AnnounceBlocks ==
  /\ Goes("announce", "announcing")
  /\ UNCHANGED <<socket, device, tags, line, outputs>>

AcceptFails ==
  /\ Goes("accept", "close")
  /\ UNCHANGED <<socket, device, tags, line, outputs>>

\* Faulty: a scan that failed is followed by the next one.
MutEndService ==
  /\ pc' = "pause"
  /\ UNCHANGED <<mode, stop, signals, missed, exit, socket>>

\* The inner loop ends: the client, if any, is closed.
EndService ==
  /\ pc' = IF mode = "stdout" THEN "close" ELSE "loop"
  /\ client' = "none"
  /\ UNCHANGED <<mode, stop, signals, missed, exit, path, listening, waiting>>

ServeLoop ==
  /\ ~ stop
  /\ Goes("serve", "poll")
  /\ UNCHANGED <<socket, device, tags, line, outputs>>

ServeEnds ==
  /\ stop
  /\ pc = "serve" /\ EndService
  /\ UNCHANGED <<device, tags, line, outputs>>

\* sleep_interval: until the interval is over or a signal has come.
Pause ==
  /\ Goes("pause", "serve")
  /\ UNCHANGED <<socket, device, tags, line, outputs>>

-----------------------------------------------------------------------------
(* scan_for_tags.                                                          *)

\* Faulty: the last poll's tags stay.
MutReset == [s \in Slots |-> IF tags[s] = "empty" THEN "empty" ELSE "stale"]

\* The tag buffer after yrm100_reset_tag_buf.
Reset == [s \in Slots |-> "empty"]

\* The poll reports k tags, which fill the first slots; none for an answer
\* without notices, and for an error frame.
Poll ==
  /\ Goes("poll", "print")
  /\ \E k \in 0 .. MaxTags : tags' = [s \in Slots |-> IF s <= k THEN "fresh" ELSE Reset[s]]
  /\ i' = 1
  /\ UNCHANGED <<socket, device, out, part, written, outputs>>

\* The poll fails, or a signal interrupts it; the scan counts as done.
PollFails ==
  /\ Goes("poll", "pause")
  /\ tags' = Reset
  /\ UNCHANGED <<socket, device, line, outputs>>

\* Faulty: the count of the last part is kept.
MutWrites(o, p) ==
  /\ pc' = "begin"
  /\ out' = o
  /\ part' = p
  /\ UNCHANGED written

\* write_all is called for part p of the line on output o.
Writes(o, p) ==
  /\ pc' = "begin"
  /\ out' = o
  /\ part' = p
  /\ written' = 0

SkipSlot ==
  /\ i <= MaxTags /\ tags[i] = "empty"
  /\ Goes("print", "print")
  /\ i' = i + 1
  /\ UNCHANGED <<socket, device, tags, out, part, written, outputs>>

PrintSlot ==
  /\ pc = "print"
  /\ i <= MaxTags /\ tags[i] # "empty"
  /\ Writes("main", "epc")
  /\ UNCHANGED <<mode, stop, signals, missed, exit, i, socket, device, tags, outputs>>

PrintEnds ==
  /\ i > MaxTags
  /\ Goes("print", "pause")
  /\ UNCHANGED <<socket, device, tags, line, outputs>>

-----------------------------------------------------------------------------
(* write_all.                                                              *)

SetNonblocking ==
  /\ Goes("begin", "check")
  /\ nonblocking' = nonblocking \cup {out}
  /\ UNCHANGED <<socket, device, tags, line, column, torn, late>>

SetNonblockingFails ==
  /\ pc = "begin" /\ EndService
  /\ UNCHANGED <<device, tags, line, outputs>>

\* Faulty: writes until the part is out.
MutWriteStops == written = PartLength[part]

WriteStops == written = PartLength[part] \/ stop

CheckStop ==
  /\ Goes("check", IF WriteStops THEN "restore" ELSE "write")
  /\ UNCHANGED <<socket, device, tags, line, outputs>>

LineStart == IF part = "epc" THEN 0 ELSE EpcLength

\* Faulty: a part that was cut short starts again.
MutTaken(k) == IF written + k = PartLength[part] THEN written + k ELSE 0

\* Bytes written once the output has taken k more.
Taken(k) == written + k

\* The output takes some bytes.
Write ==
  /\ out = "main" => client # "gone"
  /\ Goes("write", "check")
  /\ \E k \in 1 .. PartLength[part] - written :
       /\ written' = Taken(k)
       /\ column' = IF out = "main" THEN (LineStart + written + k) % (EpcLength + 1) ELSE column
  /\ torn' = (torn \/ (out = "main" /\ column # LineStart + written))
  /\ late' = IF stop THEN late + 1 ELSE late
  /\ UNCHANGED <<socket, device, tags, i, out, part, nonblocking>>

\* The output is full.
WriteWouldBlock ==
  /\ out = "main" => client # "gone"
  /\ Goes("write", "wait")
  /\ UNCHANGED <<socket, device, tags, line, outputs>>

\* The output is broken; SIGPIPE is ignored.
WriteFails ==
  /\ Goes("write", "restore")
  /\ UNCHANGED <<socket, device, tags, line, outputs>>

\* poll: the output has room, 100 ms are over, or a signal has come.
Wait ==
  /\ Goes("wait", "check")
  /\ UNCHANGED <<socket, device, tags, line, outputs>>

WaitFails ==
  /\ Goes("wait", "restore")
  /\ UNCHANGED <<socket, device, tags, line, outputs>>

\* What follows a whole part: the newline, the copy on stdout, the next slot.
NextPart ==
  CASE part = "epc" -> Writes(out, "newline") /\ UNCHANGED i
    [] part = "newline" /\ out = "main" /\ mode = "debug" -> Writes("copy", "epc") /\ UNCHANGED i
    [] OTHER -> pc' = "print" /\ i' = i + 1 /\ UNCHANGED <<out, part, written>>

\* Faulty: the flags stay changed when the write did not succeed.
MutRestored == IF written = PartLength[part] THEN nonblocking \ {out} ELSE nonblocking

\* Outputs still non-blocking once write_all returns.
Restored == nonblocking \ {out}

RestoreAndGoOn ==
  /\ pc = "restore"
  /\ written = PartLength[part]
  /\ NextPart
  /\ nonblocking' = Restored
  /\ UNCHANGED <<mode, stop, signals, missed, exit, socket, device, tags, column, torn, late>>

RestoreAndEnd ==
  /\ pc = "restore"
  /\ written # PartLength[part]
  /\ EndService
  /\ nonblocking' = Restored
  /\ UNCHANGED <<device, tags, line, column, torn, late>>

-----------------------------------------------------------------------------
(* The end.                                                                *)

\* Faulty: the path is left behind.
MutUnlinked == path

\* What is at the path after unlink.
Unlinked == "absent"

Close ==
  /\ Goes("close", "shutdown")
  /\ IF mode = "stdout" THEN UNCHANGED socket
     ELSE /\ listening' = FALSE
          /\ waiting' = 0
          /\ path' = Unlinked
          /\ UNCHANGED client
  /\ UNCHANGED <<device, tags, line, outputs>>

\* shutdown_reader: carrier off and port closed, whatever the module answers.
\* Without a failure before, the exit status is should_stop's.
ShutdownReader ==
  /\ pc \in {"shutdown", "give_up"}
  /\ Exits(IF pc = "shutdown" /\ stop THEN "success" ELSE "failure")
  /\ device' = "released"
  /\ UNCHANGED <<socket, tags, line, outputs>>

-----------------------------------------------------------------------------
(* Signals, and what other programs do.                                    *)

\* Faulty: accept is restarted, as with SA_RESTART.
MutInterrupted == pc

\* Where a signal takes the process: a sleep in accept ends.
Interrupted == IF pc = "accepting" THEN "loop" ELSE pc

\* A write of fflush that sleeps ends with EINTR and the line is dropped; if
\* stdout had taken a part of it, fflush may go back to sleep over the rest.
CutsShort == pc = "announcing" /\ pc' = "serve"

Signal ==
  /\ pc # "exited"
  /\ signals < MaxSignals
  /\ signals' = signals + 1
  /\ stop' = TRUE
  /\ missed' = (pc = "accept")
  /\ pc' = Interrupted \/ CutsShort
  /\ UNCHANGED <<mode, exit, socket, device, tags, line, outputs>>

\* The signal interrupts the read of an answer, which fails the command.
SignalFailsConfigure ==
  /\ pc = "configure"
  /\ signals < MaxSignals
  /\ signals' = signals + 1
  /\ stop' = TRUE
  /\ missed' = FALSE
  /\ pc' = "give_up"
  /\ UNCHANGED <<mode, exit, socket, device, tags, line, outputs>>

\* Whoever reads stdout has made room for the line.
StdoutIsRead ==
  /\ Goes("announcing", "serve")
  /\ UNCHANGED <<socket, device, tags, line, outputs>>

Connect ==
  /\ path = "ours" /\ listening
  /\ waiting < MaxWaiting
  /\ waiting' = waiting + 1
  /\ UNCHANGED <<process, path, listening, client, device, tags, line, outputs>>

Disconnect ==
  /\ client = "connected"
  /\ client' = "gone"
  /\ UNCHANGED <<process, path, listening, waiting, device, tags, line, outputs>>

\* Another program makes a file of that name.
OtherTakesPath ==
  /\ path = "absent"
  /\ path' = IF pc \in {"open", "configure", "check_path"} THEN "older" ELSE "newer"
  /\ UNCHANGED <<process, listening, waiting, client, device, tags, line, outputs>>

\* Somebody removes this process's socket.
OtherRemovesSocket ==
  /\ path = "ours"
  /\ path' = "absent"
  /\ UNCHANGED <<process, listening, waiting, client, device, tags, line, outputs>>

-----------------------------------------------------------------------------

Starts ==
  \/ OpenDevice \/ OpenFails \/ Configure \/ ConfigureFails
  \/ CheckPath \/ CreateSocket \/ CreateSocketFails

Serves ==
  \/ AcceptLoop \/ Accept \/ Block \/ AcceptFails \/ Announce \/ AnnounceBlocks
  \/ ServeLoop \/ ServeEnds \/ Pause
  \/ Poll \/ PollFails \/ SkipSlot \/ PrintSlot \/ PrintEnds

WritesAll ==
  \/ SetNonblocking \/ SetNonblockingFails \/ CheckStop
  \/ Write \/ WriteWouldBlock \/ WriteFails \/ Wait \/ WaitFails
  \/ RestoreAndGoOn \/ RestoreAndEnd

Ends == Close \/ ShutdownReader

Steps == Starts \/ Serves \/ WritesAll \/ Ends

Others ==
  \/ Signal \/ SignalFailsConfigure \/ StdoutIsRead
  \/ Connect \/ Disconnect
  \/ OtherTakesPath \/ OtherRemovesSocket

Next == Steps \/ Others

\* The process is scheduled; signals and other programs owe nothing.
Spec == Init /\ [][Next]_vars /\ WF_vars(Steps)

-----------------------------------------------------------------------------
(* Properties.                                                             *)

\* On whatever way main returns once the reader is open (lines 324-391),
\* carrier and port, sockets, path and the flags of the outputs are as they
\* were found.
LeavesNothing ==
  pc = "exited" /\ device # "new" =>
    /\ device = "released"
    /\ ~ listening /\ client = "none"
    /\ path # "ours"
    /\ nonblocking = {}

\* A client, or stdout, reads one whole line after the other however its
\* bytes are cut into writes; only the very last line can be cut short
\* (lines 170-207 and 245-249).
WholeLines == ~ torn

\* What is printed comes from the poll just made, never from an earlier one:
\* a poll without notices leaves the buffer alone, so the reset of line 227
\* must have emptied it.
FreshTags == pc \in {"begin", "check", "write", "wait", "restore"} => tags[i] = "fresh"

\* Once a signal has been received no more than one write is made, the one
\* whose check of should_stop came before (line 174).
AtMostOneLateWrite == late <= 1

\* The outputs are non-blocking only while write_all runs: the copy shares its
\* flags with whoever else has stdout open (line 213).
FlagsAreRestored == pc \notin {"check", "write", "wait", "restore"} => nonblocking = {}

\* What was at the path before the process looked is never removed by it
\* (lines 65-92).
OlderPathIsKept == [][path = "older" => path' = "older"]_vars

\* A signal ends the process, whatever clients and outputs do, unless it came
\* between the check of should_stop and the call of accept (lines 358-360), or
\* stdout stays full for ever over a line of debug mode (lines 373-374).  That
\* stderr takes what is printed there is taken for granted.
HeardSignalEnds ==
  ([]<> (pc # "announcing")) => (stop /\ ~ missed ~> pc = "exited")

FindsTags == pc = "print" /\ i = 1 /\ tags[1] = "fresh"

\* While tags are seen, a client that has gone is noticed and the next one can
\* be accepted; a write to it fails since SIGPIPE is ignored (lines 46, 377-385).
GoneClientIsDropped == ([]<> FindsTags) => (client = "gone" ~> client = "none")

\* deploy/README.md (line 156): the binary handles SIGTERM and SIGINT, so no
\* ExecStop is needed.
EverySignalEnds == stop ~> pc = "exited"

\* deploy/README.md (line 159): a signal-driven stop exits zero.
SignalExitIsClean == pc = "exited" /\ stop => exit = "success"

=============================================================================
