--------------------------- MODULE DoubleScanner ---------------------------
(***************************************************************************)
(* The double scanner: several readers, each on a port of its own, opened  *)
(* one after the other, polled in turn into one tag buffer and released    *)
(* one after the other.  A module goes on with a poll after the host has   *)
(* given it up, and its antenna's field is on as long.  The process can be *)
(* killed and started again, and other programs use the socket path.  A    *)
(* line is written in one step here: module Scanner has the bytes.         *)
(***************************************************************************)
EXTENDS Integers, FiniteSets

CONSTANTS
  Modes,       \* "stdout", "socket" and "debug": a socket and a copy on stdout
  ModuleCount, \* MODULE_COUNT
  MaxTags,     \* MAX_TAG_COUNT
  MaxOverdue,  \* external: commands a module keeps beside the last one
  MaxKills     \* bound on SIGKILL and other sudden ends

ASSUME ModesAssumption == Modes \subseteq {"stdout", "socket", "debug"}
ASSUME BoundsAssumption ==
  /\ {ModuleCount, MaxTags} \subseteq Nat \ {0}
  /\ {MaxOverdue, MaxKills} \subseteq Nat

Modules == 0 .. ModuleCount - 1
Slots == 1 .. MaxTags

VARIABLES
  mode,      \* the command line's choice
  pc,        \* where the process is
  turn,      \* the index of the loop over the modules
  stop,      \* should_stop
  missed,    \* whether the last signal came between the check and accept
  exit,      \* exit status
  device,    \* each entry of devices: "null", "open" or, carrier off, "released"
  path,      \* what is at the socket path: nothing, this process's socket, a killed
             \* one's ("stale"), or what another program has made there before
             \* ("older") or after ("newer") the check
  listening, \* whether server_fd is open
  client,    \* whether a client is served
  tags,      \* tag buffer: of each slot its content's module and whether that was
             \* reported by the poll last sent to it
  i,         \* the slot being printed
  working,   \* external: modules carrying out the poll last sent to them
  overdue,   \* external: earlier polls each module has yet to carry out
  overran,   \* modules that have ever worked on a poll given up by the host
  late,      \* polls sent although a signal had been received
  kills

process == <<mode, pc, turn, stop, missed, exit>>
socket == <<path, listening, client>>
buffer == <<tags, i>>
modules == <<working, overdue, overran>>
vars == <<process, device, socket, buffer, modules, late, kills>>

Empty == [from |-> -1, last |-> FALSE]
Tag(m, isLast) == [from |-> m, last |-> isLast]

Locations ==
  {"open", "configure", "announce", "announcing", "check_path", "bind", "loop", "accept", "serve",
   "poll", "answer", "print", "copy", "next", "pause", "hang_up", "close", "shutdown", "give_up",
   "exited", "killed"}

TypeOK ==
  /\ mode \in Modes
  /\ pc \in Locations
  /\ turn \in Modules
  /\ stop \in BOOLEAN /\ missed \in BOOLEAN
  /\ exit \in {"none", "success", "failure"}
  /\ device \in [Modules -> {"null", "open", "released"}]
  /\ path \in {"absent", "ours", "stale", "older", "newer"}
  /\ listening \in BOOLEAN /\ client \in BOOLEAN
  /\ tags \in [Slots -> [from : Modules \cup {-1}, last : BOOLEAN]]
  /\ i \in 1 .. MaxTags + 1
  /\ working \subseteq Modules
  /\ overdue \in [Modules -> 0 .. MaxOverdue]
  /\ overran \subseteq Modules
  /\ late \in Nat
  /\ kills \in 0 .. MaxKills

\* Another process of the same command line, its signal handlers installed.
Starts ==
  /\ UNCHANGED mode
  /\ pc' = "open" /\ turn' = 0
  /\ stop' = FALSE /\ missed' = FALSE /\ exit' = "none"
  /\ device' = [m \in Modules |-> "null"]
  /\ listening' = FALSE /\ client' = FALSE
  /\ tags' = [s \in Slots |-> Empty] /\ i' = 1
  /\ late' = 0

Init ==
  /\ mode \in Modes
  /\ pc = "open" /\ turn = 0
  /\ stop = FALSE /\ missed = FALSE /\ exit = "none"
  /\ device = [m \in Modules |-> "null"]
  /\ path \in {"absent", "older"}
  /\ listening = FALSE /\ client = FALSE
  /\ tags = [s \in Slots |-> Empty] /\ i = 1
  /\ working = {} /\ overdue = [m \in Modules |-> 0] /\ overran = {}
  /\ late = 0 /\ kills = 0

Goes(from, to) ==
  /\ pc = from
  /\ pc' = to
  /\ UNCHANGED <<mode, stop, missed, exit>>

\* Faulty: one turn too many.
MutIsLastTurn == turn = ModuleCount

IsLastTurn == turn = ModuleCount - 1

-----------------------------------------------------------------------------
(* open_modules and create_server_socket.                                  *)

OpenModule ==
  /\ Goes("open", "configure")
  /\ device' = [device EXCEPT ![turn] = "open"]
  /\ UNCHANGED <<turn, socket, buffer, modules, late, kills>>

\* shutdown_modules starts with the first module.
GivesUp(from) ==
  /\ Goes(from, "give_up")
  /\ turn' = 0

\* yrm100_init fails for one module, or its configuration does, also because a
\* signal interrupts a read.
StartFails ==
  /\ pc \in {"open", "configure"} /\ GivesUp(pc)
  /\ UNCHANGED <<device, socket, buffer, modules, late, kills>>

ConfigureModule ==
  /\ Goes("configure", IF IsLastTurn THEN "announce" ELSE "open")
  /\ turn' = IF IsLastTurn THEN 0 ELSE turn + 1
  /\ UNCHANGED <<device, socket, buffer, modules, late, kills>>

\* What follows the settings printed at the start, and a client's line in debug
\* mode.
Announced == IF client \/ mode = "stdout" THEN "serve" ELSE "check_path"

\* printf and fflush to stdout, which is blocking there; whether they could is
\* not looked at.
Announce ==
  /\ Goes("announce", Announced)
  /\ UNCHANGED <<turn, device, socket, buffer, modules, late, kills>>

\* stdout is full: the process sleeps in the write of fflush.
AnnounceBlocks ==
  /\ Goes("announce", "announcing")
  /\ UNCHANGED <<turn, device, socket, buffer, modules, late, kills>>

PathIsFree == path = "absent"

\* Faulty: waits for the path to become free.
MutCheckPath ==
  /\ Goes("check_path", IF PathIsFree THEN "bind" ELSE "check_path")
  /\ turn' = 0
  /\ UNCHANGED <<device, socket, buffer, modules, late, kills>>

\* lstat finds nothing at the path; it may also fail, or the path be too long.
CheckPath ==
  /\ \E free \in {FALSE, PathIsFree} : Goes("check_path", IF free THEN "bind" ELSE "give_up")
  /\ turn' = 0
  /\ UNCHANGED <<device, socket, buffer, modules, late, kills>>

\* bind finds the path as it is by then.
CreateServer ==
  /\ path = "absent"
  /\ Goes("bind", "loop")
  /\ path' = "ours" /\ listening' = TRUE
  /\ UNCHANGED <<turn, device, client, buffer, modules, late, kills>>

\* socket fails, or bind or listen: then the path is unlinked, whoever made it.
CreateServerFails ==
  /\ GivesUp("bind")
  /\ path' \in {path, "absent"}
  /\ UNCHANGED <<device, listening, client, buffer, modules, late, kills>>

-----------------------------------------------------------------------------
(* The loops of main.                                                      *)

AcceptLoop ==
  /\ Goes("loop", IF stop THEN "close" ELSE "accept")
  /\ UNCHANGED <<turn, device, socket, buffer, modules, late, kills>>

Accept ==
  /\ Goes("accept", IF mode = "debug" THEN "announce" ELSE "serve")
  /\ client' = TRUE
  /\ UNCHANGED <<turn, device, path, listening, buffer, modules, late, kills>>

AcceptFails ==
  /\ Goes("accept", "close")
  /\ UNCHANGED <<turn, device, socket, buffer, modules, late, kills>>

\* What the inner loop does without a signal: a round; with one, it ends.
Unserved == IF mode = "stdout" THEN "close" ELSE "hang_up"

\* Faulty: should_stop is left to the outer loop.
MutServing == "poll"

Serving == IF stop THEN Unserved ELSE "poll"

ServeLoop ==
  /\ Goes("serve", Serving)
  /\ turn' = 0
  /\ UNCHANGED <<device, socket, buffer, modules, late, kills>>

\* sleep_interval: until the interval is over or a signal has come.
Pause ==
  /\ Goes("pause", "serve")
  /\ UNCHANGED <<turn, device, socket, buffer, modules, late, kills>>

HangUp ==
  /\ Goes("hang_up", "loop")
  /\ client' = FALSE
  /\ UNCHANGED <<turn, device, path, listening, buffer, modules, late, kills>>

-----------------------------------------------------------------------------
(* scan_all_modules and scan_module.                                       *)

\* Faulty: the tags of the module polled before stay.
MutReset == tags

\* The tag buffer after yrm100_reset_tag_buf.
Reset == [s \in Slots |-> Empty]

\* The poll of module `turn` is written to its port; it may be lost on the way.
SendsPoll(to) ==
  /\ Goes("poll", to)
  /\ tags' = Reset
  /\ i' = 1
  /\ \/ working' = working \cup {turn}
     \/ UNCHANGED working
  /\ late' = IF stop THEN late + 1 ELSE late
  /\ UNCHANGED <<turn, device, socket, overdue, overran, kills>>

\* Faulty: the next module is polled before this one has answered.
MutSendPoll == SendsPoll("next")

SendPoll == SendsPoll("answer")

\* Faulty: a module that fails ends the round.
MutAfterFailure == "pause"

\* What follows a poll that failed: scan_module returns 0.
AfterFailure == "next"

SendPollFails ==
  /\ Goes("poll", AfterFailure)
  /\ tags' = Reset
  /\ UNCHANGED <<turn, device, socket, i, modules, late, kills>>

\* The host waits no longer for the modules in S: what they work on is overdue.
\* A module that keeps too many commands loses it.
Abandons(S) ==
  /\ working' = working \ S
  /\ overdue' = [m \in Modules |-> IF m \in S \cap working /\ overdue[m] < MaxOverdue
                                   THEN overdue[m] + 1 ELSE overdue[m]]
  /\ overran' = overran \cup (S \cap working)

\* No answer in time, a spoilt one, or a signal interrupts the read.
PollFails ==
  /\ Goes("answer", AfterFailure)
  /\ Abandons({turn})
  /\ UNCHANGED <<turn, device, socket, buffer, late, kills>>

\* The buffer once k notices have been parsed; without any it is left alone.
Filled(k, isLast) ==
  IF k = 0 THEN tags ELSE [s \in Slots |-> IF s <= k THEN Tag(turn, isLast) ELSE Empty]

\* The module's answer to the poll last sent has come and the module is done.
Answer ==
  /\ turn \in working /\ overdue[turn] = 0
  /\ Goes("answer", "print")
  /\ \E k \in 0 .. MaxTags : tags' = Filled(k, TRUE)
  /\ working' = working \ {turn}
  /\ UNCHANGED <<turn, device, socket, i, overdue, overran, late, kills>>

\* Notices and then silence are an answer too, though the module is not done.
AnswerOfNotices ==
  /\ turn \in working /\ overdue[turn] = 0
  /\ Goes("answer", "print")
  /\ \E k \in 1 .. MaxTags : tags' = Filled(k, TRUE)
  /\ Abandons({turn})
  /\ UNCHANGED <<turn, device, socket, i, late, kills>>

\* The answer to an earlier poll comes while this one's is awaited.
OverdueAnswer ==
  /\ overdue[turn] > 0
  /\ Goes("answer", "print")
  /\ \E k \in 0 .. MaxTags : tags' = Filled(k, FALSE)
  /\ working' = working \ {turn}
  /\ overdue' = IF turn \in working THEN overdue ELSE [overdue EXCEPT ![turn] = @ - 1]
  /\ overran' = overran \cup ({turn} \cap working)
  /\ UNCHANGED <<turn, device, socket, i, late, kills>>

SkipSlot ==
  /\ i <= MaxTags /\ tags[i] = Empty
  /\ Goes("print", "print")
  /\ i' = i + 1
  /\ UNCHANGED <<turn, device, socket, tags, modules, late, kills>>

PrintEnds ==
  /\ i > MaxTags
  /\ Goes("print", "next")
  /\ UNCHANGED <<turn, device, socket, buffer, modules, late, kills>>

Writes == pc = "copy" \/ (pc = "print" /\ i <= MaxTags /\ tags[i] # Empty)

\* The output takes the line, whose copy follows in debug mode.
LineTaken ==
  /\ Writes /\ ~ stop
  /\ IF pc = "print" /\ mode = "debug"
     THEN Goes("print", "copy") /\ UNCHANGED i
     ELSE Goes(pc, "print") /\ i' = i + 1
  /\ UNCHANGED <<turn, device, socket, tags, modules, late, kills>>

\* The output breaks.
LineFails ==
  /\ Writes
  /\ Goes(pc, Unserved)
  /\ UNCHANGED <<turn, device, socket, buffer, modules, late, kills>>

\* write_all gives up once it sees should_stop.
LineStopped == stop /\ LineFails

NextModule ==
  /\ Goes("next", IF IsLastTurn THEN "pause" ELSE "poll")
  /\ turn' = IF IsLastTurn THEN turn ELSE turn + 1
  /\ UNCHANGED <<device, socket, buffer, modules, late, kills>>

-----------------------------------------------------------------------------
(* The end.                                                                *)

Close ==
  /\ Goes("close", "shutdown")
  /\ turn' = 0
  /\ IF mode = "stdout" THEN UNCHANGED socket
     ELSE listening' = FALSE /\ path' = "absent" /\ UNCHANGED client
  /\ UNCHANGED <<device, buffer, modules, late, kills>>

\* Faulty: modules are released up to the one that failed to start.
MutReleased == IF \E m \in Modules : device[m] = "null" THEN device
               ELSE [device EXCEPT ![turn] = "released"]

\* The devices once shutdown_modules has done its step for module `turn`.
Released == [device EXCEPT ![turn] = IF @ = "null" THEN "null" ELSE "released"]

\* One step of shutdown_modules; after the last main returns.
ShutdownModule ==
  /\ pc \in {"shutdown", "give_up"}
  /\ device' = Released
  /\ turn' = IF IsLastTurn THEN turn ELSE turn + 1
  /\ pc' = IF IsLastTurn THEN "exited" ELSE pc
  /\ exit' = CASE ~ IsLastTurn -> "none"
               [] IsLastTurn /\ pc = "shutdown" /\ stop -> "success"
               [] OTHER -> "failure"
  /\ UNCHANGED <<mode, stop, missed, socket, buffer, modules, late, kills>>

-----------------------------------------------------------------------------
(* Signals, the modules, kills and restarts.                               *)

\* A write of fflush that sleeps ends with EINTR and the line is dropped; if
\* stdout had taken a part of it, fflush may go back to sleep over the rest.
CutsShort == pc = "announcing" /\ pc' = Announced

\* accept ends with EINTR, unless the signal comes just before it.
Signal ==
  /\ pc \notin {"exited", "killed"}
  /\ stop' = TRUE
  /\ missed' \in {FALSE, pc = "accept"}
  /\ CutsShort \/ pc' = IF pc = "accept" /\ ~ missed' THEN "loop" ELSE pc
  /\ UNCHANGED <<mode, turn, exit, device, socket, buffer, modules, late, kills>>

\* Whoever reads stdout has made room for the line.
StdoutIsRead ==
  /\ Goes("announcing", Announced)
  /\ UNCHANGED <<turn, device, socket, buffer, modules, late, kills>>

\* External: module m is done with its oldest poll and nobody takes the answer:
\* it is lost, or waits in a port that is flushed before the next poll.
ModuleDone(m) ==
  /\ \/ /\ overdue[m] > 0
        /\ overdue' = [overdue EXCEPT ![m] = @ - 1]
        /\ UNCHANGED working
     \/ /\ overdue[m] = 0 /\ m \in working
        /\ working' = working \ {m}
        /\ UNCHANGED overdue
  /\ UNCHANGED <<process, device, socket, buffer, overran, late, kills>>

\* The process ends at once; its descriptors are closed, the rest stays.
Kill ==
  /\ pc \notin {"exited", "killed"}
  /\ kills < MaxKills
  /\ kills' = kills + 1
  /\ pc' = "killed"
  /\ listening' = FALSE /\ client' = FALSE
  /\ path' = IF path = "ours" THEN "stale" ELSE path
  /\ Abandons(Modules)
  /\ UNCHANGED <<mode, turn, stop, missed, exit, device, buffer, late>>

Restart ==
  /\ pc = "killed" \/ exit = "failure"
  /\ Starts
  /\ path' = IF path = "newer" THEN "older" ELSE path
  /\ UNCHANGED <<modules, kills>>

\* Somebody, systemd for one, removes what the killed process has left.
Cleanup ==
  /\ path = "stale"
  /\ path' = "absent"
  /\ UNCHANGED <<process, device, listening, client, buffer, modules, late, kills>>

\* The process has yet to look at the path.
Unchecked ==
  pc \in {"open", "configure", "check_path"} \/ (pc \in {"announce", "announcing"} /\ ~ client)

\* Another program makes a file of that name.
OtherTakesPath ==
  /\ path = "absent"
  /\ path' = IF Unchecked THEN "older" ELSE "newer"
  /\ UNCHANGED <<process, device, listening, client, buffer, modules, late, kills>>

\* Somebody removes this process's socket.
OtherRemovesSocket ==
  /\ path = "ours"
  /\ path' = "absent"
  /\ UNCHANGED <<process, device, listening, client, buffer, modules, late, kills>>

-----------------------------------------------------------------------------

\* Steps of the process that wait for nobody for ever.
Steps ==
  \/ OpenModule \/ ConfigureModule \/ StartFails \/ Announce \/ AnnounceBlocks
  \/ CheckPath \/ CreateServer \/ CreateServerFails
  \/ AcceptLoop \/ ServeLoop \/ Pause \/ HangUp
  \/ SendPoll \/ SendPollFails \/ PollFails
  \/ SkipSlot \/ PrintEnds \/ LineStopped \/ NextModule
  \/ Close \/ ShutdownModule

Answers == Answer \/ AnswerOfNotices \/ OverdueAnswer

Others ==
  \/ Accept \/ AcceptFails \/ LineTaken \/ LineFails
  \/ Signal \/ StdoutIsRead \/ Kill \/ Restart
  \/ Cleanup \/ OtherTakesPath \/ OtherRemovesSocket
  \/ \E m \in Modules : ModuleDone(m)

Next == Steps \/ Answers \/ Others

\* The process is scheduled; modules, clients, outputs and others owe nothing.
Spec == Init /\ [][Next]_vars /\ WF_vars(Steps)

-----------------------------------------------------------------------------
(* Properties.                                                             *)

\* On whatever way main returns, with all modules open, some or none (lines
\* 160-182 and 391-454), each open module is told to switch its carrier off
\* and is closed, and socket and path are as they were found.
LeavesNothing ==
  pc = "exited" =>
    /\ \A m \in Modules : device[m] # "open"
    /\ ~ listening /\ ~ client
    /\ path # "ours"

\* The buffer is shared by the modules (line 337), and the debug line names the
\* module: what is printed comes from the module whose turn it is, and from its
\* last poll unless that module once went on after the host had given it up.
TagsAreTheModules ==
  Writes => tags[i].from = turn /\ (tags[i].last \/ turn \in overran)

\* The module's antenna is powered.
Field(m) == m \in working \/ overdue[m] > 0

\* Two fields are on at once only while a module still works on a poll that the
\* host, or a process before it, has given up (line 310).
OverlapsAreOverdue ==
  \A m, k \in Modules : m # k /\ Field(m) /\ Field(k) => overdue[m] > 0 \/ overdue[k] > 0

\* should_stop is not looked at between two modules (lines 308-314): after a
\* signal no more than one poll is sent to each, however the polls fail.
LatePollsAreFew == late <= ModuleCount

\* stdout takes at last what is printed there with stdio (lines 391-392, 436-437).
\* That stderr takes what is printed there is taken for granted.
StdoutIsReadAtLast == []<> (pc # "announcing")

\* A signal ends the process, whatever modules, clients and sockets do, unless
\* it came between the check of should_stop and the call of accept (lines
\* 421-423), or stdout stays full for ever over what stdio prints.
HeardSignalEnds ==
  StdoutIsReadAtLast => (stop /\ ~ missed ~> pc \in {"exited", "killed"})

Polls(m) == pc = "poll" /\ turn = m

\* A module that answers no poll, or whose port fails, keeps no other module
\* from being polled, as long as the output takes the lines (lines 271-277).
EveryModuleIsPolled ==
  ([]<> Polls(0)) /\ (<>[] (pc \notin {"hang_up", "close"})) => \A m \in Modules : []<> Polls(m)

\* The socket file of a killed process is in the way of the next one, which
\* gives up rather than serve, unless somebody removes the file (lines 68-79).
LeftoverIsRefused ==
  StdoutIsReadAtLast =>
    (pc = "open" /\ mode # "stdout" /\ path = "stale" ~>
       pc \in {"exited", "killed"} \/ path = "absent")

\* doublescanner.c (lines 306-307): modules are polled one after another so
\* their RF fields never overlap.
FieldsNeverOverlap == \A m, k \in Modules : Field(m) /\ Field(k) => m = k

=============================================================================
