------------------------- MODULE DoubleScannerProofs -------------------------
(***************************************************************************)
(* Proofs about the double scanner, for any number of modules, any length  *)
(* of the tag buffer and any number of kills and overdue polls.            *)
(***************************************************************************)
EXTENDS DoubleScanner, TLAPS

\* A module works on the last poll only while its answer is awaited; earlier
\* polls were given up while it worked on them.
FieldsAreKnown ==
  /\ \A m \in working : pc = "answer" /\ turn = m
  /\ \A m \in Modules : overdue[m] > 0 => m \in overran

\* The buffer is empty while an answer is awaited, and has tags of the module
\* whose turn it is while they are printed.
TagsAreKnown ==
  /\ pc = "answer" => tags = Reset
  /\ pc \in {"print", "copy"} =>
       \A s \in Slots : tags[s] # Empty => tags[s].from = turn /\ (tags[s].last \/ turn \in overran)
  /\ pc = "copy" => i <= MaxTags /\ tags[i] # Empty

\* Polls sent after a signal belong to this round, one to each module so far.
LatePollsAreKnown ==
  /\ ~ stop => late = 0
  /\ pc = "poll" => late <= turn
  /\ pc \in {"answer", "print", "copy", "next"} => late <= turn + 1
  /\ late <= ModuleCount

\* Where the process has its socket, its path and a client, and where not.
SocketIsKnown ==
  /\ mode = "stdout" => ~ listening /\ ~ client /\ path # "ours"
  /\ pc \in {"check_path", "bind", "loop", "accept", "hang_up"} => mode # "stdout"
  /\ Unchecked \/ pc \in {"bind", "shutdown", "give_up", "exited", "killed"} =>
       ~ listening /\ path # "ours"
  /\ pc \in {"open", "configure", "check_path", "bind", "loop", "accept", "close", "shutdown",
             "give_up", "exited", "killed"} => ~ client

\* shutdown_modules has seen to the modules before `turn`, and in the end to all.
DevicesAreKnown ==
  /\ pc \in {"shutdown", "give_up"} => \A m \in Modules : m < turn => device[m] # "open"
  /\ pc = "exited" => \A m \in Modules : device[m] # "open"

\* Only a process that has ended has an exit status.
ExitIsKnown == exit # "none" => pc = "exited"

\* The properties are not inductive: each needs to know where in its rounds the
\* process is.
IInv ==
  /\ TypeOK
  /\ FieldsAreKnown
  /\ TagsAreKnown
  /\ LatePollsAreKnown
  /\ SocketIsKnown
  /\ DevicesAreKnown
  /\ ExitIsKnown

-----------------------------------------------------------------------------
(* Each part is kept by each step.                                         *)

\* What the tag buffer may be.
Buffers == [Slots -> [from : Modules \cup {-1}, last : BOOLEAN]]

\* The tag buffer stays one when it is reset and when an answer fills it.
LEMMA ResetIsBuffer == Reset \in Buffers
  BY DEF Reset, Buffers, Empty

\* Modules that are given up stay modules, and none has more than MaxOverdue
\* polls to catch up on.
LEMMA AbandonsKeepsType ==
  ASSUME TypeOK, NEW S, Abandons(S)
  PROVE  /\ working' \subseteq Modules /\ overran' \subseteq Modules
         /\ overdue' \in [Modules -> 0 .. MaxOverdue]
<1>1. working' \subseteq Modules /\ overran' \subseteq Modules
  BY DEF TypeOK, Abandons
<1>2. ASSUME NEW m \in Modules
      PROVE  (IF m \in S \cap working /\ overdue[m] < MaxOverdue THEN overdue[m] + 1 ELSE overdue[m])
               \in 0 .. MaxOverdue
  <2>1. overdue[m] \in 0 .. MaxOverdue
    BY DEF TypeOK
  <2> QED
    BY <2>1, BoundsAssumption
<1> QED
  BY <1>1, <1>2 DEF Abandons

LEMMA FilledIsBuffer ==
  ASSUME TypeOK, NEW k \in Nat, NEW isLast \in BOOLEAN
  PROVE  Filled(k, isLast) \in Buffers
<1>1. Empty \in [from : Modules \cup {-1}, last : BOOLEAN]
  BY DEF Empty
<1>2. Tag(turn, isLast) \in [from : Modules \cup {-1}, last : BOOLEAN]
  BY DEF Tag, TypeOK
<1> QED
  BY <1>1, <1>2 DEF Filled, Buffers, TypeOK

\* A process that starts, with nothing open and nothing on.
LEMMA InitIInv == Init => IInv
<1> SUFFICES ASSUME Init PROVE IInv
  OBVIOUS
<1> USE BoundsAssumption DEF Init, Modules, Slots
<1>1. TypeOK
  <2>1. tags \in Buffers
    BY ResetIsBuffer DEF Reset
  <2>2. device \in [Modules -> {"null", "open", "released"}]
    OBVIOUS
  <2>3. overdue \in [Modules -> 0 .. MaxOverdue]
    OBVIOUS
  <2>4. pc \in Locations /\ exit \in {"none", "success", "failure"}
    BY DEF Locations
  <2>5. path \in {"absent", "ours", "stale", "older", "newer"} /\ turn \in Modules
    OBVIOUS
  <2>6. i \in 1 .. MaxTags + 1 /\ kills \in 0 .. MaxKills /\ late \in Nat
    OBVIOUS
  <2>7. working \subseteq Modules /\ overran \subseteq Modules
    OBVIOUS
  <2> QED
    BY <2>1, <2>2, <2>3, <2>4, <2>5, <2>6, <2>7, Zenon DEF TypeOK, Buffers
<1>2. FieldsAreKnown /\ TagsAreKnown /\ LatePollsAreKnown
  BY DEF FieldsAreKnown, TagsAreKnown, LatePollsAreKnown
<1>3. SocketIsKnown /\ DevicesAreKnown /\ ExitIsKnown
  BY DEF SocketIsKnown, DevicesAreKnown, ExitIsKnown
<1> QED
  BY <1>1, <1>2, <1>3 DEF IInv

\* i moves on only below the end of the buffer, the turn only below the last one.
LEMMA KeepsType == ASSUME IInv, [Next]_vars PROVE TypeOK'
<1> USE BoundsAssumption DEF vars, process, socket, buffer, modules, IInv, TypeOK, TagsAreKnown,
      Locations, Modules, Slots, Empty
<1>1. CASE OpenModule
  BY <1>1 DEF OpenModule, Goes
<1>2. CASE ConfigureModule
  <2>1. turn' \in Modules
    <3>1. \/ turn' = 0
          \/ turn # ModuleCount - 1 /\ turn' = turn + 1
      BY <1>2 DEF ConfigureModule, IsLastTurn
    <3>2. turn \in 0 .. ModuleCount - 1 /\ ModuleCount \in Nat \ {0}
      OBVIOUS
    <3> QED
      BY ONLY <3>1, <3>2 DEF Modules
  <2>2. pc' \in Locations /\ UNCHANGED <<mode, stop, missed, exit, device, socket, buffer, modules, late, kills>>
    BY <1>2 DEF ConfigureModule, Goes
  <2> QED
    BY <2>1, <2>2
<1>3. CASE StartFails
  BY <1>3 DEF StartFails, Goes, GivesUp
<1>4. CASE CreateServer
  BY <1>4 DEF CreateServer, Goes
<1>5. CASE CreateServerFails
  BY <1>5 DEF CreateServerFails, Goes, GivesUp
<1>6. CASE AcceptLoop
  BY <1>6 DEF AcceptLoop, Goes
<1>7. CASE Accept
  BY <1>7 DEF Accept, Goes
<1>8. CASE AcceptFails
  BY <1>8 DEF AcceptFails, Goes
<1>9. CASE ServeLoop
  BY <1>9 DEF ServeLoop, Goes, Serving, Unserved
<1>10. CASE Pause
  BY <1>10 DEF Pause, Goes
<1>11. CASE HangUp
  BY <1>11 DEF HangUp, Goes
<1>12. CASE SendPoll
  <2>1. tags' \in Buffers
    BY <1>12, ResetIsBuffer DEF SendPoll, SendsPoll
  <2>2. working' \in {working, working \cup {turn}}
    BY <1>12 DEF SendPoll, SendsPoll
  <2>3. working' \subseteq Modules
    BY <2>2
  <2>4. late' \in Nat /\ i' \in 1 .. MaxTags + 1
    BY <1>12 DEF SendPoll, SendsPoll
  <2> QED
    BY <1>12, <2>1, <2>3, <2>4 DEF SendPoll, SendsPoll, Goes, Buffers
<1>13. CASE SendPollFails
  BY <1>13 DEF SendPollFails, Goes, AfterFailure, Reset
<1>14. CASE PollFails
  <2>1. /\ working' \subseteq Modules /\ overran' \subseteq Modules
        /\ overdue' \in [Modules -> 0 .. MaxOverdue]
    BY <1>14, AbandonsKeepsType DEF PollFails
  <2> QED
    BY <1>14, <2>1 DEF PollFails, Goes, AfterFailure
<1>15. CASE Answer
  <2>1. tags' \in Buffers
    <3>1. PICK k \in 0 .. MaxTags : tags' = Filled(k, TRUE)
      BY <1>15 DEF Answer
    <3>2. k \in Nat
      OBVIOUS
    <3> QED
      BY <3>1, <3>2, FilledIsBuffer
  <2> QED
    BY <1>15, <2>1 DEF Answer, Goes, Buffers
<1>16. CASE AnswerOfNotices
  <2>1. tags' \in Buffers
    <3>1. PICK k \in 1 .. MaxTags : tags' = Filled(k, TRUE)
      BY <1>16 DEF AnswerOfNotices
    <3>2. k \in Nat
      OBVIOUS
    <3> QED
      BY <3>1, <3>2, FilledIsBuffer
  <2>2. /\ working' \subseteq Modules /\ overran' \subseteq Modules
        /\ overdue' \in [Modules -> 0 .. MaxOverdue]
    BY <1>16, AbandonsKeepsType DEF AnswerOfNotices
  <2> QED
    BY <1>16, <2>1, <2>2 DEF AnswerOfNotices, Goes, Buffers
<1>17. CASE OverdueAnswer
  <2>1. tags' \in Buffers
    <3>1. PICK k \in 0 .. MaxTags : tags' = Filled(k, FALSE)
      BY <1>17 DEF OverdueAnswer
    <3>2. k \in Nat
      OBVIOUS
    <3> QED
      BY <3>1, <3>2, FilledIsBuffer
  <2>2. overdue' \in [Modules -> 0 .. MaxOverdue]
    <3>0. turn \in Modules /\ overdue \in [Modules -> 0 .. MaxOverdue] /\ overdue[turn] > 0
      BY <1>17 DEF OverdueAnswer
    <3> HIDE DEF IInv, TypeOK
    <3>1. turn \in Modules /\ overdue[turn] - 1 \in 0 .. MaxOverdue
      <4>1. overdue[turn] \in 0 .. MaxOverdue
        BY <3>0
      <4> QED
        BY <3>0, <4>1, BoundsAssumption
    <3>2. overdue' \in {overdue, [overdue EXCEPT ![turn] = overdue[turn] - 1]}
      BY <1>17 DEF OverdueAnswer
    <3> QED
      BY <3>0, <3>1, <3>2
  <2>3. working' \subseteq Modules /\ overran' \subseteq Modules
    BY <1>17 DEF OverdueAnswer
  <2> QED
    BY <1>17, <2>1, <2>2, <2>3 DEF OverdueAnswer, Goes, Buffers
<1>18. CASE SkipSlot
  BY <1>18 DEF SkipSlot, Goes
<1>19. CASE PrintEnds
  BY <1>19 DEF PrintEnds, Goes
<1>20. CASE LineTaken
  <2>1. i' \in 1 .. MaxTags + 1
    BY <1>20 DEF LineTaken, Writes
  <2>2. pc' \in Locations
    BY <1>20 DEF LineTaken, Goes, Writes
  <2>3. UNCHANGED <<mode, turn, stop, missed, exit, device, socket, tags, modules, late, kills>>
    BY <1>20 DEF LineTaken, Goes
  <2> QED
    BY <2>1, <2>2, <2>3
<1>21. CASE LineFails
  BY <1>21 DEF LineFails, Goes, Writes, Unserved
<1>22. CASE LineStopped
  BY <1>22 DEF LineStopped, LineFails, Goes, Writes, Unserved
<1>23. CASE NextModule
  BY <1>23 DEF NextModule, Goes, IsLastTurn
<1>24. CASE Close
  <2>1. path' \in {"absent", "ours", "stale", "older", "newer"} /\ listening' \in BOOLEAN /\ client' \in BOOLEAN
    BY <1>24 DEF Close
  <2> QED
    BY <1>24, <2>1 DEF Close, Goes
<1>25. CASE ShutdownModule
  <2>1. device' \in [Modules -> {"null", "open", "released"}]
    BY <1>25 DEF ShutdownModule, Released
  <2>2. turn' \in Modules
    <3>1. \/ turn' = turn
          \/ turn # ModuleCount - 1 /\ turn' = turn + 1
      BY <1>25 DEF ShutdownModule, IsLastTurn
    <3>2. turn \in 0 .. ModuleCount - 1 /\ ModuleCount \in Nat \ {0}
      OBVIOUS
    <3> QED
      BY ONLY <3>1, <3>2 DEF Modules
  <2>3. pc' \in Locations /\ exit' \in {"none", "success", "failure"}
    BY <1>25 DEF ShutdownModule
  <2> QED
    BY <1>25, <2>1, <2>2, <2>3 DEF ShutdownModule
<1>26. CASE Signal
  <2>1. pc' \in Locations
    BY <1>26 DEF Signal, CutsShort, Announced
  <2>2. missed' \in BOOLEAN /\ stop' \in BOOLEAN
    BY <1>26 DEF Signal
  <2>3. UNCHANGED <<mode, turn, exit, device, socket, buffer, modules, late, kills>>
    BY <1>26 DEF Signal
  <2> QED
    BY <2>1, <2>2, <2>3
<1>27. CASE Kill
  <2>1. working' \subseteq Modules /\ overran' \subseteq Modules
    BY <1>27 DEF Kill, Abandons
  <2>2. overdue' \in [Modules -> 0 .. MaxOverdue]
    BY <1>27 DEF Kill, Abandons
  <2>3. kills' \in 0 .. MaxKills
    BY <1>27 DEF Kill
  <2> QED
    BY <1>27, <2>1, <2>2, <2>3 DEF Kill
<1>28. CASE Restart
  <2>1. tags' \in Buffers
    BY <1>28, ResetIsBuffer DEF Restart, Starts, Reset
  <2>2. device' \in [Modules -> {"null", "open", "released"}] /\ turn' \in Modules
    BY <1>28 DEF Restart, Starts
  <2>3. i' \in 1 .. MaxTags + 1 /\ late' \in Nat
    BY <1>28 DEF Restart, Starts
  <2>4. /\ UNCHANGED <<mode, modules, kills>> /\ pc' = "open" /\ exit' = "none"
        /\ path' \in {path, "older"}
    BY <1>28 DEF Restart, Starts
  <2>5. {stop', missed', listening', client'} \subseteq BOOLEAN
    BY <1>28 DEF Restart, Starts
  <2> QED
    BY <2>1, <2>2, <2>3, <2>4, <2>5 DEF Buffers
<1>29. CASE Cleanup
  BY <1>29 DEF Cleanup
<1>30. ASSUME NEW m \in Modules, ModuleDone(m) PROVE TypeOK'
  <2>1. overdue' \in [Modules -> 0 .. MaxOverdue]
    BY <1>30, SMTT(30) DEF ModuleDone
  <2>2. working' \subseteq Modules
    BY <1>30 DEF ModuleDone
  <2> QED
    BY <1>30, <2>1, <2>2 DEF ModuleDone
<1>40. CASE Announce \/ AnnounceBlocks \/ StdoutIsRead
  <2>1. Announced \in Locations
    BY DEF Announced
  <2>2. pc' \in Locations
    BY <1>40, <2>1 DEF Announce, AnnounceBlocks, StdoutIsRead, Goes
  <2>3. UNCHANGED <<mode, turn, stop, missed, exit, device, socket, buffer, modules, late, kills>>
    BY <1>40 DEF Announce, AnnounceBlocks, StdoutIsRead, Goes
  <2> QED
    BY <2>2, <2>3
<1>41. CASE CheckPath
  BY <1>41 DEF CheckPath, PathIsFree, Goes
<1>42. CASE OtherTakesPath \/ OtherRemovesSocket
  BY <1>42 DEF OtherTakesPath, OtherRemovesSocket
<1>31. CASE UNCHANGED vars
  BY <1>31
<1> QED
  BY <1>40, <1>41, <1>42, <1>1, <1>2, <1>3, <1>4, <1>5, <1>6, <1>7, <1>8, <1>9, <1>10, <1>11, <1>12, <1>13, <1>14,
    <1>15, <1>16, <1>17, <1>18, <1>19, <1>20, <1>21, <1>22, <1>23, <1>24, <1>25, <1>26, <1>27,
    <1>28, <1>29, <1>30, <1>31 DEF Next, Steps, Answers, Others

\* A module becomes busy when it is polled; the answer, or giving it up, ends that.
LEMMA KeepsFields == ASSUME IInv, [Next]_vars PROVE FieldsAreKnown'
<1> USE BoundsAssumption DEF vars, process, socket, buffer, modules, IInv, TypeOK, FieldsAreKnown,
      ExitIsKnown, Modules
<1>1. CASE OpenModule \/ ConfigureModule \/ StartFails \/ CreateServer \/ CreateServerFails
  BY <1>1 DEF OpenModule, Goes, ConfigureModule, IsLastTurn, StartFails, GivesUp,
    CreateServer, CreateServerFails
<1>2. CASE AcceptLoop \/ Accept \/ AcceptFails \/ ServeLoop \/ Pause \/ HangUp
  BY <1>2 DEF AcceptLoop, Goes, Accept, AcceptFails, ServeLoop, Serving, Unserved, Pause, HangUp
<1>3. CASE SendPoll
  BY <1>3 DEF SendPoll, SendsPoll, Goes, Reset
<1>4. CASE PollFails
  BY <1>4 DEF PollFails, Goes, AfterFailure, Abandons
<1>5. CASE Answer
  BY <1>5 DEF Answer, Goes, Filled, Tag
<1>6. CASE AnswerOfNotices
  BY <1>6 DEF AnswerOfNotices, Goes, Filled, Tag, Abandons
<1>7. CASE OverdueAnswer
  BY <1>7 DEF OverdueAnswer, Goes, Filled, Tag
<1>8. CASE SendPollFails
  BY <1>8 DEF SendPollFails, Goes, AfterFailure, Reset
<1>9. CASE SkipSlot \/ PrintEnds \/ LineTaken \/ LineFails \/ LineStopped \/ NextModule
  BY <1>9 DEF SkipSlot, Goes, PrintEnds, LineTaken, Writes, LineFails, Unserved, LineStopped,
    NextModule, IsLastTurn
<1>10. CASE Close \/ ShutdownModule
  BY <1>10 DEF Close, Goes, ShutdownModule, IsLastTurn, Released
<1>11. CASE Kill
  BY <1>11 DEF Kill, Abandons
<1>12. CASE Restart
  BY <1>12 DEF Restart, Starts
<1>13. ASSUME NEW m \in Modules, ModuleDone(m) PROVE FieldsAreKnown'
  BY <1>13 DEF ModuleDone
<1>14. CASE Signal \/ Cleanup
  BY <1>14 DEF Signal, CutsShort, Announced, Cleanup
<1>40. CASE Announce \/ AnnounceBlocks \/ StdoutIsRead
  BY <1>40 DEF Announce, AnnounceBlocks, StdoutIsRead, Announced, Goes
<1>41. CASE CheckPath
  BY <1>41 DEF CheckPath, PathIsFree, Goes
<1>42. CASE OtherTakesPath \/ OtherRemovesSocket
  BY <1>42 DEF OtherTakesPath, OtherRemovesSocket
<1>15. CASE UNCHANGED vars
  BY <1>15
<1> QED
  BY <1>40, <1>41, <1>42, <1>1, <1>2, <1>3, <1>4, <1>5, <1>6, <1>7, <1>8, <1>9, <1>10, <1>11, <1>12, <1>13, <1>14,
    <1>15 DEF Next, Steps, Answers, Others

\* The buffer is emptied before a poll and filled by one answer.
LEMMA KeepsTags == ASSUME IInv, [Next]_vars PROVE TagsAreKnown'
<1> USE BoundsAssumption DEF vars, process, socket, buffer, modules, IInv, TypeOK, FieldsAreKnown,
      TagsAreKnown, Modules, Slots, Reset, Empty
<1>1. CASE OpenModule \/ ConfigureModule \/ StartFails \/ CreateServer \/ CreateServerFails
  BY <1>1 DEF OpenModule, Goes, ConfigureModule, IsLastTurn, StartFails, GivesUp,
    CreateServer, CreateServerFails
<1>2. CASE AcceptLoop \/ Accept \/ AcceptFails \/ ServeLoop \/ Pause \/ HangUp
  BY <1>2 DEF AcceptLoop, Goes, Accept, AcceptFails, ServeLoop, Serving, Unserved, Pause, HangUp
<1>3. CASE SendPoll
  BY <1>3 DEF SendPoll, SendsPoll, Goes, Reset
<1>4. CASE Answer
  <2>1. tags = [s \in Slots |-> [from |-> -1, last |-> FALSE]]
    BY <1>4 DEF Answer, Goes
  <2>2. PICK k \in 0 .. MaxTags : tags' = Filled(k, TRUE)
    BY <1>4 DEF Answer
  <2>3. \A s \in Slots : tags'[s] # Empty => tags'[s].from = turn /\ tags'[s].last
    BY <2>1, <2>2 DEF Filled, Tag
  <2> QED
    BY <1>4, <2>3 DEF Answer, Goes
<1>5. CASE AnswerOfNotices
  BY <1>5 DEF AnswerOfNotices, Goes, Filled, Tag, Abandons
<1>6. CASE OverdueAnswer
  <2>1. tags = [s \in Slots |-> [from |-> -1, last |-> FALSE]]
    BY <1>6 DEF OverdueAnswer, Goes
  <2>2. PICK k \in 0 .. MaxTags : tags' = Filled(k, FALSE)
    BY <1>6 DEF OverdueAnswer
  <2>3. \A s \in Slots : tags'[s] # Empty => tags'[s].from = turn
    BY <2>1, <2>2 DEF Filled, Tag
  <2>4. turn \in overran'
    BY <1>6 DEF OverdueAnswer
  <2> QED
    BY <1>6, <2>3, <2>4 DEF OverdueAnswer, Goes
<1>7. CASE SendPollFails \/ PollFails
  BY <1>7 DEF SendPollFails, Goes, AfterFailure, Reset, PollFails, Abandons
<1>8. CASE SkipSlot
  BY <1>8 DEF SkipSlot, Goes
<1>9. CASE LineTaken
  BY <1>9 DEF LineTaken, Goes, Writes
<1>10. CASE PrintEnds \/ LineFails \/ LineStopped \/ NextModule
  BY <1>10 DEF PrintEnds, Goes, LineFails, Writes, Unserved, LineStopped, NextModule, IsLastTurn
<1>11. CASE Close \/ ShutdownModule
  BY <1>11 DEF Close, Goes, ShutdownModule, IsLastTurn, Released
<1>12. CASE Restart
  BY <1>12 DEF Restart, Starts
<1>13. CASE Signal \/ Kill \/ Cleanup
  BY <1>13 DEF Signal, CutsShort, Announced, Kill, Abandons, Cleanup
<1>14. ASSUME NEW m \in Modules, ModuleDone(m) PROVE TagsAreKnown'
  BY <1>14 DEF ModuleDone
<1>40. CASE Announce \/ AnnounceBlocks \/ StdoutIsRead
  BY <1>40 DEF Announce, AnnounceBlocks, StdoutIsRead, Announced, Goes
<1>41. CASE CheckPath
  BY <1>41 DEF CheckPath, PathIsFree, Goes
<1>42. CASE OtherTakesPath \/ OtherRemovesSocket
  BY <1>42 DEF OtherTakesPath, OtherRemovesSocket
<1>15. CASE UNCHANGED vars
  BY <1>15
<1> QED
  BY <1>40, <1>41, <1>42, <1>1, <1>2, <1>3, <1>4, <1>5, <1>6, <1>7, <1>8, <1>9, <1>10, <1>11, <1>12, <1>13, <1>14,
    <1>15 DEF Next, Steps, Answers, Others

\* A round begins only without a signal, and polls each module at most once.
LEMMA KeepsLatePolls == ASSUME IInv, [Next]_vars PROVE LatePollsAreKnown'
<1> USE BoundsAssumption DEF vars, process, socket, buffer, modules, IInv, TypeOK,
      LatePollsAreKnown, Modules
<1>1. CASE OpenModule \/ ConfigureModule \/ StartFails \/ CreateServer \/ CreateServerFails
  BY <1>1 DEF OpenModule, Goes, ConfigureModule, IsLastTurn, StartFails, GivesUp,
    CreateServer, CreateServerFails
<1>2. CASE ServeLoop
  BY <1>2 DEF ServeLoop, Goes, Serving, Unserved
<1>3. CASE AcceptLoop \/ Accept \/ AcceptFails \/ Pause \/ HangUp
  BY <1>3 DEF AcceptLoop, Goes, Accept, AcceptFails, Pause, HangUp
<1>4. CASE SendPoll
  BY <1>4 DEF SendPoll, SendsPoll, Goes, Reset
<1>5. CASE SendPollFails \/ PollFails \/ Answer \/ AnswerOfNotices \/ OverdueAnswer
  BY <1>5 DEF SendPollFails, Goes, AfterFailure, Reset, PollFails, Abandons, Answer, Filled, Tag,
    AnswerOfNotices, OverdueAnswer
<1>6. CASE NextModule
  BY <1>6 DEF NextModule, Goes, IsLastTurn
<1>7. CASE SkipSlot \/ PrintEnds \/ LineTaken \/ LineFails \/ LineStopped
  BY <1>7 DEF SkipSlot, Goes, PrintEnds, LineTaken, Writes, LineFails, Unserved, LineStopped
<1>8. CASE Close \/ ShutdownModule
  BY <1>8 DEF Close, Goes, ShutdownModule, IsLastTurn, Released
<1>9. CASE Signal
  BY <1>9 DEF Signal, CutsShort, Announced
<1>10. CASE Restart
  BY <1>10 DEF Restart, Starts
<1>11. CASE Kill \/ Cleanup
  BY <1>11 DEF Kill, Abandons, Cleanup
<1>12. ASSUME NEW m \in Modules, ModuleDone(m) PROVE LatePollsAreKnown'
  BY <1>12 DEF ModuleDone
<1>40. CASE Announce \/ AnnounceBlocks \/ StdoutIsRead
  BY <1>40 DEF Announce, AnnounceBlocks, StdoutIsRead, Announced, Goes
<1>41. CASE CheckPath
  BY <1>41 DEF CheckPath, PathIsFree, Goes
<1>42. CASE OtherTakesPath \/ OtherRemovesSocket
  BY <1>42 DEF OtherTakesPath, OtherRemovesSocket
<1>13. CASE UNCHANGED vars
  BY <1>13
<1> QED
  BY <1>40, <1>41, <1>42, <1>1, <1>2, <1>3, <1>4, <1>5, <1>6, <1>7, <1>8, <1>9, <1>10, <1>11, <1>12, <1>13 DEF Next,
    Steps, Answers, Others

\* Socket and path go away in Close, a client in HangUp, all of them when killed.
LEMMA KeepsSocket == ASSUME IInv, [Next]_vars PROVE SocketIsKnown'
<1> USE BoundsAssumption DEF vars, process, socket, buffer, modules, IInv, TypeOK, SocketIsKnown,
      Unchecked, ExitIsKnown
<1>1. CASE ConfigureModule
  BY <1>1 DEF ConfigureModule, Goes, IsLastTurn
<1>2. CASE CreateServer
  BY <1>2 DEF CreateServer, Goes
<1>3. CASE OpenModule \/ StartFails \/ CreateServerFails
  BY <1>3 DEF OpenModule, Goes, StartFails, GivesUp, CreateServerFails
<1>4. CASE Accept
  BY <1>4 DEF Accept, Goes
<1>5. CASE HangUp
  BY <1>5 DEF HangUp, Goes
<1>6. CASE AcceptLoop \/ AcceptFails \/ ServeLoop \/ Pause
  BY <1>6 DEF AcceptLoop, Goes, AcceptFails, ServeLoop, Serving, Unserved, Pause
<1>7. CASE SendPoll \/ SendPollFails \/ PollFails \/ Answer \/ AnswerOfNotices \/ OverdueAnswer
  BY <1>7 DEF SendPoll, SendsPoll, Goes, Reset, SendPollFails, AfterFailure, PollFails, Abandons,
    Answer, Filled, Tag, AnswerOfNotices, OverdueAnswer
<1>8. CASE LineFails
  BY <1>8 DEF LineFails, Goes, Writes, Unserved
<1>9. CASE LineStopped
  BY <1>9 DEF LineStopped, LineFails, Goes, Writes, Unserved
<1>10. CASE SkipSlot \/ PrintEnds \/ LineTaken \/ NextModule
  BY <1>10 DEF SkipSlot, Goes, PrintEnds, LineTaken, Writes, NextModule, IsLastTurn
<1>11. CASE Close
  BY <1>11 DEF Close, Goes
<1>12. CASE ShutdownModule
  BY <1>12 DEF ShutdownModule, IsLastTurn, Released
<1>13. CASE Kill
  BY <1>13 DEF Kill, Abandons
<1>14. CASE Restart
  BY <1>14 DEF Restart, Starts
<1>15. CASE Cleanup
  BY <1>15 DEF Cleanup
<1>16. CASE Signal
  BY <1>16 DEF Signal, CutsShort, Announced
<1>17. ASSUME NEW m \in Modules, ModuleDone(m) PROVE SocketIsKnown'
  BY <1>17 DEF ModuleDone
<1>40. CASE Announce \/ AnnounceBlocks \/ StdoutIsRead
  BY <1>40 DEF Announce, AnnounceBlocks, StdoutIsRead, Announced, Goes
<1>41. CASE CheckPath
  BY <1>41 DEF CheckPath, PathIsFree, Goes
<1>42. CASE OtherTakesPath \/ OtherRemovesSocket
  BY <1>42 DEF OtherTakesPath, OtherRemovesSocket
<1>18. CASE UNCHANGED vars
  BY <1>18
<1> QED
  BY <1>40, <1>41, <1>42, <1>1, <1>2, <1>3, <1>4, <1>5, <1>6, <1>7, <1>8, <1>9, <1>10, <1>11, <1>12, <1>13, <1>14,
    <1>15, <1>16, <1>17, <1>18 DEF Next, Steps, Answers, Others

\* The exit status comes with the last step.
LEMMA KeepsExit == ASSUME IInv, [Next]_vars PROVE ExitIsKnown'
<1> USE BoundsAssumption DEF vars, process, socket, buffer, modules, IInv, ExitIsKnown
<1>1. CASE OpenModule \/ ConfigureModule \/ StartFails \/ CreateServer \/ CreateServerFails
  BY <1>1 DEF OpenModule, Goes, ConfigureModule, IsLastTurn, StartFails, GivesUp,
    CreateServer, CreateServerFails
<1>2. CASE AcceptLoop \/ Accept \/ AcceptFails \/ ServeLoop \/ Pause \/ HangUp
  BY <1>2 DEF AcceptLoop, Goes, Accept, AcceptFails, ServeLoop, Serving, Unserved, Pause, HangUp
<1>3. CASE SendPoll \/ SendPollFails \/ PollFails \/ Answer \/ AnswerOfNotices \/ OverdueAnswer
  BY <1>3 DEF SendPoll, SendsPoll, Goes, Reset, SendPollFails, AfterFailure, PollFails, Abandons,
    Answer, Filled, Tag, AnswerOfNotices, OverdueAnswer
<1>4. CASE SkipSlot \/ PrintEnds \/ LineTaken \/ LineFails \/ LineStopped \/ NextModule
  BY <1>4 DEF SkipSlot, Goes, PrintEnds, LineTaken, Writes, LineFails, Unserved, LineStopped,
    NextModule, IsLastTurn
<1>5. CASE ShutdownModule
  BY <1>5 DEF ShutdownModule, IsLastTurn, Released
<1>6. CASE Close
  BY <1>6 DEF Close, Goes
<1>7. CASE Restart
  BY <1>7 DEF Restart, Starts
<1>8. CASE Signal \/ Kill \/ Cleanup
  BY <1>8 DEF Signal, CutsShort, Announced, Kill, Abandons, Cleanup
<1>9. ASSUME NEW m \in Modules, ModuleDone(m) PROVE ExitIsKnown'
  BY <1>9 DEF ModuleDone
<1>40. CASE Announce \/ AnnounceBlocks \/ StdoutIsRead
  BY <1>40 DEF Announce, AnnounceBlocks, StdoutIsRead, Announced, Goes
<1>41. CASE CheckPath
  BY <1>41 DEF CheckPath, PathIsFree, Goes
<1>42. CASE OtherTakesPath \/ OtherRemovesSocket
  BY <1>42 DEF OtherTakesPath, OtherRemovesSocket
<1>10. CASE UNCHANGED vars
  BY <1>10
<1> QED
  BY <1>40, <1>41, <1>42, <1>1, <1>2, <1>3, <1>4, <1>5, <1>6, <1>7, <1>8, <1>9, <1>10 DEF Next, Steps, Answers, Others

\* shutdown_modules goes through the modules in order.
LEMMA KeepsDevices == ASSUME IInv, [Next]_vars PROVE DevicesAreKnown'
<1> USE BoundsAssumption DEF vars, process, socket, buffer, modules, IInv, TypeOK, DevicesAreKnown,
      Modules
<1>1. CASE OpenModule
  BY <1>1 DEF OpenModule, Goes
<1>2. CASE StartFails
  BY <1>2 DEF StartFails, Goes, GivesUp
<1>3. CASE CreateServerFails
  BY <1>3 DEF CreateServerFails, Goes, GivesUp
<1>4. CASE ConfigureModule \/ CreateServer
  BY <1>4 DEF ConfigureModule, Goes, IsLastTurn, CreateServer
<1>5. CASE AcceptLoop \/ Accept \/ AcceptFails \/ ServeLoop \/ Pause \/ HangUp
  BY <1>5 DEF AcceptLoop, Goes, Accept, AcceptFails, ServeLoop, Serving, Unserved, Pause, HangUp
<1>6. CASE SendPoll \/ SendPollFails \/ PollFails \/ Answer \/ AnswerOfNotices \/ OverdueAnswer
  BY <1>6 DEF SendPoll, SendsPoll, Goes, Reset, SendPollFails, AfterFailure, PollFails, Abandons,
    Answer, Filled, Tag, AnswerOfNotices, OverdueAnswer
<1>7. CASE SkipSlot \/ PrintEnds \/ LineTaken \/ LineFails \/ LineStopped \/ NextModule
  BY <1>7 DEF SkipSlot, Goes, PrintEnds, LineTaken, Writes, LineFails, Unserved, LineStopped,
    NextModule, IsLastTurn
<1>8. CASE Close
  BY <1>8 DEF Close, Goes
<1>9. CASE ShutdownModule
  BY <1>9 DEF ShutdownModule, IsLastTurn, Released
<1>10. CASE Restart
  BY <1>10 DEF Restart, Starts
<1>11. CASE Signal \/ Kill \/ Cleanup
  BY <1>11 DEF Signal, CutsShort, Announced, Kill, Abandons, Cleanup
<1>12. ASSUME NEW m \in Modules, ModuleDone(m) PROVE DevicesAreKnown'
  BY <1>12 DEF ModuleDone
<1>40. CASE Announce \/ AnnounceBlocks \/ StdoutIsRead
  BY <1>40 DEF Announce, AnnounceBlocks, StdoutIsRead, Announced, Goes
<1>41. CASE CheckPath
  BY <1>41 DEF CheckPath, PathIsFree, Goes
<1>42. CASE OtherTakesPath \/ OtherRemovesSocket
  BY <1>42 DEF OtherTakesPath, OtherRemovesSocket
<1>13. CASE UNCHANGED vars
  BY <1>13
<1> QED
  BY <1>40, <1>41, <1>42, <1>1, <1>2, <1>3, <1>4, <1>5, <1>6, <1>7, <1>8, <1>9, <1>10, <1>11, <1>12, <1>13 DEF Next,
    Steps, Answers, Others

-----------------------------------------------------------------------------
(* The theorems.                                                           *)

\* The invariant of the specification.
LEMMA SpecIInv == Spec => []IInv
<1>1. IInv /\ [Next]_vars => IInv'
  BY KeepsType, KeepsFields, KeepsTags, KeepsLatePolls, KeepsSocket, KeepsExit, KeepsDevices DEF IInv
<1> QED
  BY <1>1, InitIInv, PTL DEF Spec

\* Every variable keeps its type; i stays an index of the tag buffer or ends
\* one behind it, and the turn is always a module's.
THEOREM TypeCorrect == Spec => []TypeOK
<1>1. IInv => TypeOK
  BY DEF IInv
<1> QED
  BY <1>1, SpecIInv, PTL

\* Two antennas are powered at once only while one of the modules works on a
\* poll its host has given up: of polls still awaited there is never more than one.
THEOREM OverlapsAreOfOverduePolls == Spec => []OverlapsAreOverdue
<1>1. IInv => OverlapsAreOverdue
  BY DEF IInv, FieldsAreKnown, OverlapsAreOverdue, Field
<1> QED
  BY <1>1, SpecIInv, PTL

\* What is printed is a tag of the module whose turn it is.
THEOREM TagsBelongToTheModule == Spec => []TagsAreTheModules
<1>1. IInv => TagsAreTheModules
  BY BoundsAssumption DEF IInv, TypeOK, TagsAreKnown, TagsAreTheModules, Writes, Slots
<1> QED
  BY <1>1, SpecIInv, PTL

\* A signal is followed by at most one more poll of each module.
THEOREM FewPollsAreLate == Spec => []LatePollsAreFew
<1>1. IInv => LatePollsAreFew
  BY DEF IInv, LatePollsAreKnown, LatePollsAreFew
<1> QED
  BY <1>1, SpecIInv, PTL

\* Whatever way main returns, no module is left open and no socket behind.
THEOREM NothingIsLeft == Spec => []LeavesNothing
<1>1. IInv => LeavesNothing
  BY DEF IInv, SocketIsKnown, DevicesAreKnown, LeavesNothing
<1> QED
  BY <1>1, SpecIInv, PTL

-----------------------------------------------------------------------------
(* How long the process goes on once a signal has come.                    *)

\* Steps from one module's poll to the next one's, at most.
TurnSteps == MaxTags + 4

\* The most steps to the end of the round from the end of this module's turn.
RoundLeft == (ModuleCount - 1 - turn) * TurnSteps

\* The most steps the process takes to its end once should_stop is set: the
\* round over the modules is finished, whatever it has come to, then each
\* module is shut down.
StepsLeft ==
  CASE pc \in {"exited", "killed"} -> 0
    [] pc \in {"shutdown", "give_up"} -> ModuleCount - turn
    [] pc = "close" -> ModuleCount + 1
    [] pc = "loop" -> ModuleCount + 2
    [] pc \in {"hang_up", "bind"} -> ModuleCount + 3
    [] pc \in {"serve", "copy", "check_path"} -> ModuleCount + 4
    [] pc \in {"pause", "announcing"} -> ModuleCount + 5
    [] pc = "announce" -> ModuleCount + 6
    [] pc = "accept" -> ModuleCount + 7
    [] pc = "configure" -> ModuleCount + 5 + 2 * (ModuleCount - turn)
    [] pc = "open" -> ModuleCount + 6 + 2 * (ModuleCount - turn)
    [] pc = "next" -> ModuleCount + 6 + RoundLeft
    [] pc = "print" -> ModuleCount + 8 + RoundLeft + MaxTags - i
    [] pc = "answer" -> ModuleCount + 8 + RoundLeft + MaxTags
    [] pc = "poll" -> ModuleCount + 9 + RoundLeft + MaxTags

\* The bound on them.
MostSteps == ModuleCount * (MaxTags + 5) + 5

\* What the process itself does, also at a client's or an output's word.
Moves == Steps \/ Answers \/ Accept \/ AcceptFails \/ LineTaken \/ LineFails

\* With should_stop set every step of the process brings its end closer, and
\* nothing the modules, clients or outputs do puts it off.
EndComesCloser ==
  [][stop /\ stop' =>
       /\ StepsLeft \in 0 .. MostSteps
       /\ 0 <= StepsLeft' /\ StepsLeft' <= StepsLeft
       /\ Moves => StepsLeft' < StepsLeft]_vars

\* A process that is about to accept has not been asked to stop, except by the
\* signal that came between its check and accept.  Besides accept it sleeps over
\* a full stdout only.
SleepsUnasked == stop /\ ~ missed => pc # "accept"

\* The steps left in a round, and what a turn takes off them.
LEMMA RoundsFall ==
  ASSUME NEW N \in Nat \ {0}, NEW R \in Nat, NEW t \in 0 .. N - 1
  PROVE  /\ (N - 1 - t) * R \in 0 .. (N - 1) * R
         /\ (N - 1 - (t + 1)) * R + R = (N - 1 - t) * R
<1>1. (N - 1) * R - (N - 1 - t) * R = t * R
  OBVIOUS
<1>2. t * R >= 0 /\ (N - 1 - t) * R >= 0
  OBVIOUS
<1>3. (N - 1) * R \in Int /\ (N - 1 - t) * R \in Int /\ t * R \in Int
  OBVIOUS
<1>4. (N - 1 - (t + 1)) * R + R = (N - 1 - t) * R
  OBVIOUS
<1> QED
  BY <1>1, <1>2, <1>3, <1>4

\* A new turn has fewer steps left than the end of the one before.
LEMMA TurnsFall ==
  ASSUME NEW N \in Nat, NEW M \in Nat, NEW r \in Nat, NEW q \in Nat, q + (M + 4) = r
  PROVE  N + 9 + q + M < N + 6 + r
OBVIOUS

\* RoundLeft is a number, and a turn takes TurnSteps off it.
RoundLeftIsKnown ==
  /\ RoundLeft \in 0 .. (ModuleCount - 1) * TurnSteps
  /\ IsLastTurn => RoundLeft = 0

LEMMA RoundLeftIs == TypeOK => RoundLeftIsKnown
<1> SUFFICES ASSUME TypeOK PROVE RoundLeftIsKnown
  OBVIOUS
<1>1. ModuleCount \in Nat \ {0} /\ TurnSteps \in Nat /\ turn \in 0 .. ModuleCount - 1
  BY BoundsAssumption DEF TypeOK, Modules, TurnSteps
<1>2. RoundLeft \in 0 .. (ModuleCount - 1) * TurnSteps
  BY <1>1, RoundsFall DEF RoundLeft
<1>3. IsLastTurn => ModuleCount - 1 - turn = 0
  BY <1>1 DEF IsLastTurn
<1>4. 0 * TurnSteps = 0
  BY <1>1
<1> QED
  BY <1>2, <1>3, <1>4 DEF RoundLeftIsKnown, RoundLeft

\* StepsLeft, place by place.
StepsLeftByPlace ==
  /\ pc \in {"exited", "killed"} => StepsLeft = 0
  /\ pc \in {"shutdown", "give_up"} => StepsLeft = ModuleCount - turn
  /\ pc = "close" => StepsLeft = ModuleCount + 1
  /\ pc = "loop" => StepsLeft = ModuleCount + 2
  /\ pc \in {"hang_up", "bind"} => StepsLeft = ModuleCount + 3
  /\ pc \in {"serve", "copy", "check_path"} => StepsLeft = ModuleCount + 4
  /\ pc \in {"pause", "announcing"} => StepsLeft = ModuleCount + 5
  /\ pc = "announce" => StepsLeft = ModuleCount + 6
  /\ pc = "accept" => StepsLeft = ModuleCount + 7
  /\ pc = "configure" => StepsLeft = ModuleCount + 5 + 2 * (ModuleCount - turn)
  /\ pc = "open" => StepsLeft = ModuleCount + 6 + 2 * (ModuleCount - turn)
  /\ pc = "next" => StepsLeft = ModuleCount + 6 + RoundLeft
  /\ pc = "print" => StepsLeft = ModuleCount + 8 + RoundLeft + MaxTags - i
  /\ pc = "answer" => StepsLeft = ModuleCount + 8 + RoundLeft + MaxTags
  /\ pc = "poll" => StepsLeft = ModuleCount + 9 + RoundLeft + MaxTags

\* The cases of StepsLeft do not overlap.
LEMMA StepsLeftIs == StepsLeftByPlace
<1>1. /\ pc \in {"exited", "killed"} => StepsLeft = 0
      /\ pc \in {"shutdown", "give_up"} => StepsLeft = ModuleCount - turn
      /\ pc = "close" => StepsLeft = ModuleCount + 1
      /\ pc = "loop" => StepsLeft = ModuleCount + 2
  BY DEF StepsLeft
<1>2. /\ pc \in {"hang_up", "bind"} => StepsLeft = ModuleCount + 3
      /\ pc \in {"serve", "copy", "check_path"} => StepsLeft = ModuleCount + 4
      /\ pc \in {"pause", "announcing"} => StepsLeft = ModuleCount + 5
      /\ pc = "announce" => StepsLeft = ModuleCount + 6
      /\ pc = "accept" => StepsLeft = ModuleCount + 7
  BY DEF StepsLeft
<1>3. /\ pc = "configure" => StepsLeft = ModuleCount + 5 + 2 * (ModuleCount - turn)
      /\ pc = "open" => StepsLeft = ModuleCount + 6 + 2 * (ModuleCount - turn)
  BY DEF StepsLeft
<1>4. /\ pc = "next" => StepsLeft = ModuleCount + 6 + RoundLeft
      /\ pc = "print" => StepsLeft = ModuleCount + 8 + RoundLeft + MaxTags - i
  BY DEF StepsLeft
<1>5. /\ pc = "answer" => StepsLeft = ModuleCount + 8 + RoundLeft + MaxTags
      /\ pc = "poll" => StepsLeft = ModuleCount + 9 + RoundLeft + MaxTags
  BY DEF StepsLeft
<1> QED
  BY <1>1, <1>2, <1>3, <1>4, <1>5 DEF StepsLeftByPlace

\* The bound on the steps left: a poll at the start of a round is the worst.
LEMMA StepsLeftIsSmall ==
  ASSUME TypeOK
  PROVE  StepsLeft \in 0 .. MostSteps
<1>1. /\ ModuleCount \in Nat \ {0} /\ MaxTags \in Nat \ {0}
      /\ turn \in 0 .. ModuleCount - 1 /\ i \in 1 .. MaxTags + 1 /\ pc \in Locations
  BY BoundsAssumption DEF TypeOK, Modules
<1> DEFINE P == (ModuleCount - 1) * TurnSteps
<1>2. RoundLeft \in 0 .. P /\ P \in Nat
  BY <1>1, RoundLeftIs DEF RoundLeftIsKnown, TurnSteps
<1>3. MostSteps = ModuleCount + 9 + P + MaxTags
  BY <1>1 DEF MostSteps, TurnSteps
<1>4. MostSteps >= 6 * ModuleCount + 5
  <2>1. ModuleCount * (MaxTags + 5) - 6 * ModuleCount = ModuleCount * (MaxTags - 1)
    BY <1>1
  <2>2. ModuleCount * (MaxTags - 1) >= 0
    BY <1>1
  <2>3. ModuleCount * (MaxTags + 5) \in Int /\ ModuleCount * (MaxTags - 1) \in Int
    BY <1>1
  <2> QED
    BY <1>1, <2>1, <2>2, <2>3 DEF MostSteps
<1>5. MostSteps \in Nat
  BY <1>1, <1>2, <1>3
<1> HIDE DEF P
<1>6. CASE pc \in {"next", "print", "answer", "poll"}
  <2>1. /\ StepsLeft >= 0 /\ StepsLeft <= ModuleCount + 9 + RoundLeft + MaxTags
        /\ StepsLeft \in Int
    BY <1>1, <1>2, <1>6, StepsLeftIs DEF StepsLeftByPlace
  <2> QED
    BY <1>1, <1>2, <1>3, <1>5, <2>1
<1>7. CASE pc \notin {"next", "print", "answer", "poll"}
  <2>1. StepsLeft \in 0 .. 3 * ModuleCount + 6
    BY <1>1, <1>7, StepsLeftIs DEF StepsLeftByPlace, Locations
  <2> QED
    BY <1>1, <1>4, <1>5, <2>1
<1> QED
  BY <1>6, <1>7

\* A signal is followed by no more than MostSteps steps of the process, wherever
\* it comes and however modules and outputs behave: scan_all_modules, which does
\* not look at should_stop between two modules, finishes its round at the most
\* (lines 308-314), and every other loop looks at it each time.
THEOREM EndIsNear == Spec => EndComesCloser
<1> DEFINE Sinks ==
      stop /\ stop' =>
       /\ StepsLeft \in 0 .. MostSteps
       /\ 0 <= StepsLeft' /\ StepsLeft' <= StepsLeft
       /\ Moves => StepsLeft' < StepsLeft
<1>1. IInv /\ IInv' /\ [Next]_vars => [Sinks]_vars
  <2> SUFFICES ASSUME IInv, IInv', Next, stop, stop' PROVE Sinks
    OBVIOUS
  <2>1. /\ StepsLeft \in 0 .. MostSteps /\ StepsLeft' \in 0 .. MostSteps
        /\ RoundLeftIsKnown /\ RoundLeftIsKnown'
    <3>1. (TypeOK => StepsLeft \in 0 .. MostSteps /\ RoundLeftIsKnown)'
      BY StepsLeftIsSmall, RoundLeftIs, PTL
    <3> QED
      BY <3>1, StepsLeftIsSmall, RoundLeftIs DEF IInv
  <2>2. /\ ModuleCount \in Nat \ {0} /\ MaxTags \in Nat \ {0}
        /\ turn \in 0 .. ModuleCount - 1 /\ i \in 1 .. MaxTags + 1
    BY BoundsAssumption DEF IInv, TypeOK, Modules
  <2>3. StepsLeftByPlace /\ StepsLeftByPlace'
    BY StepsLeftIs, PTL
  <2>4. /\ (ModuleCount - 1) * TurnSteps \in Nat
        /\ RoundLeft \in Nat /\ RoundLeft' \in Nat /\ StepsLeft \in Nat /\ StepsLeft' \in Nat
    <3>1. (ModuleCount - 1) * TurnSteps \in Nat
      BY <2>2 DEF TurnSteps
    <3>2. MostSteps \in Nat
      BY <2>2 DEF MostSteps
    <3> QED
      BY <2>1, <3>1, <3>2 DEF RoundLeftIsKnown
  <2>5. ASSUME Moves PROVE StepsLeft' < StepsLeft
    <3> USE <2>2, <2>3, <2>4 DEF StepsLeftByPlace
    <3>1. CASE OpenModule
      <4>1. pc = "open" /\ pc' = "configure" /\ turn' = turn
        BY <3>1 DEF OpenModule, Goes
      <4> QED
        BY <4>1
    <3>2. CASE ConfigureModule
      <4>1. /\ pc = "configure"
            /\ \/ pc' = "open" /\ turn' = turn + 1
               \/ pc' = "announce"
        BY <3>2 DEF ConfigureModule, Goes
      <4> QED
        BY <4>1
    <3>3. CASE StartFails \/ CheckPath \/ CreateServer \/ CreateServerFails
      <4>1. \/ pc \in {"open", "configure"} /\ pc' = "give_up" /\ turn' = 0
            \/ pc = "check_path" /\ pc' \in {"bind", "give_up"} /\ turn' = 0
            \/ pc = "bind" /\ pc' = "loop"
            \/ pc = "bind" /\ pc' = "give_up" /\ turn' = 0
        BY <3>3 DEF StartFails, CheckPath, CreateServer, CreateServerFails, GivesUp, Goes
      <4> QED
        BY <4>1
    <3>4. CASE AcceptLoop \/ Accept \/ AcceptFails
      <4>1. \/ pc = "loop" /\ pc' = "close"
            \/ pc = "accept" /\ pc' \in {"announce", "serve", "close"}
        BY <3>4 DEF AcceptLoop, Accept, AcceptFails, Goes
      <4> QED
        BY <4>1
    <3>5. CASE ServeLoop \/ Pause \/ HangUp
      <4>1. \/ pc = "serve" /\ pc' \in {"close", "hang_up"}
            \/ pc = "pause" /\ pc' = "serve"
            \/ pc = "hang_up" /\ pc' = "loop"
        BY <3>5 DEF ServeLoop, Serving, Unserved, Pause, HangUp, Goes
      <4> QED
        BY <4>1
    <3>6. ASSUME turn' = turn PROVE RoundLeft' = RoundLeft
      BY <3>6 DEF RoundLeft
    <3>7. CASE SendPoll \/ SendPollFails \/ PollFails
      <4>1. /\ turn' = turn
            /\ \/ pc = "poll" /\ pc' \in {"answer", "next"}
               \/ pc = "answer" /\ pc' = "next"
        BY <3>7 DEF SendPoll, SendsPoll, SendPollFails, PollFails, AfterFailure, Goes
      <4> QED
        BY <3>6, <4>1
    <3>8. CASE Answers
      <4>1. turn' = turn /\ i' = i /\ pc = "answer" /\ pc' = "print"
        BY <3>8 DEF Answers, Answer, AnswerOfNotices, OverdueAnswer, Goes
      <4> QED
        BY <3>6, <4>1
    <3>9. CASE SkipSlot \/ PrintEnds
      <4>1. /\ turn' = turn
            /\ pc = "print"
            /\ (pc' = "print" /\ i' = i + 1) \/ pc' = "next"
        BY <3>9 DEF SkipSlot, PrintEnds, Goes
      <4> QED
        BY <3>6, <4>1
    <3>10. CASE LineTaken
      BY <3>10 DEF LineTaken
    <3>11. CASE LineFails \/ LineStopped
      <4>1. pc \in {"print", "copy"} /\ pc' \in {"close", "hang_up"}
        BY <3>11 DEF LineFails, LineStopped, Writes, Unserved, Goes
      <4> QED
        BY <4>1
    <3>12. CASE NextModule
      <4>1. CASE IsLastTurn
        <5>1. pc = "next" /\ pc' = "pause"
          BY <3>12, <4>1 DEF NextModule, Goes
        <5> QED
          BY <5>1
      <4>2. CASE ~ IsLastTurn
        <5>1. pc = "next" /\ pc' = "poll" /\ turn' = turn + 1
          BY <3>12, <4>2 DEF NextModule, Goes
        <5>2. TurnSteps \in Nat /\ TurnSteps = MaxTags + 4
          BY DEF TurnSteps
        <5>3. RoundLeft' + TurnSteps = RoundLeft
          BY <5>1, <5>2, RoundsFall DEF RoundLeft
        <5>4. StepsLeft = ModuleCount + 6 + RoundLeft
          BY <5>1
        <5>5. StepsLeft' = ModuleCount + 9 + RoundLeft' + MaxTags
          BY <5>1
        <5> QED
          BY <5>2, <5>3, <5>4, <5>5, TurnsFall
      <4> QED
        BY <4>1, <4>2
    <3>13. CASE Close
      <4>1. pc = "close" /\ pc' = "shutdown" /\ turn' = 0
        BY <3>13 DEF Close, Goes
      <4> QED
        BY <4>1
    <3>14. CASE ShutdownModule
      <4>1. /\ pc \in {"shutdown", "give_up"}
            /\ pc' = "exited" \/ (pc' = pc /\ turn' = turn + 1)
        BY <3>14 DEF ShutdownModule
      <4> QED
        BY <4>1
    <3>15. CASE Announce \/ AnnounceBlocks
      <4>1. pc = "announce" /\ pc' \in {"announcing", "serve", "check_path"}
        BY <3>15 DEF Announce, AnnounceBlocks, Announced, Goes
      <4> QED
        BY <4>1
    <3> QED
      BY <2>5, <3>1, <3>2, <3>3, <3>4, <3>5, <3>7, <3>8, <3>9, <3>10, <3>11, <3>12, <3>13,
         <3>14, <3>15 DEF Moves, Steps
  <2>6. ASSUME ~ Moves PROVE StepsLeft' <= StepsLeft
    <3>1. CASE UNCHANGED <<pc, turn, i>>
      <4>1. StepsLeft' = StepsLeft
        BY <3>1 DEF StepsLeft, RoundLeft
      <4> QED
        BY <2>4, <4>1
    <3>2. CASE \/ pc = "accept" /\ pc' = "loop"
               \/ pc = "announcing" /\ pc' \in {"serve", "check_path"}
               \/ pc' = "killed"
      BY <2>2, <2>3, <2>4, <3>2 DEF StepsLeftByPlace
    <3>3. CASE Restart
      BY <3>3 DEF Restart, Starts
    <3>4. CASE Signal \/ StdoutIsRead \/ Kill
      BY <3>1, <3>2, <3>4 DEF Signal, CutsShort, Announced, StdoutIsRead, Goes, Kill, process,
           buffer
    <3>6. CASE Cleanup \/ OtherTakesPath \/ OtherRemovesSocket
      BY <3>1, <3>6 DEF Cleanup, OtherTakesPath, OtherRemovesSocket, process, buffer
    <3>5. ASSUME NEW m \in Modules, ModuleDone(m) PROVE UNCHANGED <<pc, turn, i>>
      BY <3>5 DEF ModuleDone, process, buffer
    <3> QED
      BY <2>6, <3>1, <3>3, <3>4, <3>5, <3>6 DEF Next, Moves, Others
  <2> QED
    BY <2>1, <2>4, <2>5, <2>6
<1>2. [][Sinks]_vars => EndComesCloser
  BY DEF EndComesCloser
<1> QED
  BY <1>1, <1>2, SpecIInv, PTL DEF Spec

\* A signal that is not the one in the gap finds the process awake: it never
\* again goes to accept.
THEOREM SleepIsUnasked == Spec => []SleepsUnasked
<1>1. Init => SleepsUnasked
  BY DEF Init, SleepsUnasked
<1>2. SleepsUnasked /\ [Next]_vars => SleepsUnasked'
  <2> SUFFICES ASSUME SleepsUnasked, [Next]_vars, stop', ~ missed'
               PROVE  pc' # "accept"
    BY DEF SleepsUnasked
  <2> USE DEF SleepsUnasked
  <2>1. CASE Signal
    BY <2>1 DEF Signal, CutsShort, Announced
  <2>2. CASE AcceptLoop \/ Accept \/ AcceptFails \/ ServeLoop \/ Pause \/ HangUp
    BY <2>2 DEF AcceptLoop, Accept, AcceptFails, ServeLoop, Serving, Unserved, Pause, HangUp,
         Goes
  <2>3. CASE OpenModule \/ ConfigureModule \/ StartFails \/ CreateServer \/ CreateServerFails
    BY <2>3 DEF OpenModule, ConfigureModule, StartFails, CreateServer,
         CreateServerFails, GivesUp, Goes
  <2>4. CASE SendPoll \/ SendPollFails \/ PollFails \/ Answers
    BY <2>4 DEF SendPoll, SendsPoll, SendPollFails, PollFails, AfterFailure, Answers, Answer,
         AnswerOfNotices, OverdueAnswer, Goes
  <2>5. CASE SkipSlot \/ PrintEnds \/ LineStopped \/ LineTaken \/ LineFails \/ NextModule
    BY <2>5 DEF SkipSlot, PrintEnds, LineStopped, LineTaken, LineFails, Unserved, NextModule,
         Goes
  <2>6. CASE Close \/ ShutdownModule \/ Kill \/ Restart
    BY <2>6 DEF Close, ShutdownModule, Kill, Restart, Starts, Goes
  <2>7. CASE Cleanup \/ UNCHANGED vars
    BY <2>7 DEF Cleanup, vars, process
  <2>8. ASSUME NEW m \in Modules, ModuleDone(m) PROVE pc' # "accept"
    BY <2>8 DEF ModuleDone, process
  <2>9. CASE \/ Announce \/ AnnounceBlocks \/ StdoutIsRead \/ CheckPath
             \/ OtherTakesPath \/ OtherRemovesSocket
    BY <2>9 DEF Announce, AnnounceBlocks, StdoutIsRead, Announced, CheckPath, OtherTakesPath,
         OtherRemovesSocket, Goes, process
  <2> QED
    BY <2>1, <2>2, <2>3, <2>4, <2>5, <2>6, <2>7, <2>8, <2>9 DEF Next, Steps, Others
<1> QED
  BY <1>1, <1>2, PTL DEF Spec

-----------------------------------------------------------------------------
(* What others have left at the socket path.                               *)

\* Once a process has found the path free, until it ends, nothing is there that
\* was there before.
PathIsKnown ==
  /\ pc \in {"announce", "announcing"} /\ client => path \notin {"older", "stale"}
  /\ mode # "stdout" /\ pc \in {"bind", "loop", "accept", "serve", "poll", "answer", "print",
                                "copy", "next", "pause", "hang_up", "close", "shutdown"} =>
       path \notin {"older", "stale"}

\* A process comes to bind from a check that found the path free, and what comes
\* there afterwards is newer.
LEMMA KeepsPath ==
  ASSUME IInv, PathIsKnown, [Next]_vars
  PROVE  PathIsKnown'
<1> USE DEF IInv, SocketIsKnown, PathIsKnown, socket
<1>1. CASE OpenModule \/ ConfigureModule \/ StartFails
  BY <1>1 DEF OpenModule, ConfigureModule, StartFails, GivesUp, Goes
<1>2. CASE CheckPath
  BY <1>2 DEF CheckPath, PathIsFree, Goes
<1>3. CASE CreateServer \/ CreateServerFails
  BY <1>3 DEF CreateServer, CreateServerFails, GivesUp, Goes
<1>4. CASE Announce \/ AnnounceBlocks \/ StdoutIsRead
  BY <1>4 DEF Announce, AnnounceBlocks, StdoutIsRead, Announced, Goes
<1>5. CASE AcceptLoop \/ Accept \/ AcceptFails \/ ServeLoop \/ Pause \/ HangUp
  BY <1>5 DEF AcceptLoop, Accept, AcceptFails, ServeLoop, Serving, Unserved, Pause, HangUp, Goes
<1>6. CASE SendPoll \/ SendPollFails \/ PollFails \/ Answers
  BY <1>6 DEF SendPoll, SendsPoll, SendPollFails, PollFails, AfterFailure, Answers, Answer,
       AnswerOfNotices, OverdueAnswer, Goes
<1>7. CASE SkipSlot \/ PrintEnds \/ LineStopped \/ LineTaken \/ LineFails \/ NextModule
  BY <1>7 DEF SkipSlot, PrintEnds, LineStopped, LineTaken, LineFails, Writes, Unserved,
       NextModule, Goes
<1>8. CASE Close \/ ShutdownModule \/ Kill \/ Restart
  BY <1>8 DEF Close, ShutdownModule, Kill, Restart, Starts, Goes
<1>9. CASE Signal
  BY <1>9 DEF Signal, CutsShort, Announced
<1>10. CASE OtherTakesPath
  BY <1>10 DEF OtherTakesPath, Unchecked, process
<1>11. CASE OtherRemovesSocket \/ Cleanup \/ UNCHANGED vars
  BY <1>11 DEF OtherRemovesSocket, Cleanup, vars, process
<1>12. ASSUME NEW m \in Modules, ModuleDone(m) PROVE PathIsKnown'
  BY <1>12 DEF ModuleDone, process
<1> QED
  BY <1>1, <1>2, <1>3, <1>4, <1>5, <1>6, <1>7, <1>8, <1>9, <1>10, <1>11, <1>12 DEF Next, Steps,
    Others

\* What has been at the path since before this process looked stays there, a
\* killed process's socket until somebody else removes it.
ForeignPathIsKept ==
  [][/\ path = "older" => path' = "older"
     /\ path = "stale" => path' = "stale" \/ Cleanup]_vars

\* However often it is killed and started again, and whatever others do at the
\* path meanwhile, the process removes nothing that was there when it looked: a
\* leftover of its own is as safe from it as another program's file, so only a
\* Cleanup lets it serve.  What others make after the look is not covered: the
\* process unlinks it in lines 112 and 452.
THEOREM ForeignPathStays == Spec => ForeignPathIsKept
<1> DEFINE Keeps == /\ path = "older" => path' = "older"
                    /\ path = "stale" => path' = "stale" \/ Cleanup
<1>1. IInv /\ PathIsKnown /\ [Next]_vars => [Keeps]_vars
  <2> SUFFICES ASSUME IInv, PathIsKnown, Next PROVE Keeps
    OBVIOUS
  <2>1. CASE CreateServer \/ CreateServerFails
    BY <2>1 DEF CreateServer, CreateServerFails, GivesUp, Goes, PathIsKnown, IInv, SocketIsKnown
  <2>2. CASE Close
    BY <2>2 DEF Close, Goes, PathIsKnown, socket
  <2>3. CASE Kill \/ Cleanup \/ Restart \/ OtherTakesPath \/ OtherRemovesSocket
    BY <2>3 DEF Kill, Cleanup, Restart, OtherTakesPath, OtherRemovesSocket
  <2>4. CASE \/ OpenModule \/ ConfigureModule \/ StartFails \/ Announce \/ AnnounceBlocks
             \/ StdoutIsRead \/ CheckPath \/ AcceptLoop \/ Accept \/ AcceptFails \/ ServeLoop
             \/ Pause \/ HangUp
    BY <2>4 DEF OpenModule, ConfigureModule, StartFails, Announce, AnnounceBlocks, StdoutIsRead,
         CheckPath, AcceptLoop, Accept, AcceptFails, ServeLoop, Pause, HangUp, socket
  <2>5. CASE \/ SendPoll \/ SendPollFails \/ PollFails \/ Answers \/ SkipSlot \/ PrintEnds
             \/ LineStopped \/ LineTaken \/ LineFails \/ NextModule
    BY <2>5 DEF SendPoll, SendsPoll, SendPollFails, PollFails, Answers, Answer, AnswerOfNotices,
         OverdueAnswer, SkipSlot, PrintEnds, LineStopped, LineTaken, LineFails, NextModule, socket
  <2>6. CASE ShutdownModule \/ Signal
    BY <2>6 DEF ShutdownModule, Signal, socket
  <2>7. ASSUME NEW m \in Modules, ModuleDone(m) PROVE Keeps
    BY <2>7 DEF ModuleDone, socket
  <2> QED
    BY <2>1, <2>2, <2>3, <2>4, <2>5, <2>6, <2>7 DEF Next, Steps, Others
<1>2. Init => PathIsKnown
  BY DEF Init, PathIsKnown
<1>3. IInv /\ PathIsKnown /\ [Next]_vars => PathIsKnown'
  BY KeepsPath
<1>4. [][Keeps]_vars => ForeignPathIsKept
  BY DEF ForeignPathIsKept
<1> QED
  BY <1>1, <1>2, <1>3, <1>4, SpecIInv, PTL DEF Spec

=============================================================================
