-------------------------- MODULE ScannerProofs ---------------------------
(***************************************************************************)
(* Proofs about the scanner, for any tag buffer, any length of an EPC and  *)
(* any number of signals and clients.                                      *)
(***************************************************************************)
EXTENDS Scanner, TLAPS

\* Where the process is inside write_all.
Writing == {"begin", "check", "write", "wait", "restore"}

\* The tags being printed are those of the last poll.
TagsAreKnown ==
  /\ pc \in {"print"} \cup Writing => \A s \in Slots : tags[s] # "stale"
  /\ pc \in Writing => i <= MaxTags /\ tags[i] # "empty"

\* After a late write the process does not come to another.
LateIsKnown == late > 0 => late = 1 /\ stop /\ pc # "write"

\* At most the output being written is non-blocking.
FlagsAreKnown ==
  /\ pc \notin Writing => nonblocking = {}
  /\ pc = "begin" => nonblocking = {}
  /\ nonblocking \subseteq {out}

\* How much of its line the main output has got.
MainColumn ==
  CASE out = "copy" -> 0
    [] out = "main" /\ part = "epc" -> written
    [] out = "main" /\ part = "newline" -> IF written = 0 THEN EpcLength ELSE 0

\* Outside write_all, until the service ends, whole lines have been written.
ColumnIsKnown ==
  /\ pc \in {"open", "configure", "check_path", "bind", "announce", "announcing", "serve",
           "poll", "print", "pause"} =>
       column = 0
  /\ pc \in Writing => column = MainColumn

\* Where the process has its socket, its path and a client, and where not.
SocketIsKnown ==
  /\ mode = "stdout" => ~ listening /\ client = "none" /\ path # "ours"
  /\ pc \in {"check_path", "bind", "loop", "accept", "accepting"} => mode # "stdout"
  /\ pc \in {"open", "configure", "check_path", "bind", "shutdown", "give_up", "exited"} =>
       ~ listening /\ path # "ours" /\ client = "none"
  /\ pc \in {"loop", "accept", "accepting", "close"} => client = "none"

\* A process that goes on has found nothing at the path.
PathIsKnown ==
  mode # "stdout" /\ pc \notin {"open", "configure", "check_path", "give_up", "exited"} =>
    path # "older"

\* The reader is opened first and released last.
DeviceIsKnown == (pc = "open" => device = "new") /\ (pc = "exited" => device # "open")

\* The properties are not inductive: each needs to know where in its loops the
\* process is.
IInv ==
  /\ TypeOK
  /\ TagsAreKnown
  /\ LateIsKnown
  /\ FlagsAreKnown
  /\ ColumnIsKnown /\ WholeLines
  /\ SocketIsKnown
  /\ PathIsKnown
  /\ DeviceIsKnown

-----------------------------------------------------------------------------
(* Each part is kept by each step.                                         *)

\* The slot moves on only below the end of the buffer.
LEMMA KeepsType ==
  ASSUME IInv, [Next]_vars
  PROVE  TypeOK'
<1> USE BoundsAssumption DEF vars, process, socket, line, outputs, IInv, TypeOK,
      TagsAreKnown, Writing, BoundsAssumption, Locations, Slots, Outputs, PartLength
<1>1. CASE OpenDevice
  BY <1>1 DEF OpenDevice, Goes
<1>2. CASE OpenFails
  BY <1>2 DEF OpenFails, Exits
<1>3. CASE Configure
  BY <1>3 DEF Configure, Goes
<1>4. CASE ConfigureFails
  BY <1>4 DEF ConfigureFails, Goes
<1>5. CASE CheckPath
  BY <1>5 DEF CheckPath, Goes, PathIsFree
<1>6. CASE CreateSocket
  BY <1>6 DEF CreateSocket, Goes
<1>7. CASE CreateSocketFails
  BY <1>7 DEF CreateSocketFails, Goes
<1>8. CASE AcceptLoop
  BY <1>8 DEF AcceptLoop, Goes
<1>9. CASE Accept
  BY <1>9 DEF Accept, Goes
<1>10. CASE Block
  BY <1>10 DEF Block, Goes
<1>11. CASE AcceptFails
  BY <1>11 DEF AcceptFails, Goes
<1>12. CASE ServeLoop
  BY <1>12 DEF ServeLoop, Goes
<1>13. CASE ServeEnds
  BY <1>13 DEF ServeEnds, EndService
<1>14. CASE Pause
  BY <1>14 DEF Pause, Goes
<1>15. CASE Poll
  BY <1>15 DEF Poll, Goes, Reset
<1>16. CASE PollFails
  BY <1>16 DEF PollFails, Goes, Reset
<1>17. CASE SkipSlot
  BY <1>17 DEF SkipSlot, Goes
<1>18. CASE PrintSlot
  BY <1>18 DEF PrintSlot, Writes
<1>19. CASE PrintEnds
  BY <1>19 DEF PrintEnds, Goes
<1>20. CASE SetNonblocking
  BY <1>20 DEF SetNonblocking, Goes
<1>21. CASE SetNonblockingFails
  BY <1>21 DEF SetNonblockingFails, EndService
<1>22. CASE CheckStop
  BY <1>22 DEF CheckStop, Goes, WriteStops
<1>23. CASE Write
  <2>1. PICK k \in 1 .. PartLength[part] - written :
          /\ written' = written + k
          /\ column' = IF out = "main" THEN (LineStart + written + k) % (EpcLength + 1) ELSE column
    BY <1>23 DEF Write, Taken
  <2>2. written' \in 0 .. PartLength[part]
    BY <2>1
  <2>3. LineStart + written + k \in Nat
    <3>1. written \in Nat /\ EpcLength \in Nat
      OBVIOUS
    <3>2. k \in Nat
      BY <2>1
    <3>3. LineStart \in Nat
      BY <3>1 DEF LineStart
    <3> QED
      BY <3>1, <3>2, <3>3
  <2>4. \A x \in Nat : x % (EpcLength + 1) \in 0 .. EpcLength
    BY SMTT(30)
  <2>5. column' \in 0 .. EpcLength
    BY <2>1, <2>3, <2>4
  <2>6. late' \in Nat /\ torn' \in BOOLEAN
    BY <1>23 DEF Write
  <2>7. UNCHANGED <<mode, stop, signals, missed, exit, socket, device, tags, i, out, part, nonblocking>>
    BY <1>23 DEF Write, Goes
  <2>8. pc' \in Locations
    BY <1>23 DEF Write, Goes
  <2> QED
    BY <2>2, <2>5, <2>6, <2>7, <2>8, SMTT(30)
<1>24. CASE WriteWouldBlock
  BY <1>24 DEF WriteWouldBlock, Goes
<1>25. CASE WriteFails
  BY <1>25 DEF WriteFails, Goes
<1>26. CASE Wait
  BY <1>26 DEF Wait, Goes
<1>27. CASE WaitFails
  BY <1>27 DEF WaitFails, Goes
<1>28. CASE RestoreAndGoOn
  BY <1>28 DEF RestoreAndGoOn, NextPart, Writes, Restored
<1>29. CASE RestoreAndEnd
  BY <1>29 DEF RestoreAndEnd, EndService, Restored
<1>30. CASE Close
  <2>1. /\ path' \in {"absent", "ours", "older", "newer"} /\ listening' \in BOOLEAN
        /\ waiting' \in 0 .. MaxWaiting
    <3>1. 0 \in 0 .. MaxWaiting
      OBVIOUS
    <3>2. /\ path' \in {path, "absent"} /\ listening' \in {listening, FALSE}
          /\ waiting' \in {waiting, 0}
      BY <1>30 DEF Close, Unlinked
    <3> QED
      BY <3>1, <3>2
  <2>2. UNCHANGED <<mode, stop, signals, missed, exit, client, device, tags, line, outputs>>
    BY <1>30 DEF Close, Goes
  <2>3. pc' \in Locations
    BY <1>30 DEF Close, Goes
  <2> QED
    BY <2>1, <2>2, <2>3
<1>31. CASE ShutdownReader
  BY <1>31 DEF ShutdownReader, Exits
<1>32. CASE Signal
  BY <1>32 DEF Signal, Interrupted, CutsShort
<1>33. CASE SignalFailsConfigure
  <2>1. signals' \in 0 .. MaxSignals
    BY <1>33 DEF SignalFailsConfigure
  <2>2. /\ pc' \in Locations /\ stop' \in BOOLEAN /\ missed' \in BOOLEAN
        /\ UNCHANGED <<mode, exit, socket, device, tags, line, outputs>>
    BY <1>33 DEF SignalFailsConfigure
  <2> QED
    BY <2>1, <2>2
<1>34. CASE Connect
  BY <1>34 DEF Connect
<1>35. CASE Disconnect
  BY <1>35 DEF Disconnect
<1>36. CASE OtherTakesPath
  BY <1>36 DEF OtherTakesPath
<1>37. CASE OtherRemovesSocket
  BY <1>37 DEF OtherRemovesSocket
<1>38. CASE UNCHANGED vars
  BY <1>38
<1>39. CASE Announce
  BY <1>39 DEF Announce, Goes
<1>40. CASE AnnounceBlocks
  BY <1>40 DEF AnnounceBlocks, Goes
<1>41. CASE StdoutIsRead
  BY <1>41 DEF StdoutIsRead, Goes
<1> QED
  BY <1>1, <1>2, <1>3, <1>4, <1>5, <1>6, <1>7, <1>8, <1>9, <1>10, <1>11, <1>12, <1>13,
     <1>14, <1>15, <1>16, <1>17, <1>18, <1>19, <1>20, <1>21, <1>22, <1>23, <1>24,
     <1>25, <1>26, <1>27, <1>28, <1>29, <1>30, <1>31, <1>32, <1>33, <1>34, <1>35,
     <1>36, <1>37, <1>38, <1>39, <1>40, <1>41
     DEF Next, Steps, Starts, Serves, WritesAll, Ends, Others

\* The reset empties the buffer before the answer of the poll fills it.
LEMMA KeepsTags ==
  ASSUME TypeOK, TagsAreKnown, [Next]_vars
  PROVE  TagsAreKnown'
<1> USE BoundsAssumption DEF vars, process, socket, line, outputs, TypeOK,
      TagsAreKnown, Writing, Slots, BoundsAssumption
<1>1. CASE OpenDevice
  BY <1>1 DEF OpenDevice, Goes
<1>2. CASE OpenFails
  BY <1>2 DEF OpenFails, Exits
<1>3. CASE Configure
  BY <1>3 DEF Configure, Goes
<1>4. CASE ConfigureFails
  BY <1>4 DEF ConfigureFails, Goes
<1>5. CASE CheckPath
  BY <1>5 DEF CheckPath, Goes, PathIsFree
<1>6. CASE CreateSocket
  BY <1>6 DEF CreateSocket, Goes
<1>7. CASE CreateSocketFails
  BY <1>7 DEF CreateSocketFails, Goes
<1>8. CASE AcceptLoop
  BY <1>8 DEF AcceptLoop, Goes
<1>9. CASE Accept
  BY <1>9 DEF Accept, Goes
<1>10. CASE Block
  BY <1>10 DEF Block, Goes
<1>11. CASE AcceptFails
  BY <1>11 DEF AcceptFails, Goes
<1>12. CASE ServeLoop
  BY <1>12 DEF ServeLoop, Goes
<1>13. CASE ServeEnds
  BY <1>13 DEF ServeEnds, EndService
<1>14. CASE Pause
  BY <1>14 DEF Pause, Goes
<1>15. CASE Poll
  BY <1>15 DEF Poll, Goes, Reset
<1>16. CASE PollFails
  BY <1>16 DEF PollFails, Goes, Reset
<1>17. CASE SkipSlot
  BY <1>17 DEF SkipSlot, Goes
<1>18. CASE PrintSlot
  BY <1>18 DEF PrintSlot, Writes
<1>19. CASE PrintEnds
  BY <1>19 DEF PrintEnds, Goes
<1>20. CASE SetNonblocking
  BY <1>20 DEF SetNonblocking, Goes
<1>21. CASE SetNonblockingFails
  BY <1>21 DEF SetNonblockingFails, EndService
<1>22. CASE CheckStop
  BY <1>22 DEF CheckStop, Goes, WriteStops
<1>23. CASE Write
  BY <1>23 DEF Write, Goes, LineStart, Taken
<1>24. CASE WriteWouldBlock
  BY <1>24 DEF WriteWouldBlock, Goes
<1>25. CASE WriteFails
  BY <1>25 DEF WriteFails, Goes
<1>26. CASE Wait
  BY <1>26 DEF Wait, Goes
<1>27. CASE WaitFails
  BY <1>27 DEF WaitFails, Goes
<1>28. CASE RestoreAndGoOn
  BY <1>28 DEF RestoreAndGoOn, NextPart, Writes, Restored
<1>29. CASE RestoreAndEnd
  BY <1>29 DEF RestoreAndEnd, EndService, Restored
<1>30. CASE Close
  BY <1>30 DEF Close, Goes, Unlinked
<1>31. CASE ShutdownReader
  BY <1>31 DEF ShutdownReader, Exits
<1>32. CASE Signal
  BY <1>32 DEF Signal, Interrupted, CutsShort
<1>33. CASE SignalFailsConfigure
  BY <1>33 DEF SignalFailsConfigure
<1>34. CASE Connect
  BY <1>34 DEF Connect
<1>35. CASE Disconnect
  BY <1>35 DEF Disconnect
<1>36. CASE OtherTakesPath
  BY <1>36 DEF OtherTakesPath
<1>37. CASE OtherRemovesSocket
  BY <1>37 DEF OtherRemovesSocket
<1>38. CASE UNCHANGED vars
  BY <1>38
<1>39. CASE Announce
  BY <1>39 DEF Announce, Goes
<1>40. CASE AnnounceBlocks
  BY <1>40 DEF AnnounceBlocks, Goes
<1>41. CASE StdoutIsRead
  BY <1>41 DEF StdoutIsRead, Goes
<1> QED
  BY <1>1, <1>2, <1>3, <1>4, <1>5, <1>6, <1>7, <1>8, <1>9, <1>10, <1>11, <1>12, <1>13,
     <1>14, <1>15, <1>16, <1>17, <1>18, <1>19, <1>20, <1>21, <1>22, <1>23, <1>24,
     <1>25, <1>26, <1>27, <1>28, <1>29, <1>30, <1>31, <1>32, <1>33, <1>34, <1>35,
     <1>36, <1>37, <1>38, <1>39, <1>40, <1>41
     DEF Next, Steps, Starts, Serves, WritesAll, Ends, Others

\* The check of should_stop comes before every write.
LEMMA KeepsLate ==
  ASSUME TypeOK, LateIsKnown, [Next]_vars
  PROVE  LateIsKnown'
<1> USE BoundsAssumption DEF vars, process, socket, line, outputs, TypeOK, LateIsKnown
<1>1. CASE OpenDevice
  BY <1>1 DEF OpenDevice, Goes
<1>2. CASE OpenFails
  BY <1>2 DEF OpenFails, Exits
<1>3. CASE Configure
  BY <1>3 DEF Configure, Goes
<1>4. CASE ConfigureFails
  BY <1>4 DEF ConfigureFails, Goes
<1>5. CASE CheckPath
  BY <1>5 DEF CheckPath, Goes, PathIsFree
<1>6. CASE CreateSocket
  BY <1>6 DEF CreateSocket, Goes
<1>7. CASE CreateSocketFails
  BY <1>7 DEF CreateSocketFails, Goes
<1>8. CASE AcceptLoop
  BY <1>8 DEF AcceptLoop, Goes
<1>9. CASE Accept
  BY <1>9 DEF Accept, Goes
<1>10. CASE Block
  BY <1>10 DEF Block, Goes
<1>11. CASE AcceptFails
  BY <1>11 DEF AcceptFails, Goes
<1>12. CASE ServeLoop
  BY <1>12 DEF ServeLoop, Goes
<1>13. CASE ServeEnds
  BY <1>13 DEF ServeEnds, EndService
<1>14. CASE Pause
  BY <1>14 DEF Pause, Goes
<1>15. CASE Poll
  BY <1>15 DEF Poll, Goes, Reset
<1>16. CASE PollFails
  BY <1>16 DEF PollFails, Goes, Reset
<1>17. CASE SkipSlot
  BY <1>17 DEF SkipSlot, Goes
<1>18. CASE PrintSlot
  BY <1>18 DEF PrintSlot, Writes
<1>19. CASE PrintEnds
  BY <1>19 DEF PrintEnds, Goes
<1>20. CASE SetNonblocking
  BY <1>20 DEF SetNonblocking, Goes
<1>21. CASE SetNonblockingFails
  BY <1>21 DEF SetNonblockingFails, EndService
<1>22. CASE CheckStop
  BY <1>22 DEF CheckStop, Goes, WriteStops
<1>23. CASE Write
  BY <1>23 DEF Write, Goes, LineStart, Taken
<1>24. CASE WriteWouldBlock
  BY <1>24 DEF WriteWouldBlock, Goes
<1>25. CASE WriteFails
  BY <1>25 DEF WriteFails, Goes
<1>26. CASE Wait
  BY <1>26 DEF Wait, Goes
<1>27. CASE WaitFails
  BY <1>27 DEF WaitFails, Goes
<1>28. CASE RestoreAndGoOn
  BY <1>28 DEF RestoreAndGoOn, NextPart, Writes, Restored
<1>29. CASE RestoreAndEnd
  BY <1>29 DEF RestoreAndEnd, EndService, Restored
<1>30. CASE Close
  BY <1>30 DEF Close, Goes, Unlinked
<1>31. CASE ShutdownReader
  BY <1>31 DEF ShutdownReader, Exits
<1>32. CASE Signal
  BY <1>32 DEF Signal, Interrupted, CutsShort
<1>33. CASE SignalFailsConfigure
  BY <1>33 DEF SignalFailsConfigure
<1>34. CASE Connect
  BY <1>34 DEF Connect
<1>35. CASE Disconnect
  BY <1>35 DEF Disconnect
<1>36. CASE OtherTakesPath
  BY <1>36 DEF OtherTakesPath
<1>37. CASE OtherRemovesSocket
  BY <1>37 DEF OtherRemovesSocket
<1>38. CASE UNCHANGED vars
  BY <1>38
<1>39. CASE Announce
  BY <1>39 DEF Announce, Goes
<1>40. CASE AnnounceBlocks
  BY <1>40 DEF AnnounceBlocks, Goes
<1>41. CASE StdoutIsRead
  BY <1>41 DEF StdoutIsRead, Goes
<1> QED
  BY <1>1, <1>2, <1>3, <1>4, <1>5, <1>6, <1>7, <1>8, <1>9, <1>10, <1>11, <1>12, <1>13,
     <1>14, <1>15, <1>16, <1>17, <1>18, <1>19, <1>20, <1>21, <1>22, <1>23, <1>24,
     <1>25, <1>26, <1>27, <1>28, <1>29, <1>30, <1>31, <1>32, <1>33, <1>34, <1>35,
     <1>36, <1>37, <1>38, <1>39, <1>40, <1>41
     DEF Next, Steps, Starts, Serves, WritesAll, Ends, Others

\* write_all restores the flags on each way out.
LEMMA KeepsFlags ==
  ASSUME TypeOK, FlagsAreKnown, [Next]_vars
  PROVE  FlagsAreKnown'
<1> USE BoundsAssumption DEF vars, process, socket, line, outputs, TypeOK,
      FlagsAreKnown, Writing, Outputs
<1>1. CASE OpenDevice
  BY <1>1 DEF OpenDevice, Goes
<1>2. CASE OpenFails
  BY <1>2 DEF OpenFails, Exits
<1>3. CASE Configure
  BY <1>3 DEF Configure, Goes
<1>4. CASE ConfigureFails
  BY <1>4 DEF ConfigureFails, Goes
<1>5. CASE CheckPath
  BY <1>5 DEF CheckPath, Goes, PathIsFree
<1>6. CASE CreateSocket
  BY <1>6 DEF CreateSocket, Goes
<1>7. CASE CreateSocketFails
  BY <1>7 DEF CreateSocketFails, Goes
<1>8. CASE AcceptLoop
  BY <1>8 DEF AcceptLoop, Goes
<1>9. CASE Accept
  BY <1>9 DEF Accept, Goes
<1>10. CASE Block
  BY <1>10 DEF Block, Goes
<1>11. CASE AcceptFails
  BY <1>11 DEF AcceptFails, Goes
<1>12. CASE ServeLoop
  BY <1>12 DEF ServeLoop, Goes
<1>13. CASE ServeEnds
  BY <1>13 DEF ServeEnds, EndService
<1>14. CASE Pause
  BY <1>14 DEF Pause, Goes
<1>15. CASE Poll
  BY <1>15 DEF Poll, Goes, Reset
<1>16. CASE PollFails
  BY <1>16 DEF PollFails, Goes, Reset
<1>17. CASE SkipSlot
  BY <1>17 DEF SkipSlot, Goes
<1>18. CASE PrintSlot
  BY <1>18 DEF PrintSlot, Writes
<1>19. CASE PrintEnds
  BY <1>19 DEF PrintEnds, Goes
<1>20. CASE SetNonblocking
  BY <1>20 DEF SetNonblocking, Goes
<1>21. CASE SetNonblockingFails
  BY <1>21 DEF SetNonblockingFails, EndService
<1>22. CASE CheckStop
  BY <1>22 DEF CheckStop, Goes, WriteStops
<1>23. CASE Write
  BY <1>23 DEF Write, Goes, LineStart, Taken
<1>24. CASE WriteWouldBlock
  BY <1>24 DEF WriteWouldBlock, Goes
<1>25. CASE WriteFails
  BY <1>25 DEF WriteFails, Goes
<1>26. CASE Wait
  BY <1>26 DEF Wait, Goes
<1>27. CASE WaitFails
  BY <1>27 DEF WaitFails, Goes
<1>28. CASE RestoreAndGoOn
  BY <1>28 DEF RestoreAndGoOn, NextPart, Writes, Restored
<1>29. CASE RestoreAndEnd
  BY <1>29 DEF RestoreAndEnd, EndService, Restored
<1>30. CASE Close
  BY <1>30 DEF Close, Goes, Unlinked
<1>31. CASE ShutdownReader
  BY <1>31 DEF ShutdownReader, Exits
<1>32. CASE Signal
  BY <1>32 DEF Signal, Interrupted, CutsShort
<1>33. CASE SignalFailsConfigure
  BY <1>33 DEF SignalFailsConfigure
<1>34. CASE Connect
  BY <1>34 DEF Connect
<1>35. CASE Disconnect
  BY <1>35 DEF Disconnect
<1>36. CASE OtherTakesPath
  BY <1>36 DEF OtherTakesPath
<1>37. CASE OtherRemovesSocket
  BY <1>37 DEF OtherRemovesSocket
<1>38. CASE UNCHANGED vars
  BY <1>38
<1>39. CASE Announce
  BY <1>39 DEF Announce, Goes
<1>40. CASE AnnounceBlocks
  BY <1>40 DEF AnnounceBlocks, Goes
<1>41. CASE StdoutIsRead
  BY <1>41 DEF StdoutIsRead, Goes
<1> QED
  BY <1>1, <1>2, <1>3, <1>4, <1>5, <1>6, <1>7, <1>8, <1>9, <1>10, <1>11, <1>12, <1>13,
     <1>14, <1>15, <1>16, <1>17, <1>18, <1>19, <1>20, <1>21, <1>22, <1>23, <1>24,
     <1>25, <1>26, <1>27, <1>28, <1>29, <1>30, <1>31, <1>32, <1>33, <1>34, <1>35,
     <1>36, <1>37, <1>38, <1>39, <1>40, <1>41
     DEF Next, Steps, Starts, Serves, WritesAll, Ends, Others

\* A part goes on where it was cut, a line is followed by the next.
LEMMA KeepsColumn ==
  ASSUME TypeOK, ColumnIsKnown, WholeLines, SocketIsKnown, [Next]_vars
  PROVE  ColumnIsKnown' /\ WholeLines'
<1> USE BoundsAssumption DEF vars, process, socket, line, outputs, TypeOK,
      ColumnIsKnown, WholeLines, MainColumn, Writing, Outputs, PartLength,
      SocketIsKnown, BoundsAssumption
<1>1. CASE OpenDevice
  BY <1>1 DEF OpenDevice, Goes
<1>2. CASE OpenFails
  BY <1>2 DEF OpenFails, Exits
<1>3. CASE Configure
  BY <1>3 DEF Configure, Goes
<1>4. CASE ConfigureFails
  BY <1>4 DEF ConfigureFails, Goes
<1>5. CASE CheckPath
  BY <1>5 DEF CheckPath, Goes, PathIsFree
<1>6. CASE CreateSocket
  BY <1>6 DEF CreateSocket, Goes
<1>7. CASE CreateSocketFails
  BY <1>7 DEF CreateSocketFails, Goes
<1>8. CASE AcceptLoop
  BY <1>8 DEF AcceptLoop, Goes
<1>9. CASE Accept
  BY <1>9 DEF Accept, Goes
<1>10. CASE Block
  BY <1>10 DEF Block, Goes
<1>11. CASE AcceptFails
  BY <1>11 DEF AcceptFails, Goes
<1>12. CASE ServeLoop
  BY <1>12 DEF ServeLoop, Goes
<1>13. CASE ServeEnds
  BY <1>13 DEF ServeEnds, EndService
<1>14. CASE Pause
  BY <1>14 DEF Pause, Goes
<1>15. CASE Poll
  BY <1>15 DEF Poll, Goes, Reset
<1>16. CASE PollFails
  BY <1>16 DEF PollFails, Goes, Reset
<1>17. CASE SkipSlot
  BY <1>17 DEF SkipSlot, Goes
<1>18. CASE PrintSlot
  BY <1>18 DEF PrintSlot, Writes
<1>19. CASE PrintEnds
  BY <1>19 DEF PrintEnds, Goes
<1>20. CASE SetNonblocking
  BY <1>20 DEF SetNonblocking, Goes
<1>21. CASE SetNonblockingFails
  BY <1>21 DEF SetNonblockingFails, EndService
<1>22. CASE CheckStop
  BY <1>22 DEF CheckStop, Goes, WriteStops
<1>23. CASE Write
  BY <1>23 DEF Write, Goes, LineStart, Taken
<1>24. CASE WriteWouldBlock
  BY <1>24 DEF WriteWouldBlock, Goes
<1>25. CASE WriteFails
  BY <1>25 DEF WriteFails, Goes
<1>26. CASE Wait
  BY <1>26 DEF Wait, Goes
<1>27. CASE WaitFails
  BY <1>27 DEF WaitFails, Goes
<1>28. CASE RestoreAndGoOn
  BY <1>28 DEF RestoreAndGoOn, NextPart, Writes, Restored
<1>29. CASE RestoreAndEnd
  BY <1>29 DEF RestoreAndEnd, EndService, Restored
<1>30. CASE Close
  BY <1>30 DEF Close, Goes, Unlinked
<1>31. CASE ShutdownReader
  BY <1>31 DEF ShutdownReader, Exits
<1>32. CASE Signal
  BY <1>32 DEF Signal, Interrupted, CutsShort
<1>33. CASE SignalFailsConfigure
  BY <1>33 DEF SignalFailsConfigure
<1>34. CASE Connect
  BY <1>34 DEF Connect
<1>35. CASE Disconnect
  BY <1>35 DEF Disconnect
<1>36. CASE OtherTakesPath
  BY <1>36 DEF OtherTakesPath
<1>37. CASE OtherRemovesSocket
  BY <1>37 DEF OtherRemovesSocket
<1>38. CASE UNCHANGED vars
  BY <1>38
<1>39. CASE Announce
  BY <1>39 DEF Announce, Goes
<1>40. CASE AnnounceBlocks
  BY <1>40 DEF AnnounceBlocks, Goes
<1>41. CASE StdoutIsRead
  BY <1>41 DEF StdoutIsRead, Goes
<1> QED
  BY <1>1, <1>2, <1>3, <1>4, <1>5, <1>6, <1>7, <1>8, <1>9, <1>10, <1>11, <1>12, <1>13,
     <1>14, <1>15, <1>16, <1>17, <1>18, <1>19, <1>20, <1>21, <1>22, <1>23, <1>24,
     <1>25, <1>26, <1>27, <1>28, <1>29, <1>30, <1>31, <1>32, <1>33, <1>34, <1>35,
     <1>36, <1>37, <1>38, <1>39, <1>40, <1>41
     DEF Next, Steps, Starts, Serves, WritesAll, Ends, Others

\* The client is closed before the process comes back to accept, the socket
\* before it ends.
LEMMA KeepsSocket ==
  ASSUME TypeOK, SocketIsKnown, [Next]_vars
  PROVE  SocketIsKnown'
<1> USE BoundsAssumption DEF vars, process, socket, line, outputs, TypeOK, SocketIsKnown
<1>1. CASE OpenDevice
  BY <1>1 DEF OpenDevice, Goes
<1>2. CASE OpenFails
  BY <1>2 DEF OpenFails, Exits
<1>3. CASE Configure
  BY <1>3 DEF Configure, Goes
<1>4. CASE ConfigureFails
  BY <1>4 DEF ConfigureFails, Goes
<1>5. CASE CheckPath
  BY <1>5 DEF CheckPath, Goes, PathIsFree
<1>6. CASE CreateSocket
  BY <1>6 DEF CreateSocket, Goes
<1>7. CASE CreateSocketFails
  BY <1>7 DEF CreateSocketFails, Goes
<1>8. CASE AcceptLoop
  BY <1>8 DEF AcceptLoop, Goes
<1>9. CASE Accept
  BY <1>9 DEF Accept, Goes
<1>10. CASE Block
  BY <1>10 DEF Block, Goes
<1>11. CASE AcceptFails
  BY <1>11 DEF AcceptFails, Goes
<1>12. CASE ServeLoop
  BY <1>12 DEF ServeLoop, Goes
<1>13. CASE ServeEnds
  BY <1>13 DEF ServeEnds, EndService
<1>14. CASE Pause
  BY <1>14 DEF Pause, Goes
<1>15. CASE Poll
  BY <1>15 DEF Poll, Goes, Reset
<1>16. CASE PollFails
  BY <1>16 DEF PollFails, Goes, Reset
<1>17. CASE SkipSlot
  BY <1>17 DEF SkipSlot, Goes
<1>18. CASE PrintSlot
  BY <1>18 DEF PrintSlot, Writes
<1>19. CASE PrintEnds
  BY <1>19 DEF PrintEnds, Goes
<1>20. CASE SetNonblocking
  BY <1>20 DEF SetNonblocking, Goes
<1>21. CASE SetNonblockingFails
  BY <1>21 DEF SetNonblockingFails, EndService
<1>22. CASE CheckStop
  BY <1>22 DEF CheckStop, Goes, WriteStops
<1>23. CASE Write
  BY <1>23 DEF Write, Goes, LineStart, Taken
<1>24. CASE WriteWouldBlock
  BY <1>24 DEF WriteWouldBlock, Goes
<1>25. CASE WriteFails
  BY <1>25 DEF WriteFails, Goes
<1>26. CASE Wait
  BY <1>26 DEF Wait, Goes
<1>27. CASE WaitFails
  BY <1>27 DEF WaitFails, Goes
<1>28. CASE RestoreAndGoOn
  BY <1>28 DEF RestoreAndGoOn, NextPart, Writes, Restored
<1>29. CASE RestoreAndEnd
  BY <1>29 DEF RestoreAndEnd, EndService, Restored
<1>30. CASE Close
  BY <1>30 DEF Close, Goes, Unlinked
<1>31. CASE ShutdownReader
  BY <1>31 DEF ShutdownReader, Exits
<1>32. CASE Signal
  BY <1>32 DEF Signal, Interrupted, CutsShort
<1>33. CASE SignalFailsConfigure
  BY <1>33 DEF SignalFailsConfigure
<1>34. CASE Connect
  BY <1>34 DEF Connect
<1>35. CASE Disconnect
  BY <1>35 DEF Disconnect
<1>36. CASE OtherTakesPath
  BY <1>36 DEF OtherTakesPath
<1>37. CASE OtherRemovesSocket
  BY <1>37 DEF OtherRemovesSocket
<1>38. CASE UNCHANGED vars
  BY <1>38
<1>39. CASE Announce
  BY <1>39 DEF Announce, Goes
<1>40. CASE AnnounceBlocks
  BY <1>40 DEF AnnounceBlocks, Goes
<1>41. CASE StdoutIsRead
  BY <1>41 DEF StdoutIsRead, Goes
<1> QED
  BY <1>1, <1>2, <1>3, <1>4, <1>5, <1>6, <1>7, <1>8, <1>9, <1>10, <1>11, <1>12, <1>13,
     <1>14, <1>15, <1>16, <1>17, <1>18, <1>19, <1>20, <1>21, <1>22, <1>23, <1>24,
     <1>25, <1>26, <1>27, <1>28, <1>29, <1>30, <1>31, <1>32, <1>33, <1>34, <1>35,
     <1>36, <1>37, <1>38, <1>39, <1>40, <1>41
     DEF Next, Steps, Starts, Serves, WritesAll, Ends, Others

\* Another program's file at the path ends the process before it binds.
LEMMA KeepsPath ==
  ASSUME TypeOK, SocketIsKnown, PathIsKnown, [Next]_vars
  PROVE  PathIsKnown'
<1> USE BoundsAssumption DEF vars, process, socket, line, outputs, TypeOK,
      SocketIsKnown, PathIsKnown
<1>1. CASE OpenDevice
  BY <1>1 DEF OpenDevice, Goes
<1>2. CASE OpenFails
  BY <1>2 DEF OpenFails, Exits
<1>3. CASE Configure
  BY <1>3 DEF Configure, Goes
<1>4. CASE ConfigureFails
  BY <1>4 DEF ConfigureFails, Goes
<1>5. CASE CheckPath
  BY <1>5 DEF CheckPath, Goes, PathIsFree
<1>6. CASE CreateSocket
  BY <1>6 DEF CreateSocket, Goes
<1>7. CASE CreateSocketFails
  BY <1>7 DEF CreateSocketFails, Goes
<1>8. CASE AcceptLoop
  BY <1>8 DEF AcceptLoop, Goes
<1>9. CASE Accept
  BY <1>9 DEF Accept, Goes
<1>10. CASE Block
  BY <1>10 DEF Block, Goes
<1>11. CASE AcceptFails
  BY <1>11 DEF AcceptFails, Goes
<1>12. CASE ServeLoop
  BY <1>12 DEF ServeLoop, Goes
<1>13. CASE ServeEnds
  BY <1>13 DEF ServeEnds, EndService
<1>14. CASE Pause
  BY <1>14 DEF Pause, Goes
<1>15. CASE Poll
  BY <1>15 DEF Poll, Goes, Reset
<1>16. CASE PollFails
  BY <1>16 DEF PollFails, Goes, Reset
<1>17. CASE SkipSlot
  BY <1>17 DEF SkipSlot, Goes
<1>18. CASE PrintSlot
  BY <1>18 DEF PrintSlot, Writes
<1>19. CASE PrintEnds
  BY <1>19 DEF PrintEnds, Goes
<1>20. CASE SetNonblocking
  BY <1>20 DEF SetNonblocking, Goes
<1>21. CASE SetNonblockingFails
  BY <1>21 DEF SetNonblockingFails, EndService
<1>22. CASE CheckStop
  BY <1>22 DEF CheckStop, Goes, WriteStops
<1>23. CASE Write
  BY <1>23 DEF Write, Goes, LineStart, Taken
<1>24. CASE WriteWouldBlock
  BY <1>24 DEF WriteWouldBlock, Goes
<1>25. CASE WriteFails
  BY <1>25 DEF WriteFails, Goes
<1>26. CASE Wait
  BY <1>26 DEF Wait, Goes
<1>27. CASE WaitFails
  BY <1>27 DEF WaitFails, Goes
<1>28. CASE RestoreAndGoOn
  BY <1>28 DEF RestoreAndGoOn, NextPart, Writes, Restored
<1>29. CASE RestoreAndEnd
  BY <1>29 DEF RestoreAndEnd, EndService, Restored
<1>30. CASE Close
  BY <1>30 DEF Close, Goes, Unlinked
<1>31. CASE ShutdownReader
  BY <1>31 DEF ShutdownReader, Exits
<1>32. CASE Signal
  BY <1>32 DEF Signal, Interrupted, CutsShort
<1>33. CASE SignalFailsConfigure
  BY <1>33 DEF SignalFailsConfigure
<1>34. CASE Connect
  BY <1>34 DEF Connect
<1>35. CASE Disconnect
  BY <1>35 DEF Disconnect
<1>36. CASE OtherTakesPath
  BY <1>36 DEF OtherTakesPath
<1>37. CASE OtherRemovesSocket
  BY <1>37 DEF OtherRemovesSocket
<1>38. CASE UNCHANGED vars
  BY <1>38
<1>39. CASE Announce
  BY <1>39 DEF Announce, Goes
<1>40. CASE AnnounceBlocks
  BY <1>40 DEF AnnounceBlocks, Goes
<1>41. CASE StdoutIsRead
  BY <1>41 DEF StdoutIsRead, Goes
<1> QED
  BY <1>1, <1>2, <1>3, <1>4, <1>5, <1>6, <1>7, <1>8, <1>9, <1>10, <1>11, <1>12, <1>13,
     <1>14, <1>15, <1>16, <1>17, <1>18, <1>19, <1>20, <1>21, <1>22, <1>23, <1>24,
     <1>25, <1>26, <1>27, <1>28, <1>29, <1>30, <1>31, <1>32, <1>33, <1>34, <1>35,
     <1>36, <1>37, <1>38, <1>39, <1>40, <1>41
     DEF Next, Steps, Starts, Serves, WritesAll, Ends, Others

\* The process ends before the reader is open or after it is released.
LEMMA KeepsDevice ==
  ASSUME TypeOK, DeviceIsKnown, [Next]_vars
  PROVE  DeviceIsKnown'
<1> USE BoundsAssumption DEF vars, process, socket, line, outputs, TypeOK, DeviceIsKnown
<1>1. CASE OpenDevice
  BY <1>1 DEF OpenDevice, Goes
<1>2. CASE OpenFails
  BY <1>2 DEF OpenFails, Exits
<1>3. CASE Configure
  BY <1>3 DEF Configure, Goes
<1>4. CASE ConfigureFails
  BY <1>4 DEF ConfigureFails, Goes
<1>5. CASE CheckPath
  BY <1>5 DEF CheckPath, Goes, PathIsFree
<1>6. CASE CreateSocket
  BY <1>6 DEF CreateSocket, Goes
<1>7. CASE CreateSocketFails
  BY <1>7 DEF CreateSocketFails, Goes
<1>8. CASE AcceptLoop
  BY <1>8 DEF AcceptLoop, Goes
<1>9. CASE Accept
  BY <1>9 DEF Accept, Goes
<1>10. CASE Block
  BY <1>10 DEF Block, Goes
<1>11. CASE AcceptFails
  BY <1>11 DEF AcceptFails, Goes
<1>12. CASE ServeLoop
  BY <1>12 DEF ServeLoop, Goes
<1>13. CASE ServeEnds
  BY <1>13 DEF ServeEnds, EndService
<1>14. CASE Pause
  BY <1>14 DEF Pause, Goes
<1>15. CASE Poll
  BY <1>15 DEF Poll, Goes, Reset
<1>16. CASE PollFails
  BY <1>16 DEF PollFails, Goes, Reset
<1>17. CASE SkipSlot
  BY <1>17 DEF SkipSlot, Goes
<1>18. CASE PrintSlot
  BY <1>18 DEF PrintSlot, Writes
<1>19. CASE PrintEnds
  BY <1>19 DEF PrintEnds, Goes
<1>20. CASE SetNonblocking
  BY <1>20 DEF SetNonblocking, Goes
<1>21. CASE SetNonblockingFails
  BY <1>21 DEF SetNonblockingFails, EndService
<1>22. CASE CheckStop
  BY <1>22 DEF CheckStop, Goes, WriteStops
<1>23. CASE Write
  BY <1>23 DEF Write, Goes, LineStart, Taken
<1>24. CASE WriteWouldBlock
  BY <1>24 DEF WriteWouldBlock, Goes
<1>25. CASE WriteFails
  BY <1>25 DEF WriteFails, Goes
<1>26. CASE Wait
  BY <1>26 DEF Wait, Goes
<1>27. CASE WaitFails
  BY <1>27 DEF WaitFails, Goes
<1>28. CASE RestoreAndGoOn
  BY <1>28 DEF RestoreAndGoOn, NextPart, Writes, Restored
<1>29. CASE RestoreAndEnd
  BY <1>29 DEF RestoreAndEnd, EndService, Restored
<1>30. CASE Close
  BY <1>30 DEF Close, Goes, Unlinked
<1>31. CASE ShutdownReader
  BY <1>31 DEF ShutdownReader, Exits
<1>32. CASE Signal
  BY <1>32 DEF Signal, Interrupted, CutsShort
<1>33. CASE SignalFailsConfigure
  BY <1>33 DEF SignalFailsConfigure
<1>34. CASE Connect
  BY <1>34 DEF Connect
<1>35. CASE Disconnect
  BY <1>35 DEF Disconnect
<1>36. CASE OtherTakesPath
  BY <1>36 DEF OtherTakesPath
<1>37. CASE OtherRemovesSocket
  BY <1>37 DEF OtherRemovesSocket
<1>38. CASE UNCHANGED vars
  BY <1>38
<1>39. CASE Announce
  BY <1>39 DEF Announce, Goes
<1>40. CASE AnnounceBlocks
  BY <1>40 DEF AnnounceBlocks, Goes
<1>41. CASE StdoutIsRead
  BY <1>41 DEF StdoutIsRead, Goes
<1> QED
  BY <1>1, <1>2, <1>3, <1>4, <1>5, <1>6, <1>7, <1>8, <1>9, <1>10, <1>11, <1>12, <1>13,
     <1>14, <1>15, <1>16, <1>17, <1>18, <1>19, <1>20, <1>21, <1>22, <1>23, <1>24,
     <1>25, <1>26, <1>27, <1>28, <1>29, <1>30, <1>31, <1>32, <1>33, <1>34, <1>35,
     <1>36, <1>37, <1>38, <1>39, <1>40, <1>41
     DEF Next, Steps, Starts, Serves, WritesAll, Ends, Others

\* A process that starts, with nothing open.
LEMMA InitIInv == Init => IInv
<1> SUFFICES ASSUME Init PROVE IInv
  OBVIOUS
<1> USE BoundsAssumption DEF Init, Slots, Outputs, BoundsAssumption
<1>1. TypeOK
  <2>1. /\ tags \in [Slots -> {"empty", "fresh", "stale"}]
        /\ column \in 0 .. EpcLength
    OBVIOUS
  <2>2. /\ pc \in Locations /\ exit \in {"none", "success", "failure"}
        /\ path \in {"absent", "ours", "older", "newer"}
        /\ client \in {"none", "connected", "gone"} /\ device \in {"new", "open", "released"}
    BY DEF Locations
  <2>3. /\ i \in 1 .. MaxTags + 1 /\ signals \in 0 .. MaxSignals /\ waiting \in 0 .. MaxWaiting
        /\ late \in Nat
    OBVIOUS
  <2>4. written \in 0 .. PartLength[part] /\ out \in Outputs /\ part \in {"epc", "newline"}
    BY DEF PartLength
  <2> QED
    BY <2>1, <2>2, <2>3, <2>4 DEF TypeOK
<1>2. TagsAreKnown /\ LateIsKnown /\ FlagsAreKnown
  BY DEF TagsAreKnown, LateIsKnown, FlagsAreKnown, Writing
<1>3. ColumnIsKnown /\ WholeLines
  BY DEF ColumnIsKnown, WholeLines, Writing
<1>4. SocketIsKnown /\ PathIsKnown /\ DeviceIsKnown
  BY DEF SocketIsKnown, PathIsKnown, DeviceIsKnown
<1> QED
  BY <1>1, <1>2, <1>3, <1>4 DEF IInv

\* The invariant holds of every behaviour.
LEMMA SpecIInv == Spec => []IInv
<1>1. IInv /\ [Next]_vars => IInv'
  <2> SUFFICES ASSUME IInv, [Next]_vars PROVE IInv'
    OBVIOUS
  <2>1. TypeOK'
    BY KeepsType
  <2>2. TagsAreKnown' /\ LateIsKnown' /\ FlagsAreKnown'
    BY KeepsTags, KeepsLate, KeepsFlags DEF IInv
  <2>3. ColumnIsKnown' /\ WholeLines'
    BY KeepsColumn DEF IInv
  <2>4. SocketIsKnown' /\ PathIsKnown' /\ DeviceIsKnown'
    BY KeepsSocket, KeepsPath, KeepsDevice DEF IInv
  <2> QED
    BY <2>1, <2>2, <2>3, <2>4 DEF IInv
<1> QED
  BY <1>1, InitIInv, PTL DEF Spec

-----------------------------------------------------------------------------

\* The variables keep their types: the slot being printed is in the buffer, and
\* no write takes more bytes than its part has.
THEOREM TypeCorrect == Spec => []TypeOK
<1>1. IInv => TypeOK
  BY DEF IInv
<1> QED
  BY <1>1, SpecIInv, PTL

\* However main returns once the reader is open, it leaves nothing behind: no
\* carrier, no socket, no client, no flag on an output.
THEOREM NothingIsLeft == Spec => []LeavesNothing
<1>1. IInv => LeavesNothing
  BY DEF IInv, LeavesNothing, DeviceIsKnown, SocketIsKnown, FlagsAreKnown, Writing, TypeOK
<1> QED
  BY <1>1, SpecIInv, PTL

\* However short the writes are, and whatever breaks in the copy on stdout, a
\* client reads whole lines up to the end of its service.
THEOREM LinesAreWhole == Spec => []WholeLines
<1>1. IInv => WholeLines
  BY DEF IInv
<1> QED
  BY <1>1, SpecIInv, PTL

\* Every tag printed was in the answer to the last poll.
THEOREM TagsAreFresh == Spec => []FreshTags
<1>1. IInv => FreshTags
  BY BoundsAssumption DEF IInv, FreshTags, TagsAreKnown, Writing, TypeOK, Slots, BoundsAssumption
<1> QED
  BY <1>1, SpecIInv, PTL

\* However many signals come, and wherever, one write at most follows the first.
THEOREM OneWriteIsLate == Spec => []AtMostOneLateWrite
<1>1. IInv => AtMostOneLateWrite
  BY DEF IInv, AtMostOneLateWrite, LateIsKnown, TypeOK
<1> QED
  BY <1>1, SpecIInv, PTL

\* The outputs are blocking again whenever write_all has returned.
THEOREM FlagsComeBack == Spec => []FlagsAreRestored
<1>1. IInv => FlagsAreRestored
  BY DEF IInv, FlagsAreRestored, FlagsAreKnown, Writing
<1> QED
  BY <1>1, SpecIInv, PTL

\* A file that was at the socket path before the process looked stays there,
\* whatever fails.
THEOREM OlderPathStays == Spec => OlderPathIsKept
<1> DEFINE Keeps == path = "older" => path' = "older"
<1>1. IInv /\ [Next]_vars => [Keeps]_vars
  <2> SUFFICES ASSUME IInv, Next, path = "older" PROVE path' = "older"
    BY DEF Keeps
  <2> USE DEF IInv, PathIsKnown, SocketIsKnown
  <2>1. CASE CreateSocket
    BY <2>1 DEF CreateSocket
  <2>2. CASE CreateSocketFails
    BY <2>2 DEF CreateSocketFails, Goes
  <2>3. CASE Close
    BY <2>3 DEF Close, Goes, socket
  <2>4. CASE OtherTakesPath \/ OtherRemovesSocket
    BY <2>4 DEF OtherTakesPath, OtherRemovesSocket
  <2>5. CASE \/ OpenDevice \/ OpenFails \/ Configure \/ ConfigureFails \/ CheckPath
             \/ AcceptLoop \/ Accept \/ Block \/ AcceptFails
             \/ Announce \/ AnnounceBlocks \/ StdoutIsRead
    BY <2>5 DEF OpenDevice, OpenFails, Configure, ConfigureFails, CheckPath, AcceptLoop, Accept,
          Block, AcceptFails, Announce, AnnounceBlocks, StdoutIsRead, socket
  <2>6. CASE ServeLoop \/ ServeEnds \/ Pause \/ Poll \/ PollFails \/ SkipSlot \/ PrintSlot \/ PrintEnds
    BY <2>6 DEF ServeLoop, ServeEnds, EndService, Pause, Poll, PollFails, SkipSlot, PrintSlot,
          PrintEnds, socket
  <2>7. CASE WritesAll
    BY <2>7 DEF WritesAll, SetNonblocking, SetNonblockingFails, EndService, CheckStop, Write,
          WriteWouldBlock, WriteFails, Wait, WaitFails, RestoreAndGoOn, RestoreAndEnd, socket
  <2>8. CASE ShutdownReader \/ Signal \/ SignalFailsConfigure \/ Connect \/ Disconnect
    BY <2>8 DEF ShutdownReader, Signal, SignalFailsConfigure, Connect, Disconnect, socket
  <2> QED
    BY <2>1, <2>2, <2>3, <2>4, <2>5, <2>6, <2>7, <2>8 DEF Next, Steps, Starts, Serves, Ends, Others
<1> QED
  BY <1>1, SpecIInv, PTL DEF Spec, OlderPathIsKept

-----------------------------------------------------------------------------
(* How long the process goes on once a signal has come.                    *)

\* What write_all was called for has been written.
PartIsOut == written = PartLength[part]

\* The most steps the process takes to its end once should_stop is set.  A part
\* that is out is followed by the rest of the buffer, slot by slot, up to the
\* next write; one that is not ends the service.
StepsLeft ==
  CASE pc = "exited" -> 0
    [] pc \in {"shutdown", "give_up"} -> 1
    [] pc = "close" -> 2
    [] pc = "loop" -> 3
    [] pc \in {"serve", "bind"} -> 4
    [] pc \in {"pause", "announcing", "check_path"} -> 5
    [] pc \in {"announce", "configure"} -> 6
    [] pc \in {"accepting", "open"} -> 7
    [] pc = "accept" -> 8
    [] pc = "restore" /\ ~ PartIsOut -> 4
    [] pc = "check" /\ ~ PartIsOut -> 5
    [] pc = "begin" /\ ~ PartIsOut -> 6
    [] pc = "print" -> 8 + MaxTags - i
    [] (pc = "restore" /\ PartIsOut) \/ pc = "poll" -> 8 + MaxTags
    [] pc = "check" /\ PartIsOut -> 9 + MaxTags
    [] (pc = "begin" /\ PartIsOut) \/ pc = "wait" -> 10 + MaxTags
    [] pc = "write" -> 11 + MaxTags

\* With should_stop set every step of the process brings its end closer, and
\* nothing that signals, clients or other programs do puts it off.
EndComesCloser ==
  [][stop =>
       /\ StepsLeft \in 0 .. 11 + MaxTags
       /\ 0 <= StepsLeft' /\ StepsLeft' <= StepsLeft
       /\ Steps => StepsLeft' < StepsLeft]_vars

\* A process that sleeps in accept, or is about to, has not been asked to stop,
\* except by the signal that came between its check and accept.
SleepsUnasked == stop /\ ~ missed => pc \notin {"accept", "accepting"}

\* StepsLeft, place by place.
StepsLeftByPlace ==
  /\ pc = "exited" => StepsLeft = 0
  /\ pc \in {"shutdown", "give_up"} => StepsLeft = 1
  /\ pc = "close" => StepsLeft = 2
  /\ pc = "loop" => StepsLeft = 3
  /\ pc \in {"serve", "bind"} => StepsLeft = 4
  /\ pc \in {"pause", "announcing", "check_path"} => StepsLeft = 5
  /\ pc \in {"announce", "configure"} => StepsLeft = 6
  /\ pc \in {"accepting", "open"} => StepsLeft = 7
  /\ pc = "accept" => StepsLeft = 8
  /\ pc = "restore" => StepsLeft = IF PartIsOut THEN 8 + MaxTags ELSE 4
  /\ pc = "check" => StepsLeft = IF PartIsOut THEN 9 + MaxTags ELSE 5
  /\ pc = "begin" => StepsLeft = IF PartIsOut THEN 10 + MaxTags ELSE 6
  /\ pc = "print" => StepsLeft = 8 + MaxTags - i
  /\ pc = "poll" => StepsLeft = 8 + MaxTags
  /\ pc = "wait" => StepsLeft = 10 + MaxTags
  /\ pc = "write" => StepsLeft = 11 + MaxTags

\* The cases of StepsLeft do not overlap.
LEMMA StepsLeftIs == StepsLeftByPlace
<1>1. /\ pc = "exited" => StepsLeft = 0
      /\ pc \in {"shutdown", "give_up"} => StepsLeft = 1
      /\ pc = "close" => StepsLeft = 2
      /\ pc = "loop" => StepsLeft = 3
  BY DEF StepsLeft
<1>2. /\ pc \in {"serve", "bind"} => StepsLeft = 4
      /\ pc \in {"pause", "announcing", "check_path"} => StepsLeft = 5
  BY DEF StepsLeft
<1>3. /\ pc \in {"announce", "configure"} => StepsLeft = 6
      /\ pc \in {"accepting", "open"} => StepsLeft = 7
      /\ pc = "accept" => StepsLeft = 8
  BY DEF StepsLeft
<1>4. pc = "restore" => StepsLeft = IF PartIsOut THEN 8 + MaxTags ELSE 4
  BY DEF StepsLeft
<1>5. pc = "check" => StepsLeft = IF PartIsOut THEN 9 + MaxTags ELSE 5
  BY DEF StepsLeft
<1>6. pc = "begin" => StepsLeft = IF PartIsOut THEN 10 + MaxTags ELSE 6
  BY DEF StepsLeft
<1>7. /\ pc = "print" => StepsLeft = 8 + MaxTags - i
      /\ pc = "poll" => StepsLeft = 8 + MaxTags
  BY DEF StepsLeft
<1>8. /\ pc = "wait" => StepsLeft = 10 + MaxTags
      /\ pc = "write" => StepsLeft = 11 + MaxTags
  BY DEF StepsLeft
<1> QED
  BY <1>1, <1>2, <1>3, <1>4, <1>5, <1>6, <1>7, <1>8 DEF StepsLeftByPlace

\* The bound on the steps left.
LEMMA StepsLeftIsSmall ==
  ASSUME TypeOK
  PROVE  StepsLeft \in 0 .. 11 + MaxTags
<1>1. MaxTags \in Nat \ {0} /\ i \in 1 .. MaxTags + 1 /\ pc \in Locations
  BY BoundsAssumption DEF TypeOK
<1> QED
  BY <1>1, StepsLeftIs DEF StepsLeftByPlace, Locations

\* A signal is followed by no more than MaxTags + 11 steps, wherever it comes,
\* whatever the clients, the outputs and the reader do: none of the loops of
\* main, scan_for_tags and write_all goes round without looking at should_stop
\* (lines 174, 246, 358 and 366).
THEOREM EndIsNear == Spec => EndComesCloser
<1> DEFINE Sinks ==
      stop =>
       /\ StepsLeft \in 0 .. 11 + MaxTags
       /\ 0 <= StepsLeft' /\ StepsLeft' <= StepsLeft
       /\ Steps => StepsLeft' < StepsLeft
<1>1. IInv /\ IInv' /\ [Next]_vars => [Sinks]_vars
  <2> SUFFICES ASSUME IInv, IInv', Next, stop PROVE Sinks
    OBVIOUS
  <2>1. StepsLeft \in 0 .. 11 + MaxTags /\ StepsLeft' \in 0 .. 11 + MaxTags
    <3>1. (TypeOK => StepsLeft \in 0 .. 11 + MaxTags)'
      BY StepsLeftIsSmall, PTL
    <3> QED
      BY <3>1, StepsLeftIsSmall DEF IInv
  <2>2. MaxTags \in Nat \ {0} /\ EpcLength \in Nat \ {0} /\ i \in 1 .. MaxTags + 1
    BY BoundsAssumption DEF IInv, TypeOK
  <2>3. StepsLeftByPlace /\ StepsLeftByPlace'
    BY StepsLeftIs, PTL
  <2>4. ASSUME Steps PROVE StepsLeft' < StepsLeft
    <3> USE <2>1, <2>2, <2>3 DEF StepsLeftByPlace
    <3>1. CASE OpenDevice \/ OpenFails \/ Configure \/ ConfigureFails
      <4>1. \/ pc = "open" /\ pc' \in {"configure", "exited"}
            \/ pc = "configure" /\ pc' \in {"serve", "check_path", "give_up"}
        BY <3>1 DEF OpenDevice, OpenFails, Configure, ConfigureFails, Goes, Exits
      <4> QED
        BY <4>1
    <3>2. CASE CheckPath \/ CreateSocket \/ CreateSocketFails
      <4>1. \/ pc = "check_path" /\ pc' \in {"bind", "give_up"}
            \/ pc = "bind" /\ pc' \in {"loop", "give_up"}
        BY <3>2 DEF CheckPath, CreateSocket, CreateSocketFails, Goes
      <4> QED
        BY <4>1
    <3>3. CASE AcceptLoop \/ Accept \/ Block \/ AcceptFails \/ Announce \/ AnnounceBlocks
      <4>1. \/ pc = "loop" /\ pc' \in {"close"}
            \/ pc = "accept" /\ pc' \in {"announce", "serve", "accepting", "close"}
            \/ pc = "accepting" /\ pc' \in {"announce", "serve"}
            \/ pc = "announce" /\ pc' \in {"announcing", "serve"}
        BY <3>3 DEF AcceptLoop, Accept, Block, AcceptFails, Announce, AnnounceBlocks, Goes
      <4> QED
        BY <4>1
    <3>4. CASE ServeLoop \/ ServeEnds \/ Pause
      <4>1. \/ pc = "serve" /\ pc' \in {"close", "loop"}
            \/ pc = "pause" /\ pc' \in {"serve"}
        BY <3>4 DEF ServeLoop, ServeEnds, EndService, Pause, Goes
      <4> QED
        BY <4>1
    <3>5. CASE Poll \/ PollFails
      <4>1. pc = "poll" /\ (pc' = "pause" \/ (pc' = "print" /\ i' = 1))
        BY <3>5 DEF Poll, PollFails, Goes
      <4> QED
        BY <4>1
    <3>6. CASE SkipSlot \/ PrintEnds
      <4>1. pc = "print" /\ (pc' = "pause" \/ (pc' = "print" /\ i' = i + 1))
        BY <3>6 DEF SkipSlot, PrintEnds, Goes
      <4> QED
        BY <4>1
    <3>7. CASE PrintSlot
      BY <3>7 DEF PrintSlot, Writes, PartIsOut, PartLength
    <3>8. CASE SetNonblocking
      <4>1. pc = "begin" /\ pc' = "check" /\ UNCHANGED PartIsOut
        BY <3>8 DEF SetNonblocking, Goes, PartIsOut, line
      <4> QED
        BY <4>1
    <3>9. CASE SetNonblockingFails
      <4>1. pc = "begin" /\ pc' \in {"close", "loop"}
        BY <3>9 DEF SetNonblockingFails, EndService
      <4> QED
        BY <4>1
    <3>10. CASE CheckStop
      <4>1. pc = "check" /\ pc' = "restore" /\ UNCHANGED PartIsOut
        BY <3>10 DEF CheckStop, WriteStops, Goes, PartIsOut, line
      <4> QED
        BY <4>1
    <3>11. CASE Write \/ WriteWouldBlock \/ WriteFails \/ Wait \/ WaitFails
      <4>1. \/ pc = "write" /\ pc' \in {"check", "wait", "restore"}
            \/ pc = "wait" /\ pc' \in {"check", "restore"}
        BY <3>11 DEF Write, WriteWouldBlock, WriteFails, Wait, WaitFails, Goes
      <4> QED
        BY <4>1
    <3>12. CASE RestoreAndGoOn
      <4>1. StepsLeft = 8 + MaxTags
        BY <3>12 DEF RestoreAndGoOn, PartIsOut
      <4>2. CASE pc' = "begin" /\ written' = 0 /\ part' \in {"epc", "newline"}
        BY <4>1, <4>2 DEF PartIsOut, PartLength
      <4>3. CASE pc' = "print" /\ i' = i + 1
        BY <4>1, <4>3
      <4> QED
        BY <3>12, <4>2, <4>3 DEF RestoreAndGoOn, NextPart, Writes
    <3>13. CASE RestoreAndEnd
      <4>1. pc = "restore" /\ ~ PartIsOut /\ pc' \in {"close", "loop"}
        BY <3>13 DEF RestoreAndEnd, EndService, PartIsOut
      <4> QED
        BY <4>1
    <3>14. CASE Ends
      <4>1. \/ pc = "close" /\ pc' = "shutdown"
            \/ pc \in {"shutdown", "give_up"} /\ pc' = "exited"
        BY <3>14 DEF Ends, Close, ShutdownReader, Goes, Exits
      <4> QED
        BY <4>1
    <3> QED
      BY <2>4, <3>1, <3>2, <3>3, <3>4, <3>5, <3>6, <3>7, <3>8, <3>9, <3>10, <3>11, <3>12,
         <3>13, <3>14 DEF Steps, Starts, Serves, WritesAll
  <2>5. ASSUME Others PROVE StepsLeft' <= StepsLeft
    <3>1. CASE UNCHANGED <<pc, i, part, written>>
      <4>1. StepsLeft' = StepsLeft
        BY <3>1 DEF StepsLeft, PartIsOut
      <4> QED
        BY <2>1, <4>1
    <3>2. CASE (pc = "accepting" /\ pc' = "loop") \/ (pc = "announcing" /\ pc' = "serve")
      BY <2>3, <3>2 DEF StepsLeftByPlace
    <3>3. CASE SignalFailsConfigure
      BY <2>3, <3>3 DEF StepsLeftByPlace, SignalFailsConfigure
    <3> QED
      BY <2>5, <3>1, <3>2, <3>3 DEF Others, Signal, Interrupted, CutsShort, StdoutIsRead,
           Goes, Connect, Disconnect, OtherTakesPath, OtherRemovesSocket, process, line
  <2> QED
    BY <2>1, <2>4, <2>5 DEF Next
<1>2. [][Sinks]_vars => EndComesCloser
  BY DEF EndComesCloser
<1> QED
  BY <1>1, <1>2, SpecIInv, PTL DEF Spec

\* A signal that is not the one in the gap finds the process awake: it never
\* again goes to accept.  What is left of HeardSignalEnds after this and
\* EndIsNear is that a process which can take a step takes it, and that stdout
\* is read.
THEOREM SleepIsUnasked == Spec => []SleepsUnasked
<1>1. Init => SleepsUnasked
  BY DEF Init, SleepsUnasked
<1>2. SleepsUnasked /\ [Next]_vars => SleepsUnasked'
  <2> SUFFICES ASSUME SleepsUnasked, [Next]_vars, stop', ~ missed'
               PROVE  pc' \notin {"accept", "accepting"}
    BY DEF SleepsUnasked
  <2> USE DEF SleepsUnasked
  <2>1. CASE Signal
    BY <2>1 DEF Signal, Interrupted, CutsShort
  <2>2. CASE SignalFailsConfigure
    BY <2>2 DEF SignalFailsConfigure
  <2>3. CASE \/ AcceptLoop \/ Accept \/ Block \/ AcceptFails
             \/ Announce \/ AnnounceBlocks \/ StdoutIsRead
    BY <2>3 DEF AcceptLoop, Accept, Block, AcceptFails, Announce, AnnounceBlocks, StdoutIsRead, Goes
  <2>4. CASE Starts
    BY <2>4 DEF Starts, OpenDevice, OpenFails, Configure, ConfigureFails, CheckPath,
         CreateSocket, CreateSocketFails, Goes, Exits
  <2>5. CASE \/ ServeLoop \/ ServeEnds \/ Pause \/ Poll \/ PollFails
             \/ SkipSlot \/ PrintSlot \/ PrintEnds
    BY <2>5 DEF ServeLoop, ServeEnds, EndService, Pause, Poll, PollFails, SkipSlot,
         PrintSlot, Writes, PrintEnds, Goes
  <2>6. CASE SetNonblocking \/ SetNonblockingFails \/ CheckStop \/ Write \/ WriteWouldBlock
    BY <2>6 DEF SetNonblocking, SetNonblockingFails, EndService, CheckStop, Write,
         WriteWouldBlock, Goes
  <2>7. CASE WriteFails \/ Wait \/ WaitFails \/ RestoreAndGoOn \/ RestoreAndEnd
    BY <2>7 DEF WriteFails, Wait, WaitFails, RestoreAndGoOn, NextPart, Writes, RestoreAndEnd,
         EndService, Goes
  <2>8. CASE Ends
    BY <2>8 DEF Ends, Close, ShutdownReader, Goes, Exits
  <2>9. CASE Connect \/ Disconnect \/ OtherTakesPath \/ OtherRemovesSocket \/ UNCHANGED vars
    BY <2>9 DEF Connect, Disconnect, OtherTakesPath, OtherRemovesSocket, vars, process
  <2> QED
    BY <2>1, <2>2, <2>3, <2>4, <2>5, <2>6, <2>7, <2>8, <2>9
       DEF Next, Steps, Serves, WritesAll, Others
<1> QED
  BY <1>1, <1>2, PTL DEF Spec

=============================================================================
