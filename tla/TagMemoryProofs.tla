-------------------------- MODULE TagMemoryProofs --------------------------
(***************************************************************************)
(* Proofs about the heap, for any number of blocks, any length of the      *)
(* caller's array and any number of notices and words.                     *)
(***************************************************************************)
EXTENDS TagMemory, TLAPS

\* A block is live while something points to it: inside yrm100_init too.
LiveIsOwned ==
  \A b \in Blocks : size[b] > 0 <=> b = context \/ b = name \/ \E s \in Slots : data[s] = b

\* No two pointers are to one block.
PointersAreApart ==
  /\ context = name => context = NoBlock
  /\ \A s \in Slots : data[s] # NoBlock => data[s] # context /\ data[s] # name
  /\ \A s, t \in Slots : data[s] = data[t] /\ data[s] # NoBlock => s = t

\* How far yrm100_init has come.
DeviceIsKnown ==
  /\ context = NoBlock => name = NoBlock
  /\ pc # "caller" => context # NoBlock
  /\ pc = "name" => name = NoBlock

\* HeapIsOwned speaks of what is between two calls alone: the steps of
\* yrm100_init need to know what is inside.
IInv ==
  /\ TypeOK
  /\ LiveIsOwned
  /\ PointersAreApart
  /\ DeviceIsKnown
  /\ FreesAreSound
  /\ LengthMatchesData
  /\ CopiedIsAnswer
  /\ TagsAreOfOnePoll
  /\ DataIsOfItsTag

-----------------------------------------------------------------------------

\* The smaller of two numbers.
LEMMA MinOfTwo ==
  ASSUME NEW k \in Nat, NEW m \in Nat
  PROVE  Min({k, m}) \in Nat /\ Min({k, m}) <= k /\ Min({k, m}) <= m
<1>1. \E x \in {k, m} : \A y \in {k, m} : x <= y
  <2>1. CASE k <= m
    BY <2>1
  <2>2. CASE ~ (k <= m)
    BY <2>2
  <2> QED
    BY <2>1, <2>2
<1>2. Min({k, m}) \in {k, m} /\ \A y \in {k, m} : Min({k, m}) <= y
  BY <1>1 DEF Min
<1> QED
  BY <1>2

\* yrm100_parse.c, line 74: the bytes taken end before the end byte.
LEMMA BytesAreOfTheAnswer ==
  ASSUME NEW p \in Nat, NEW n \in Nat, HoldsData(p, n)
  PROVE  DataBytes(p, n) \subseteq {"data", "checksum"}
<1> SUFFICES ASSUME NEW j \in 20 .. 19 + 2 * n
             PROVE  j <= 5 + p
  BY DEF DataBytes
<1> QED
  BY DEF HoldsData

\* Freeing the data of some slots frees live blocks, which no other pointer is to.
LEMMA FreedSlots ==
  ASSUME IInv, NEW S \in SUBSET Slots, Frees(Data(S)), data' = Without(S), length' = Shortened(S),
         UNCHANGED <<context, name>>
  PROVE  /\ size' \in [Blocks -> Nat]
         /\ data' \in [Slots -> Pointers]
         /\ length' \in [Slots -> 0 .. 2 * MaxWords]
         /\ LiveIsOwned' /\ PointersAreApart' /\ FreesAreSound' /\ LengthMatchesData'
<1> USE BlocksAssumption, BoundsAssumption DEF BlocksAssumption, BoundsAssumption
<1>0. /\ size \in [Blocks -> Nat]
      /\ context \in Pointers /\ name \in Pointers
      /\ data \in [Slots -> Pointers]
      /\ length \in [Slots -> 0 .. 2 * MaxWords]
      /\ sound = TRUE
  BY DEF IInv, TypeOK, FreesAreSound
<1>1. \A b \in Blocks : size'[b] = IF \E s \in S : data[s] = b THEN 0 ELSE size[b]
  BY <1>0 DEF Frees, Data
<1>2. \A s \in Slots : data'[s] = IF s \in S THEN NoBlock ELSE data[s]
  BY DEF Without
<1>3. \A s \in Slots : length'[s] = IF s \in S THEN 0 ELSE length[s]
  BY DEF Shortened
<1>4. size' \in [Blocks -> Nat]
  BY <1>0 DEF Frees
<1>5. data' \in [Slots -> Pointers]
  BY <1>0 DEF Without, Pointers
<1>6. length' \in [Slots -> 0 .. 2 * MaxWords]
  BY <1>0 DEF Shortened
<1>7. PointersAreApart'
  BY <1>0, <1>2 DEF IInv, PointersAreApart
<1>8. LiveIsOwned'
  <2> SUFFICES ASSUME NEW b \in Blocks
               PROVE  size'[b] > 0 <=> b = context \/ b = name \/ \E s \in Slots : data'[s] = b
    BY DEF LiveIsOwned
  <2>1. size[b] > 0 <=> b = context \/ b = name \/ \E s \in Slots : data[s] = b
    BY DEF IInv, LiveIsOwned
  <2>2. CASE \E s \in S : data[s] = b
    <3>1. PICK s \in S : data[s] = b
      BY <2>2
    <3>2. b # context /\ b # name /\ \A t \in Slots : data[t] = b => t = s
      BY <3>1 DEF IInv, PointersAreApart
    <3>3. size'[b] = 0
      BY <1>1, <2>2
    <3>4. \A t \in Slots : data'[t] # b
      BY <1>2, <3>1, <3>2
    <3> QED
      BY <3>2, <3>3, <3>4
  <2>3. CASE ~ \E s \in S : data[s] = b
    <3>1. size'[b] = size[b]
      BY <1>1, <2>3
    <3>2. \A t \in Slots : data'[t] = b <=> data[t] = b
      BY <1>2, <2>3
    <3> QED
      BY <2>1, <3>1, <3>2
  <2> QED
    BY <2>2, <2>3
<1>9. FreesAreSound'
  <2>1. \A b \in Data(S) \cap Blocks : size[b] > 0
    BY DEF Data, IInv, LiveIsOwned
  <2> QED
    BY <1>0, <2>1 DEF Frees, FreesAreSound
<1>10. LengthMatchesData'
  <2> SUFFICES ASSUME NEW s \in Slots
               PROVE  IF data'[s] = NoBlock THEN length'[s] = 0 ELSE length'[s] = size'[data'[s]]
    BY DEF LengthMatchesData
  <2>1. CASE s \in S
    BY <1>2, <1>3, <2>1
  <2>2. CASE s \notin S
    <3>1. data'[s] = data[s] /\ length'[s] = length[s]
      BY <1>2, <1>3, <2>2
    <3>2. CASE data[s] = NoBlock
      BY <3>1, <3>2 DEF IInv, LengthMatchesData
    <3>3. CASE data[s] # NoBlock
      <4>1. data[s] \in Blocks
        BY <1>0, <3>3 DEF Pointers
      <4>2. ~ \E t \in S : data[t] = data[s]
        BY <2>2, <3>3 DEF IInv, PointersAreApart
      <4>3. size'[data[s]] = size[data[s]]
        BY <1>1, <4>1, <4>2
      <4> QED
        BY <3>1, <3>3, <4>3 DEF IInv, LengthMatchesData
    <3> QED
      BY <3>2, <3>3
  <2> QED
    BY <2>1, <2>2
<1> QED
  BY <1>4, <1>5, <1>6, <1>7, <1>8, <1>9, <1>10


-----------------------------------------------------------------------------

\* Before the first call nothing is allocated.
LEMMA InitIInv == Init => IInv
<1> SUFFICES ASSUME Init
             PROVE  IInv
  OBVIOUS
<1> USE BlocksAssumption, BoundsAssumption DEF BlocksAssumption, BoundsAssumption
<1>1. TypeOK
  <2>1. 0 \in 0 .. 2 * MaxWords /\ 0 \in 0 .. MaxTags
    OBVIOUS
  <2>2. length \in [Slots -> 0 .. 2 * MaxWords] /\ data \in [Slots -> Pointers]
    BY <2>1 DEF Init, Pointers
  <2>3. size \in [Blocks -> Nat] /\ epc \in [Slots -> {"zero", "last", "older", "memory"}]
    BY DEF Init
  <2> QED
    BY <2>1, <2>2, <2>3 DEF Init, TypeOK, Pointers
<1>2. LiveIsOwned /\ PointersAreApart
  BY DEF Init, LiveIsOwned, PointersAreApart
<1>3. DeviceIsKnown /\ FreesAreSound /\ LengthMatchesData /\ CopiedIsAnswer
  BY DEF Init, DeviceIsKnown, FreesAreSound, LengthMatchesData, CopiedIsAnswer
<1>4. TagsAreOfOnePoll /\ DataIsOfItsTag
  BY DEF Init, TagsAreOfOnePoll, DataIsOfItsTag
<1> QED
  BY <1>1, <1>2, <1>3, <1>4 DEF IInv

\* What a call leaves of the tags' history.
LEMMA SameHistory ==
  ASSUME IInv, UNCHANGED <<data, epc, polled, copied>>
  PROVE  CopiedIsAnswer' /\ TagsAreOfOnePoll' /\ DataIsOfItsTag'
BY DEF IInv, CopiedIsAnswer, TagsAreOfOnePoll, DataIsOfItsTag

\* yrm100_init, lines 9 to 24 of yrm100.c: a new block has no other owner.
LEMMA InitContextKeepsIInv == IInv /\ InitContext => IInv'
<1> SUFFICES ASSUME IInv, InitContext
             PROVE  IInv'
  OBVIOUS
<1> USE BlocksAssumption, BoundsAssumption DEF BlocksAssumption, BoundsAssumption
<1>0. TypeOK /\ LiveIsOwned /\ PointersAreApart /\ DeviceIsKnown /\ LengthMatchesData
  BY DEF IInv
<1>1. PICK b \in Blocks : size[b] = 0 /\ size' = [size EXCEPT ![b] = ContextSize] /\ context' = b
  BY DEF InitContext, Allocated
<1>2. /\ b # NoBlock /\ name = NoBlock /\ name' = name /\ context = NoBlock
      /\ UNCHANGED <<data, length>>
      /\ \A s \in Slots : data[s] # b
  BY <1>0, <1>1 DEF InitContext, tags, DeviceIsKnown, LiveIsOwned
<1>3. \A c \in Blocks : size'[c] = IF c = b THEN 1 ELSE size[c]
  BY <1>0, <1>1 DEF TypeOK, ContextSize
<1>4. TypeOK'
  <2>1. size' \in [Blocks -> Nat] /\ context' \in Pointers
    BY <1>0, <1>1 DEF TypeOK, ContextSize, Pointers
  <2> QED
    BY <1>0, <2>1 DEF TypeOK, InitContext, tags
<1>5. LiveIsOwned'
  BY <1>0, <1>1, <1>2, <1>3 DEF LiveIsOwned
<1>6. PointersAreApart'
  BY <1>0, <1>1, <1>2 DEF PointersAreApart
<1>7. DeviceIsKnown'
  BY <1>1, <1>2 DEF DeviceIsKnown, InitContext
<1>8. LengthMatchesData'
  BY <1>0, <1>2, <1>3 DEF LengthMatchesData, TypeOK, Pointers
<1>9. FreesAreSound' /\ CopiedIsAnswer' /\ TagsAreOfOnePoll' /\ DataIsOfItsTag'
  BY SameHistory DEF InitContext, tags, IInv, FreesAreSound
<1> QED
  BY <1>4, <1>5, <1>6, <1>7, <1>8, <1>9 DEF IInv

\* The name's block has no other owner either.
LEMMA InitNameKeepsIInv == IInv /\ InitName => IInv'
<1> SUFFICES ASSUME IInv, InitName
             PROVE  IInv'
  OBVIOUS
<1> USE BlocksAssumption, BoundsAssumption DEF BlocksAssumption, BoundsAssumption
<1>0. TypeOK /\ LiveIsOwned /\ PointersAreApart /\ DeviceIsKnown /\ LengthMatchesData
  BY DEF IInv
<1>1. PICK b \in Blocks : size[b] = 0 /\ size' = [size EXCEPT ![b] = NameSize] /\ name' = b
  BY DEF InitName, Allocated
<1>2. /\ b # NoBlock /\ name = NoBlock /\ context' = context /\ context # NoBlock /\ context # b
      /\ UNCHANGED <<data, length>>
      /\ \A s \in Slots : data[s] # b
  BY <1>0, <1>1 DEF InitName, tags, DeviceIsKnown, LiveIsOwned
<1>3. \A c \in Blocks : size'[c] = IF c = b THEN 1 ELSE size[c]
  BY <1>0, <1>1 DEF TypeOK, NameSize
<1>4. TypeOK'
  <2>1. size' \in [Blocks -> Nat] /\ name' \in Pointers
    BY <1>0, <1>1 DEF TypeOK, NameSize, Pointers
  <2> QED
    BY <1>0, <2>1 DEF TypeOK, InitName, tags
<1>5. LiveIsOwned'
  BY <1>0, <1>1, <1>2, <1>3 DEF LiveIsOwned
<1>6. PointersAreApart'
  BY <1>0, <1>1, <1>2 DEF PointersAreApart
<1>7. DeviceIsKnown'
  BY <1>1, <1>2 DEF DeviceIsKnown, InitName
<1>8. LengthMatchesData'
  BY <1>0, <1>2, <1>3 DEF LengthMatchesData, TypeOK, Pointers
<1>9. FreesAreSound' /\ CopiedIsAnswer' /\ TagsAreOfOnePoll' /\ DataIsOfItsTag'
  BY SameHistory DEF InitName, tags, IInv, FreesAreSound
<1> QED
  BY <1>4, <1>5, <1>6, <1>7, <1>8, <1>9 DEF IInv

\* Opening and configuring the port, and the calls that leave all as it was.
LEMMA NothingMovesKeepsIInv ==
  ASSUME IInv,
         UNCHANGED <<size, context, name, tags, polled, copied, sound>>,
         pc' = pc \/ (pc' \in {"caller", "configure"} /\ pc # "caller"),
         port' \in BOOLEAN
  PROVE  IInv'
<1>1. TypeOK'
  BY DEF IInv, TypeOK, tags
<1>2. LiveIsOwned' /\ PointersAreApart' /\ LengthMatchesData' /\ FreesAreSound'
  BY DEF IInv, LiveIsOwned, PointersAreApart, LengthMatchesData, FreesAreSound, tags
<1>3. DeviceIsKnown'
  BY DEF IInv, DeviceIsKnown
<1>4. CopiedIsAnswer' /\ TagsAreOfOnePoll' /\ DataIsOfItsTag'
  BY SameHistory DEF tags
<1> QED
  BY <1>1, <1>2, <1>3, <1>4 DEF IInv

\* The ways out of yrm100_init and yrm100_deinit: the context and its name are
\* freed, or the context alone while there is no name.
LEMMA DeviceIsFreed ==
  ASSUME IInv, NEW S, Frees(S), S = {context, name} \/ (S = {context} /\ name = NoBlock),
         context' = NoBlock, name' = NoBlock, port' = FALSE, pc' = "caller",
         UNCHANGED <<tags, polled, copied>>
  PROVE  IInv'
<1> USE BlocksAssumption, BoundsAssumption DEF BlocksAssumption, BoundsAssumption
<1>0. TypeOK /\ LiveIsOwned /\ PointersAreApart /\ LengthMatchesData
  BY DEF IInv
<1>1. \A b \in Blocks : size'[b] = IF b = context \/ b = name THEN 0 ELSE size[b]
  BY DEF Frees
<1>2. UNCHANGED <<data, length, epc>>
  BY DEF tags
<1>3. TypeOK'
  <2>1. size' \in [Blocks -> Nat] /\ NoBlock \in Pointers /\ sound' \in BOOLEAN
    BY <1>0 DEF Frees, TypeOK, Pointers
  <2> QED
    BY <1>0, <1>2, <2>1 DEF TypeOK
<1>4. LiveIsOwned'
  BY <1>0, <1>1, <1>2 DEF LiveIsOwned, PointersAreApart
<1>5. PointersAreApart'
  BY <1>0, <1>2 DEF PointersAreApart
<1>6. LengthMatchesData'
  BY <1>0, <1>1, <1>2 DEF LengthMatchesData, PointersAreApart, TypeOK, Pointers
<1>7. FreesAreSound'
  BY <1>0 DEF IInv, Frees, FreesAreSound, LiveIsOwned
<1>8. DeviceIsKnown'
  BY DEF DeviceIsKnown
<1>9. CopiedIsAnswer' /\ TagsAreOfOnePoll' /\ DataIsOfItsTag'
  BY <1>2, SameHistory
<1> QED
  BY <1>3, <1>4, <1>5, <1>6, <1>7, <1>8, <1>9 DEF IInv

\* yrm100_free_tag_data and yrm100_reset_tag_buf.
LEMMA ResetsKeepIInv ==
  ASSUME IInv, NEW k \in 0 .. MaxTags, FreeTagData(k) \/ ResetTagBuf(k)
  PROVE  IInv'
<1> USE BlocksAssumption, BoundsAssumption DEF BlocksAssumption, BoundsAssumption
<1>0. 1 .. k \in SUBSET Slots
  BY DEF Slots
<1>1. /\ Frees(Data(1 .. k)) /\ data' = Without(1 .. k) /\ length' = Shortened(1 .. k)
      /\ UNCHANGED <<pc, context, name, port, polled, copied>>
  BY DEF FreeTagData, ResetTagBuf, device
<1>2. /\ size' \in [Blocks -> Nat] /\ data' \in [Slots -> Pointers]
      /\ length' \in [Slots -> 0 .. 2 * MaxWords]
      /\ LiveIsOwned' /\ PointersAreApart' /\ FreesAreSound' /\ LengthMatchesData'
  BY <1>0, <1>1, FreedSlots
<1>3. /\ epc' \in [Slots -> {"zero", "last", "older", "memory"}]
      /\ \A s \in Slots : epc'[s] = epc[s] \/ epc'[s] = "zero"
  BY DEF IInv, TypeOK, FreeTagData, ResetTagBuf
<1>4. TypeOK'
  BY <1>1, <1>2, <1>3 DEF IInv, TypeOK, FreesAreSound
<1>5. DeviceIsKnown' /\ CopiedIsAnswer'
  BY <1>1 DEF IInv, DeviceIsKnown, CopiedIsAnswer
<1>6. TagsAreOfOnePoll'
  BY <1>1, <1>3 DEF IInv, TypeOK, TagsAreOfOnePoll, Slots
<1>7. DataIsOfItsTag'
  <2>1. \A s \in Slots : s \notin 1 .. k => epc'[s] = epc[s]
    BY DEF FreeTagData, ResetTagBuf, IInv, TypeOK, Slots
  <2> QED
    BY <1>1, <2>1 DEF IInv, DataIsOfItsTag, Without
<1> QED
  BY <1>2, <1>4, <1>5, <1>6, <1>7 DEF IInv

\* yrm100_parse_poll_response: the slots up to max are reset, the first of them
\* filled.
LEMMA PollFindsTagsKeepsIInv ==
  ASSUME IInv, NEW max \in 0 .. MaxTags, PollFindsTags(max)
  PROVE  IInv'
<1> USE BlocksAssumption, BoundsAssumption DEF BlocksAssumption, BoundsAssumption
<1>0. 1 .. max \in SUBSET Slots
  BY DEF Slots
<1>1. PICK k \in 1 .. MaxNotices :
        /\ Frees(Data(1 .. max)) /\ data' = Without(1 .. max) /\ length' = Shortened(1 .. max)
        /\ epc' = [s \in Slots |-> CASE s <= Min({k, max}) -> "last"
                                     [] s > Min({k, max}) /\ s \in 1 .. max -> "zero"
                                     [] OTHER -> IF epc[s] = "last" THEN "older" ELSE epc[s]]
  BY DEF PollFindsTags, ResetSlots
<1>2. /\ UNCHANGED <<pc, context, name, port, copied>> /\ polled' = max
  BY DEF PollFindsTags, device
<1>3. /\ size' \in [Blocks -> Nat] /\ data' \in [Slots -> Pointers]
      /\ length' \in [Slots -> 0 .. 2 * MaxWords]
      /\ LiveIsOwned' /\ PointersAreApart' /\ FreesAreSound' /\ LengthMatchesData'
  BY <1>0, <1>1, <1>2, FreedSlots
<1>4. Min({k, max}) \in Nat
  BY MinOfTwo
<1>5. epc' \in [Slots -> {"zero", "last", "older", "memory"}]
  BY <1>1, <1>4 DEF IInv, TypeOK, Slots
<1>6. \A s \in 1 .. max : epc'[s] \in {"last", "zero"}
  BY <1>0, <1>1, <1>4 DEF Slots
<1>7. TypeOK'
  BY <1>2, <1>3, <1>5 DEF IInv, TypeOK, FreesAreSound
<1>8. DeviceIsKnown' /\ CopiedIsAnswer'
  BY <1>2 DEF IInv, DeviceIsKnown, CopiedIsAnswer
<1>9. TagsAreOfOnePoll'
  BY <1>2, <1>6 DEF TagsAreOfOnePoll
<1>10. DataIsOfItsTag'
  <2> SUFFICES ASSUME NEW s \in Slots, data'[s] # NoBlock
               PROVE  epc'[s] = "memory"
    BY DEF DataIsOfItsTag
  <2>1. s \notin 1 .. max /\ data[s] # NoBlock
    BY <1>1 DEF Without
  <2>2. s > Min({k, max}) /\ epc[s] = "memory"
    BY <1>4, <2>1, MinOfTwo DEF IInv, DataIsOfItsTag, Slots
  <2> QED
    BY <1>1, <1>4, <2>1, <2>2 DEF Slots
<1> QED
  BY <1>3, <1>7, <1>8, <1>9, <1>10 DEF IInv

\* yrm100_parse_read_tag_memory_response: the new data is in a block of its own
\* before the old data is freed.
LEMMA ReadMemoryKeepsIInv ==
  ASSUME IInv, NEW s \in Slots, NEW n \in 1 .. MaxWords, ReadMemory(s, n)
  PROVE  IInv'
<1> USE BlocksAssumption, BoundsAssumption DEF BlocksAssumption, BoundsAssumption
<1>0. TypeOK /\ LiveIsOwned /\ PointersAreApart /\ LengthMatchesData
  BY DEF IInv
<1>1. PICK p \in 17 .. 17 + 2 * MaxWords, b \in Blocks :
        /\ HoldsData(p, n)
        /\ size[b] = 0
        /\ size' = [c \in Blocks |-> IF c = b THEN 2 * n ELSE IF c = data[s] THEN 0 ELSE size[c]]
        /\ data' = [data EXCEPT ![s] = b]
        /\ copied' = DataBytes(p, n)
  BY DEF ReadMemory
<1>2. /\ UNCHANGED <<pc, context, name, port, polled>>
      /\ length' = [length EXCEPT ![s] = 2 * n]
      /\ epc' = [epc EXCEPT ![s] = "memory"]
      /\ sound' = (sound /\ (data[s] # NoBlock => size[data[s]] > 0))
  BY DEF ReadMemory, device, DataLength
<1>3. 2 * n \in 0 .. 2 * MaxWords /\ 2 * n > 0 /\ 2 * n \in Nat
  OBVIOUS
<1>4. b # NoBlock /\ b # context /\ b # name /\ \A t \in Slots : data[t] # b
  BY <1>0, <1>1 DEF LiveIsOwned
<1>5. \A t \in Slots : data'[t] = IF t = s THEN b ELSE data[t]
  BY <1>0, <1>1 DEF TypeOK
<1>6. \A c \in Blocks : size'[c] = IF c = b THEN 2 * n ELSE IF c = data[s] THEN 0 ELSE size[c]
  BY <1>1
<1>7. TypeOK'
  <2>1. size' \in [Blocks -> Nat]
    BY <1>0, <1>1, <1>3 DEF TypeOK
  <2>2. data' \in [Slots -> Pointers]
    BY <1>0, <1>1 DEF TypeOK, Pointers
  <2>3. length' \in [Slots -> 0 .. 2 * MaxWords]
    BY <1>0, <1>2, <1>3 DEF TypeOK
  <2>4. epc' \in [Slots -> {"zero", "last", "older", "memory"}]
    BY <1>0, <1>2 DEF TypeOK
  <2>5. copied' \subseteq {"data", "checksum", "end", "beyond"}
    BY <1>1, BytesAreOfTheAnswer
  <2>6. sound' \in BOOLEAN
    BY <1>2
  <2> QED
    BY <1>0, <1>2, <2>1, <2>2, <2>3, <2>4, <2>5, <2>6 DEF TypeOK
<1>8. LiveIsOwned'
  <2> SUFFICES ASSUME NEW c \in Blocks
               PROVE  size'[c] > 0 <=> c = context \/ c = name \/ \E t \in Slots : data'[t] = c
    BY <1>2 DEF LiveIsOwned
  <2>1. size[c] > 0 <=> c = context \/ c = name \/ \E t \in Slots : data[t] = c
    BY <1>0 DEF LiveIsOwned
  <2>2. CASE c = b
    <3>1. size'[c] > 0
      BY <1>3, <1>6, <2>2
    <3>2. data'[s] = c
      BY <1>5, <2>2
    <3> QED
      BY <3>1, <3>2
  <2>3. CASE c # b /\ c = data[s]
    <3>1. size'[c] = 0
      BY <1>6, <2>3
    <3>2. c # context /\ c # name /\ \A t \in Slots : data[t] = c => t = s
      BY <1>0, <2>3 DEF PointersAreApart
    <3>3. \A t \in Slots : data'[t] # c
      BY <1>5, <2>3, <3>2
    <3> QED
      BY <3>1, <3>2, <3>3
  <2>4. CASE c # b /\ c # data[s]
    <3>1. size'[c] = size[c]
      BY <1>6, <2>4
    <3>2. \A t \in Slots : data'[t] = c <=> data[t] = c
      BY <1>5, <2>4
    <3> QED
      BY <2>1, <3>1, <3>2
  <2> QED
    BY <2>2, <2>3, <2>4
<1>9. PointersAreApart'
  BY <1>0, <1>2, <1>4, <1>5 DEF PointersAreApart
<1>10. LengthMatchesData'
  <2> SUFFICES ASSUME NEW t \in Slots
               PROVE  IF data'[t] = NoBlock THEN length'[t] = 0 ELSE length'[t] = size'[data'[t]]
    BY DEF LengthMatchesData
  <2>1. CASE t = s
    <3>1. data'[t] = b /\ length'[t] = 2 * n
      BY <1>0, <1>2, <1>5, <2>1 DEF TypeOK
    <3>2. size'[b] = 2 * n
      BY <1>6
    <3> QED
      BY <1>4, <3>1, <3>2
  <2>2. CASE t # s
    <3>1. data'[t] = data[t] /\ length'[t] = length[t]
      BY <1>0, <1>2, <1>5, <2>2 DEF TypeOK
    <3>2. CASE data[t] = NoBlock
      BY <1>0, <3>1, <3>2 DEF LengthMatchesData
    <3>3. CASE data[t] # NoBlock
      <4>1. data[t] \in Blocks /\ data[t] # b /\ data[t] # data[s]
        BY <1>0, <1>4, <2>2, <3>3 DEF TypeOK, Pointers, PointersAreApart
      <4>2. size'[data[t]] = size[data[t]]
        BY <1>6, <4>1
      <4> QED
        BY <1>0, <3>1, <3>3, <4>2 DEF LengthMatchesData
    <3> QED
      BY <3>2, <3>3
  <2> QED
    BY <2>1, <2>2
<1>11. FreesAreSound'
  BY <1>0, <1>2 DEF IInv, FreesAreSound, LiveIsOwned, TypeOK, Pointers
<1>12. DeviceIsKnown'
  BY <1>2 DEF IInv, DeviceIsKnown
<1>13. CopiedIsAnswer'
  <2>1. DataBytes(p, n) \subseteq {"data", "checksum"}
    BY <1>1, BytesAreOfTheAnswer
  <2> QED
    BY <1>1, <2>1 DEF CopiedIsAnswer
<1>14. TagsAreOfOnePoll'
  BY <1>0, <1>2 DEF IInv, TypeOK, TagsAreOfOnePoll, Slots
<1>15. DataIsOfItsTag'
  BY <1>0, <1>2, <1>5 DEF IInv, TypeOK, DataIsOfItsTag
<1> QED
  BY <1>7, <1>8, <1>9, <1>10, <1>11, <1>12, <1>13, <1>14, <1>15 DEF IInv

\* Every call keeps the invariant.
LEMMA NextIInv == IInv /\ [Next]_vars => IInv'
<1> SUFFICES ASSUME IInv, [Next]_vars
             PROVE  IInv'
  OBVIOUS
<1>1. CASE InitContext
  BY <1>1, InitContextKeepsIInv
<1>2. CASE InitName
  BY <1>2, InitNameKeepsIInv
<1>3. CASE InitOpen
  BY <1>3, NothingMovesKeepsIInv DEF InitOpen
<1>4. CASE InitConfigure
  <2>1. port' \in BOOLEAN
    BY <1>4 DEF InitConfigure, device, IInv, TypeOK
  <2> QED
    BY <1>4, <2>1, NothingMovesKeepsIInv DEF InitConfigure, device
<1>5. CASE InitFails
  <2>1. Undone = {context, name} \/ (Undone = {context} /\ name = NoBlock)
    <3>1. CASE pc = "name"
      BY <3>1 DEF Undone, IInv, DeviceIsKnown
    <3>2. CASE pc # "name"
      BY <3>2 DEF Undone
    <3> QED
      BY <3>1, <3>2
  <2> QED
    BY <1>5, <2>1, DeviceIsFreed DEF InitFails
<1>6. CASE Deinit
  <2>1. /\ Frees({context, name}) /\ context' = NoBlock /\ name' = NoBlock
        /\ port' = FALSE /\ pc' = "caller"
        /\ UNCHANGED <<tags, polled, copied>>
    BY <1>6 DEF Deinit
  <2> QED
    BY <2>1, DeviceIsFreed
<1>7. ASSUME NEW k \in 0 .. MaxTags, FreeTagData(k) \/ ResetTagBuf(k)
      PROVE  IInv'
  BY <1>7, ResetsKeepIInv
<1>8. ASSUME NEW k \in 0 .. MaxTags, PollFindsTags(k)
      PROVE  IInv'
  BY <1>8, PollFindsTagsKeepsIInv
<1>9. ASSUME NEW s \in Slots, NEW n \in 1 .. MaxWords, ReadMemory(s, n)
       PROVE  IInv'
  BY <1>9, ReadMemoryKeepsIInv
<1>10. CASE UNCHANGED vars
  <2>1. /\ UNCHANGED <<size, context, name, tags, polled, copied, sound>>
        /\ pc' = pc /\ port' \in BOOLEAN
    BY <1>10 DEF vars, device, IInv, TypeOK
  <2> QED
    BY <2>1, NothingMovesKeepsIInv
<1> QED
  BY <1>1, <1>2, <1>3, <1>4, <1>5, <1>6, <1>7, <1>8, <1>9, <1>10 DEF Next, Inits

\* The invariant holds in every reachable state.
LEMMA SpecIInv == Spec => []IInv
<1>1. Init => IInv
  BY InitIInv
<1>2. IInv /\ [Next]_vars => IInv'
  BY NextIInv
<1> QED
  BY <1>1, <1>2, PTL DEF Spec

-----------------------------------------------------------------------------

\* Heap, context and tags are what the comments of TagMemory say they are.
THEOREM TypeCorrect == Spec => []TypeOK
<1>1. IInv => TypeOK
  BY DEF IInv
<1> QED
  BY <1>1, SpecIInv, PTL

\* No call leaks, and no tag is left with freed or shared data, on any way out
\* of yrm100_init and in any order of polls, reads, resets and frees.
THEOREM HeapStaysOwned == Spec => []HeapIsOwned
<1>1. IInv => HeapIsOwned
  <2> SUFFICES ASSUME IInv
               PROVE  /\ \A b \in Blocks : size[b] > 0 <=> \E o \in Owners : PointerOf(o) = b
                      /\ \A o, q \in Owners :
                           PointerOf(o) = PointerOf(q) /\ PointerOf(o) # NoBlock => o = q
    BY DEF HeapIsOwned
  <2>1. /\ PointerOf(<<"context", 0>>) = context
        /\ PointerOf(<<"name", 0>>) = name
        /\ \A s \in Slots : PointerOf(<<"data", s>>) = data[s]
    BY DEF PointerOf
  <2>2. /\ <<"context", 0>> \in Owners /\ <<"name", 0>> \in Owners
        /\ \A s \in Slots : <<"data", s>> \in Owners
        /\ \A o \in Owners : \/ o = <<"context", 0>> \/ o = <<"name", 0>>
                             \/ \E s \in Slots : o = <<"data", s>>
    BY DEF Owners
  <2>3. ASSUME NEW b \in Blocks
        PROVE  size[b] > 0 <=> \E o \in Owners : PointerOf(o) = b
    <3>1. (\E o \in Owners : PointerOf(o) = b) <=> b = context \/ b = name \/ \E s \in Slots : data[s] = b
      BY <2>1, <2>2
    <3> QED
      BY <3>1 DEF IInv, LiveIsOwned
  <2>4. ASSUME NEW o \in Owners, NEW q \in Owners,
               PointerOf(o) = PointerOf(q), PointerOf(o) # NoBlock
        PROVE  o = q
    BY <2>1, <2>2, <2>4 DEF IInv, PointersAreApart
  <2> QED
    BY <2>3, <2>4
<1> QED
  BY <1>1, SpecIInv, PTL

\* free is only ever called for live blocks.
THEOREM NoDoubleFree == Spec => []FreesAreSound
<1>1. IInv => FreesAreSound
  BY DEF IInv
<1> QED
  BY <1>1, SpecIInv, PTL

\* data_length is the size of data.
THEOREM LengthsAreTrue == Spec => []LengthMatchesData
<1>1. IInv => LengthMatchesData
  BY DEF IInv
<1> QED
  BY <1>1, SpecIInv, PTL

\* The length check of yrm100_parse.c, line 74, keeps everything behind the
\* checksum out of the tag's data, for any number of words.
THEOREM DataIsOfTheAnswer == Spec => []CopiedIsAnswer
<1>1. IInv => CopiedIsAnswer
  BY DEF IInv
<1> QED
  BY <1>1, SpecIInv, PTL

\* A poll never leaves a tag of an earlier one among its own.
THEOREM PollsDoNotMix == Spec => []TagsAreOfOnePoll
<1>1. IInv => TagsAreOfOnePoll
  BY DEF IInv
<1> QED
  BY <1>1, SpecIInv, PTL

\* What was read from a tag's memory never stands beside another tag's EPC.
THEOREM DataStaysWithItsTag == Spec => []DataIsOfItsTag
<1>1. IInv => DataIsOfItsTag
  BY DEF IInv
<1> QED
  BY <1>1, SpecIInv, PTL

=============================================================================
