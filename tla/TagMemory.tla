----------------------------- MODULE TagMemory -----------------------------
(***************************************************************************)
(* What the library keeps on the heap: a context with its port's name, and *)
(* the data of the caller's tags.  Blocks are allocated and freed where    *)
(* the code does it, malloc may fail each time, and the caller makes any   *)
(* sequence of calls on one context and one zeroed array of tags.  Polls   *)
(* and memory reads that fail, and polls that find no tag, return before   *)
(* they touch heap or tags (yrm100_command.c 461-500 and 1023-1069,        *)
(* yrm100_parse.c 62-82 and 105-126): they are steps that change nothing.  *)
(***************************************************************************)
EXTENDS Integers, FiniteSets, FiniteSetsExt

CONSTANTS
  Blocks,      \* blocks of the heap
  NoBlock,     \* the NULL pointer
  MaxTags,     \* length of the caller's array
  MaxNotices,  \* bound on the notices of one poll
  MaxWords     \* bound on the words read from a tag's memory

ASSUME BlocksAssumption == NoBlock \notin Blocks
ASSUME BoundsAssumption == {MaxTags, MaxNotices, MaxWords} \subseteq Nat \ {0}

Slots == 1 .. MaxTags
Pointers == Blocks \cup {NoBlock}

VARIABLES
  pc,       \* "caller", or the step of yrm100_init
  size,     \* bytes of each block, 0 for one that is free
  context,  \* the caller's device_context, or the one being made
  name,     \* its serial_port_name
  port,     \* whether its serial port is open
  data,     \* each tag's data
  length,   \* each tag's data_length
  epc,      \* what fills the rest of each tag: nothing, the last poll that found
            \* tags, an earlier one, or a memory read
  polled,   \* maximum_tag_count of the last poll that found tags
  copied,   \* the kinds of bytes that the last memory read has put into data
  sound     \* whether every free so far was of a live block

device == <<context, name, port>>
tags == <<data, length, epc>>
vars == <<pc, size, device, tags, polled, copied, sound>>

TypeOK ==
  /\ pc \in {"caller", "name", "open", "configure"}
  /\ size \in [Blocks -> Nat]
  /\ context \in Pointers /\ name \in Pointers
  /\ port \in BOOLEAN
  /\ data \in [Slots -> Pointers]
  /\ length \in [Slots -> 0 .. 2 * MaxWords]
  /\ epc \in [Slots -> {"zero", "last", "older", "memory"}]
  /\ polled \in 0 .. MaxTags
  /\ copied \subseteq {"data", "checksum", "end", "beyond"}
  /\ sound \in BOOLEAN

\* The caller's tags are zeroed (doublescanner.c 325, yrm100_util.h 25).
Init ==
  /\ pc = "caller"
  /\ size = [b \in Blocks |-> 0]
  /\ context = NoBlock /\ name = NoBlock /\ port = FALSE
  /\ data = [s \in Slots |-> NoBlock]
  /\ length = [s \in Slots |-> 0]
  /\ epc = [s \in Slots |-> "zero"]
  /\ polled = 0 /\ copied = {} /\ sound = TRUE

\* malloc(k) returns b.
Allocated(b, k) == size[b] = 0 /\ size' = [size EXCEPT ![b] = k]

\* free is called for each pointer of S that is not NULL.
Frees(S) ==
  /\ size' = [b \in Blocks |-> IF b \in S THEN 0 ELSE size[b]]
  /\ sound' = (sound /\ \A b \in S \cap Blocks : size[b] > 0)

-----------------------------------------------------------------------------
(* yrm100_init and yrm100_deinit.                                          *)

ContextSize == 1
NameSize == 1

InitContext ==
  /\ pc = "caller" /\ context = NoBlock
  /\ \E b \in Blocks : Allocated(b, ContextSize) /\ context' = b
  /\ pc' = "name"
  /\ UNCHANGED <<name, port, tags, polled, copied, sound>>

InitName ==
  /\ pc = "name"
  /\ \E b \in Blocks : Allocated(b, NameSize) /\ name' = b
  /\ pc' = "open"
  /\ UNCHANGED <<context, port, tags, polled, copied, sound>>

InitOpen ==
  /\ pc = "open"
  /\ port' = TRUE
  /\ pc' = "configure"
  /\ UNCHANGED <<size, context, name, tags, polled, copied, sound>>

InitConfigure ==
  /\ pc = "configure"
  /\ pc' = "caller"
  /\ UNCHANGED <<size, device, tags, polled, copied, sound>>

\* Faulty: the way out of a failed configuration forgets the name.
MutUndone == IF pc = "configure" THEN {context} ELSE {context, name}

\* What yrm100_init has allocated by now and frees when its next step fails: no
\* name given, no memory, no such port, or a port that cannot be configured.
Undone == IF pc = "name" THEN {context} ELSE {context, name}

InitFails ==
  /\ pc # "caller"
  /\ Frees(Undone)
  /\ port' = FALSE
  /\ context' = NoBlock /\ name' = NoBlock
  /\ pc' = "caller"
  /\ UNCHANGED <<tags, polled, copied>>

\* yrm100_deinit; the caller forgets the context.
Deinit ==
  /\ pc = "caller" /\ context # NoBlock
  /\ Frees({context, name})
  /\ port' = FALSE
  /\ context' = NoBlock /\ name' = NoBlock
  /\ UNCHANGED <<pc, tags, polled, copied>>

-----------------------------------------------------------------------------
(* Tag buffers.                                                            *)

Data(S) == {data[s] : s \in S}

\* Faulty: the caller's pointers stay.
MutWithout(S) == data

\* The pointers once the data of the slots in S has been freed.
Without(S) == [s \in Slots |-> IF s \in S THEN NoBlock ELSE data[s]]

Shortened(S) == [s \in Slots |-> IF s \in S THEN 0 ELSE length[s]]

\* yrm100_free_tag_data: the rest of the tag stays.
FreeTagData(k) ==
  /\ pc = "caller"
  /\ Frees(Data(1 .. k))
  /\ data' = Without(1 .. k) /\ length' = Shortened(1 .. k)
  /\ UNCHANGED <<pc, device, epc, polled, copied>>

\* yrm100_reset_tag_buf.
ResetTagBuf(k) ==
  /\ pc = "caller"
  /\ Frees(Data(1 .. k))
  /\ data' = Without(1 .. k) /\ length' = Shortened(1 .. k)
  /\ epc' = [s \in Slots |-> IF s <= k THEN "zero" ELSE epc[s]]
  /\ UNCHANGED <<pc, device, polled, copied>>

\* Faulty: only the slots about to be filled are reset.
MutResetSlots(k, max) == 1 .. Min({k, max})

\* Faulty: the array is taken for one that the caller has reset.
MutNoReset(k, max) == {}

\* The slots reset before k notices fill an array of max tags.
ResetSlots(k, max) == 1 .. max

\* yrm100_parse_poll_response of k notices; those that do not fit are dropped.
PollFindsTags(max) ==
  /\ pc = "caller" /\ context # NoBlock
  /\ \E k \in 1 .. MaxNotices :
       LET reset == ResetSlots(k, max)
       IN  /\ Frees(Data(reset))
           /\ data' = Without(reset) /\ length' = Shortened(reset)
           /\ epc' = [s \in Slots |-> CASE s <= Min({k, max}) -> "last"
                                        [] s > Min({k, max}) /\ s \in reset -> "zero"
                                        [] OTHER -> IF epc[s] = "last" THEN "older" ELSE epc[s]]
  /\ polled' = max
  /\ UNCHANGED <<pc, device, copied>>

\* Faulty: the end of the frame may be missing too.
MutHoldsData(p, n) == p + 7 >= 8 + 12 + 2 * n

\* The length checks of a memory read: an answer with p bytes of payload (at
\* least 17) for n words.
HoldsData(p, n) == p + 7 >= 9 + 12 + 2 * n

\* The kinds of the bytes behind the EPC, 2 * n of them, in such an answer.
DataBytes(p, n) ==
  {CASE j < 5 + p -> "data" [] j = 5 + p -> "checksum" [] j = 6 + p -> "end" [] OTHER -> "beyond"
     : j \in 20 .. 19 + 2 * n}

\* Faulty: the EPC in front of the data is counted too.
MutDataLength(n) == 12 + 2 * n

DataLength(n) == 2 * n

\* yrm100_parse_read_tag_memory_response: the new block, then the reset, then
\* the tag.
ReadMemory(s, n) ==
  /\ pc = "caller" /\ context # NoBlock
  /\ \E p \in 17 .. 17 + 2 * MaxWords, b \in Blocks :
       /\ HoldsData(p, n)
       /\ size[b] = 0
       /\ size' = [c \in Blocks |-> IF c = b THEN 2 * n ELSE IF c = data[s] THEN 0 ELSE size[c]]
       /\ data' = [data EXCEPT ![s] = b]
       /\ copied' = DataBytes(p, n)
  /\ sound' = (sound /\ (data[s] # NoBlock => size[data[s]] > 0))
  /\ length' = [length EXCEPT ![s] = DataLength(n)]
  /\ epc' = [epc EXCEPT ![s] = "memory"]
  /\ UNCHANGED <<pc, device, polled>>

-----------------------------------------------------------------------------

Inits == InitContext \/ InitName \/ InitOpen \/ InitConfigure \/ InitFails \/ Deinit

Next ==
  \/ Inits
  \/ \E k \in 0 .. MaxTags : FreeTagData(k) \/ ResetTagBuf(k) \/ PollFindsTags(k)
  \/ \E s \in Slots, n \in 1 .. MaxWords : ReadMemory(s, n)

Spec == Init /\ [][Next]_vars

-----------------------------------------------------------------------------
(* Properties.                                                             *)

\* Pointers that the caller can reach, and what they point to.
Owners == {<<"context", 0>>, <<"name", 0>>} \cup {<<"data", s>> : s \in Slots}
PointerOf(o) ==
  CASE o[1] = "context" -> context [] o[1] = "name" -> name [] o[1] = "data" -> data[o[2]]

\* Between two calls the live blocks are the ones the caller can reach, each
\* by one pointer: nothing leaks on any way out of yrm100_init (yrm100.c 9-43),
\* no tag is left with freed data, and no two share any.
HeapIsOwned ==
  pc = "caller" =>
    /\ \A b \in Blocks : size[b] > 0 <=> \E o \in Owners : PointerOf(o) = b
    /\ \A o, q \in Owners : PointerOf(o) = PointerOf(q) /\ PointerOf(o) # NoBlock => o = q

\* Whatever the order of polls, memory reads, resets and frees, free is only
\* called for live blocks (yrm100_util.c 31-36 and 57-62).
FreesAreSound == sound

\* data_length never promises more bytes than data has (yrm100_parse.c 92-94).
LengthMatchesData ==
  \A s \in Slots : IF data[s] = NoBlock THEN length[s] = 0 ELSE length[s] = size[data[s]]

\* The length check of a memory read (yrm100_parse.c 74) lets one byte be
\* missing: the tag's last byte may be the checksum, but neither the end byte
\* nor what an earlier answer left in the buffer is taken for data.
CopiedIsAnswer == copied \subseteq {"data", "checksum"}

\* Tags that a program sees side by side were found by the same poll, though
\* the last one found fewer or more than the array holds (yrm100_parse.c 128-134).
TagsAreOfOnePoll == \A s \in 1 .. polled : epc[s] # "older"

\* A tag that has data has the EPC that came with it: neither a poll that puts
\* another tag into the slot nor a reset leaves the data of the one before
\* (yrm100_parse.c 84-94 and 134, yrm100_util.c 55-60).
DataIsOfItsTag == \A s \in Slots : data[s] # NoBlock => epc[s] = "memory"

=============================================================================
