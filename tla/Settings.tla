------------------------------ MODULE Settings ------------------------------
(***************************************************************************)
(* The settings that live in the module: select parameters, select mode,   *)
(* region, power and, read only, query parameters.  A value travels packed *)
(* into the payload of a command or an answer, and a call that fails says  *)
(* nothing of whether the module has carried it out.  Module Command has   *)
(* the frames; answers are not late here.                                  *)
(***************************************************************************)
EXTENDS Integers, Sequences

CONSTANTS
  Selects,      \* select parameters asked for
  Modes,        \* select modes asked for
  Regions,      \* regions asked for
  Powers,       \* powers asked for
  FactorySelect, FactoryPower, \* external: payloads with what the module starts with
  QueryWords,   \* what the module's query parameters may be, packed
  Masks,        \* select masks, of 12 bytes each
  ModuleErrors, \* codes of the module's error frames
  MaxCalls      \* bound on the number of calls

Byte == 0 .. 255
MaxWord == 65535
Word == 0 .. MaxWord

SelectParameters ==
  [target : Byte, action : Byte, membank : Byte, pointer : Nat, length : Byte,
   truncate : Byte, mask : Masks]

\* Pointers have 32 bits.
FitsPointer(s) == s.pointer \div 16777216 < 256

ASSUME SelectsAssumption ==
  /\ Selects # {}
  /\ \A s \in Selects : s \in SelectParameters /\ FitsPointer(s)
ASSUME NumbersAssumption ==
  /\ Modes \subseteq Byte /\ Regions \subseteq Byte /\ ModuleErrors \subseteq Byte
  /\ Powers \subseteq Word /\ Powers # {}
  /\ QueryWords \subseteq Word
  /\ MaxCalls \in Nat

SelectPayloads ==
  [selparam : Byte, pointer : [1 .. 4 -> Byte], length : Byte, truncate : Byte, mask : Masks]

-----------------------------------------------------------------------------
(* Valid values (yrm100_param.c).                                          *)

IsValidRegion(r) == r \in {1, 4, 2, 3, 6}
IsValidSelectMode(m) == m \in {0, 1, 2}

MINIMUM == 1000
MAXIMUM == 2600

PowerOf(b) == 256 * b[1] + b[2]

ASSUME ValidAssumption ==
  /\ \E r \in Regions : IsValidRegion(r)
  /\ \E m \in Modes : IsValidSelectMode(m)
  /\ FactorySelect \in SelectPayloads
  /\ FactoryPower \in [1 .. 2 -> Byte] /\ PowerOf(FactoryPower) \in MINIMUM .. MAXIMUM

-----------------------------------------------------------------------------
(* Payloads.                                                               *)

\* Faulty: the memory bank is shifted into the action.
MutPackSelect(s) == (s.target % 8) + 8 * (s.action % 8) + 32 * (s.membank % 4)

\* yrm100_pack_select_parameters: 3 bits, 3 bits and 2 bits.
PackSelect(s) == (s.target % 8) + 8 * (s.action % 8) + 64 * (s.membank % 4)

\* The four bytes of a pointer, and of a power its two, the first one highest.
PointerBytes(p) ==
  <<(p \div 16777216) % 256, (p \div 65536) % 256, (p \div 256) % 256, p % 256>>

PowerBytes(p) == <<p \div 256, p % 256>>

\* The payload set_select_parameters sends, and get_select_parameters reads.
SelectPayload(s) ==
  [selparam |-> PackSelect(s), pointer |-> PointerBytes(s.pointer), length |-> s.length,
   truncate |-> s.truncate, mask |-> s.mask]

SelectOf(b) ==
  [target |-> b.selparam % 8, action |-> (b.selparam \div 8) % 8,
   membank |-> (b.selparam \div 64) % 4,
   pointer |-> 16777216 * b.pointer[1] + 65536 * b.pointer[2] + 256 * b.pointer[3] + b.pointer[4],
   length |-> b.length, truncate |-> b.truncate, mask |-> b.mask]

\* set_tx_power asks for a power within the limits.
Clamped(p) == IF p < MINIMUM THEN MINIMUM ELSE IF p > MAXIMUM THEN MAXIMUM ELSE p

\* yrm100_pack_query_parameters.
PackQuery(q) ==
  (q.dr % 2) + 2 * (q.m % 4) + 8 * (q.trext % 2) + 16 * (q.sel % 4) + 64 * (q.session % 4)
    + 256 * (q.target % 2) + 512 * (q.q % 16)

\* Faulty: the session is taken from where sel is.
MutUnpackQuery(w) ==
  [dr |-> w % 2, m |-> (w \div 2) % 4, trext |-> (w \div 8) % 2, sel |-> (w \div 16) % 4,
   session |-> (w \div 16) % 4, target |-> (w \div 256) % 2, q |-> (w \div 512) % 16]

\* Faulty: q is not masked, only cast to a byte.
MutUnpackWide(w) ==
  [dr |-> w % 2, m |-> (w \div 2) % 4, trext |-> (w \div 8) % 2, sel |-> (w \div 16) % 4,
   session |-> (w \div 64) % 4, target |-> (w \div 256) % 2, q |-> (w \div 512) % 256]

\* unpack_query_parameters.
UnpackQuery(w) ==
  [dr |-> w % 2, m |-> (w \div 2) % 4, trext |-> (w \div 8) % 2, sel |-> (w \div 16) % 4,
   session |-> (w \div 64) % 4, target |-> (w \div 256) % 2, q |-> (w \div 512) % 16]

-----------------------------------------------------------------------------
(* State.                                                                  *)

VARIABLES
  calls,        \* calls made
  select,       \* external: the module's select parameters, as a payload
  selectMode,   \* external: its select mode
  region,       \* external: its region
  power,        \* external: its power, as a payload
  query,        \* external: its query parameters, packed
  selectBelief, \* what a caller who knows only its calls' results must expect
  regionBelief, \* the module's values to be
  powerBelief,
  selectRead,   \* the structs get_select_parameters and get_query_parameters
  queryRead,    \* have filled; << >> before
  regionRead,   \* what get_operating_region and get_tx_power have returned
  powerRead

module == <<select, selectMode, region, power, query>>
beliefs == <<selectBelief, regionBelief, powerBelief>>
reads == <<selectRead, queryRead, regionRead, powerRead>>
vars == <<calls, module, beliefs, reads>>

\* A request as the module will carry it out: a field keeps the bits it has on
\* the line, a power what is within the limits.
Granted(s) ==
  [target |-> s.target % 8, action |-> s.action % 8, membank |-> s.membank % 4,
   pointer |-> s.pointer, length |-> s.length, truncate |-> s.truncate, mask |-> s.mask]

QueryParameters ==
  [dr : 0 .. 1, m : 0 .. 3, trext : 0 .. 1, sel : 0 .. 3, session : 0 .. 3, target : 0 .. 1,
   q : 0 .. 15]

TypeOK ==
  /\ calls \in 0 .. MaxCalls
  /\ select \in SelectPayloads
  /\ selectMode \in Modes
  /\ region \in Regions
  /\ power \in [1 .. 2 -> Byte]
  /\ query \in QueryWords
  /\ \A s \in selectBelief : s \in SelectParameters
  /\ regionBelief \subseteq Regions
  /\ powerBelief \subseteq Word
  /\ selectRead # << >> => selectRead \in SelectParameters
  /\ queryRead # << >> => queryRead \in QueryParameters
  /\ regionRead \in Byte \cup {-1}
  /\ powerRead \in Word \cup {-1}

\* The module is within the limits.
Init ==
  /\ calls = 0
  /\ select = FactorySelect /\ power = FactoryPower
  /\ selectMode \in {m \in Modes : IsValidSelectMode(m)}
  /\ region \in {r \in Regions : IsValidRegion(r)}
  /\ query \in QueryWords
  /\ selectBelief = {SelectOf(FactorySelect)}
  /\ regionBelief = Regions
  /\ powerBelief = {PowerOf(FactoryPower)}
  /\ selectRead = << >> /\ queryRead = << >> /\ regionRead = -1 /\ powerRead = -1

Calls ==
  /\ calls < MaxCalls
  /\ calls' = calls + 1

-----------------------------------------------------------------------------
(* A setter succeeds; or it fails, and the module has carried it out (the  *)
(* answer was lost) or has not.                                            *)

SetSelect ==
  \E s \in Selects :
    \/ select' = SelectPayload(s) /\ selectBelief' = {Granted(s)}
    \/ /\ select' \in {select, SelectPayload(s)}
       /\ selectBelief' = selectBelief \cup {Granted(s)}

SetSelectParameters ==
  /\ Calls
  /\ SetSelect
  /\ UNCHANGED <<selectMode, region, power, query, regionBelief, powerBelief, reads>>

\* Faulty: any mode is sent.
MutModeSent(m) == TRUE

ModeSent(m) == IsValidSelectMode(m)

SetSelectMode ==
  /\ Calls
  /\ \E m \in Modes : selectMode' \in {selectMode} \cup {k \in {m} : ModeSent(k)}
  /\ UNCHANGED <<select, region, power, query, beliefs, reads>>

\* A region that is not valid is refused at once.
SetRegion ==
  \E r \in Regions :
    \/ ~ IsValidRegion(r) /\ UNCHANGED <<region, regionBelief>>
    \/ IsValidRegion(r) /\ region' = r /\ regionBelief' = {r}
    \/ /\ IsValidRegion(r)
       /\ region' \in {region, r}
       /\ regionBelief' = regionBelief \cup {r}

SetOperatingRegion ==
  /\ Calls
  /\ SetRegion
  /\ UNCHANGED <<select, selectMode, power, query, selectBelief, powerBelief, reads>>

SetPower ==
  \E p \in Powers :
    \/ power' = PowerBytes(Clamped(p)) /\ powerBelief' = {Clamped(p)}
    \/ /\ power' \in {power, PowerBytes(Clamped(p))}
       /\ powerBelief' = powerBelief \cup {Clamped(p)}

SetTxPower ==
  /\ Calls
  /\ SetPower
  /\ UNCHANGED <<select, selectMode, region, query, selectBelief, regionBelief, reads>>

-----------------------------------------------------------------------------
(* A getter succeeds; or it fails and leaves the caller's struct alone.    *)

GetSelectParameters ==
  /\ Calls
  /\ \/ selectRead' = SelectOf(select) /\ selectBelief' = {SelectOf(select)}
     \/ UNCHANGED <<selectRead, selectBelief>>
  /\ UNCHANGED <<module, regionBelief, powerBelief, queryRead, regionRead, powerRead>>

GetQueryParameters ==
  /\ Calls
  /\ queryRead' \in {queryRead, UnpackQuery(query)}
  /\ UNCHANGED <<module, beliefs, selectRead, regionRead, powerRead>>

\* A number getter that the module refuses returns the code of the refusal.
GetOperatingRegion ==
  /\ Calls
  /\ \/ regionRead' = region /\ regionBelief' = {region}
     \/ regionRead' \in {-1} \cup ModuleErrors /\ UNCHANGED regionBelief
  /\ UNCHANGED <<module, selectBelief, powerBelief, selectRead, queryRead, powerRead>>

GetTxPower ==
  /\ Calls
  /\ \/ powerRead' = PowerOf(power) /\ powerBelief' = {PowerOf(power)}
     \/ powerRead' \in {-1} \cup ModuleErrors /\ UNCHANGED powerBelief
  /\ UNCHANGED <<module, selectBelief, regionBelief, selectRead, queryRead, regionRead>>

Next ==
  \/ SetSelectParameters \/ SetSelectMode \/ SetOperatingRegion \/ SetTxPower
  \/ GetSelectParameters \/ GetQueryParameters \/ GetOperatingRegion \/ GetTxPower

Spec == Init /\ [][Next]_vars

-----------------------------------------------------------------------------
(* Properties.                                                             *)

\* Whatever calls failed in between, the module has the settings of a call that
\* may have been the last to reach it, whole and as asked for but for the bits
\* the line has no room for, and a caller that reads them gets just these
\* (yrm100_command.c 269, 503, 555, 727, 798).
CallersKnow ==
  /\ SelectOf(select) \in selectBelief
  /\ region \in regionBelief
  /\ PowerOf(power) \in powerBelief

\* No sequence of calls, whatever they ask for, brings the module a mode or a
\* region that does not exist or a power out of its limits (yrm100_param.c;
\* yrm100_command.c 736, 806-813).
SettingsAreLegal ==
  /\ IsValidSelectMode(selectMode) /\ IsValidRegion(region)
  /\ PowerOf(power) \in MINIMUM .. MAXIMUM

\* What get_query_parameters has filled in is all the module said: packed again
\* it gives the 13 bits unpacked (yrm100_command.c 274-302).
QueryReadsBack == queryRead # << >> => PackQuery(queryRead) = query % 8192

=============================================================================
