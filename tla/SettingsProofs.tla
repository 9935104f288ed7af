--------------------------- MODULE SettingsProofs ---------------------------
(***************************************************************************)
(* Proofs about the settings: what a caller asks for is what the module    *)
(* gets and what the caller reads, for every value a caller can ask for    *)
(* and any number of calls.                                                *)
(***************************************************************************)
EXTENDS Settings, TLAPS

-----------------------------------------------------------------------------
(* Packing and unpacking (yrm100_command.c, yrm100_param.c).               *)

\* The numbers two bytes hold.
LEMMA WordNumbers == \A x : x \in Word <=> x \in Nat /\ x <= MaxWord
<1>1. MaxWord \in Nat
  BY DEF MaxWord
<1> QED
  BY <1>1 DEF Word

\* Four bytes hold a pointer of 32 bits, the first byte the highest.
LEMMA PointerComesBack ==
  ASSUME NEW p \in Nat, p \div 16777216 < 256
  PROVE  /\ PointerBytes(p) \in [1 .. 4 -> Byte]
         /\ 16777216 * PointerBytes(p)[1] + 65536 * PointerBytes(p)[2]
              + 256 * PointerBytes(p)[3] + PointerBytes(p)[4] = p
<1>1. /\ PointerBytes(p)[1] = (p \div 16777216) % 256
      /\ PointerBytes(p)[2] = (p \div 65536) % 256
      /\ PointerBytes(p)[3] = (p \div 256) % 256
      /\ PointerBytes(p)[4] = p % 256
  BY DEF PointerBytes
<1>2. PointerBytes(p) \in [1 .. 4 -> Byte]
  BY SMT DEF PointerBytes, Byte
<1>3. p % 65536 = (p % 256) + 256 * ((p \div 256) % 256)
  BY SMT
<1>4. p % 16777216 = (p % 65536) + 65536 * ((p \div 65536) % 256)
  BY SMT
<1>5. p = (p % 16777216) + 16777216 * ((p \div 16777216) % 256)
  BY SMT
<1>6. /\ p % 256 \in Nat /\ (p \div 256) % 256 \in Nat
      /\ (p \div 65536) % 256 \in Nat /\ (p \div 16777216) % 256 \in Nat
  BY SMT
<1> QED
  BY <1>1, <1>2, <1>3, <1>4, <1>5, <1>6, SMT

\* yrm100_pack_select_parameters: the fields do not run into each other.
LEMMA SelectBitsComeBack ==
  ASSUME NEW t \in Nat, NEW a \in Nat, NEW m \in Nat, NEW b,
         b = (t % 8) + 8 * (a % 8) + 64 * (m % 4)
  PROVE  /\ b \in Byte
         /\ b % 8 = t % 8 /\ (b \div 8) % 8 = a % 8 /\ (b \div 64) % 4 = m % 4
  BY SMT DEF Byte

\* What the module is sent is what a getter makes of it, whole.
LEMMA SelectComesBack ==
  ASSUME NEW s \in SelectParameters, FitsPointer(s)
  PROVE  /\ SelectPayload(s) \in SelectPayloads
         /\ SelectOf(SelectPayload(s)) = Granted(s)
         /\ Granted(s) \in SelectParameters
<1>1. /\ s.target \in Byte /\ s.action \in Byte /\ s.membank \in Byte /\ s.pointer \in Nat
      /\ s.length \in Byte /\ s.truncate \in Byte /\ s.mask \in Masks
  BY DEF SelectParameters
<1>2. s.target \in Nat /\ s.action \in Nat /\ s.membank \in Nat
  BY <1>1, SMTT(30) DEF Byte
<1>3. PackSelect(s) = (s.target % 8) + 8 * (s.action % 8) + 64 * (s.membank % 4)
  BY DEF PackSelect
<1>4. /\ PackSelect(s) \in Byte
      /\ PackSelect(s) % 8 = s.target % 8
      /\ (PackSelect(s) \div 8) % 8 = s.action % 8
      /\ (PackSelect(s) \div 64) % 4 = s.membank % 4
  BY <1>2, <1>3, SelectBitsComeBack
<1>5. /\ PointerBytes(s.pointer) \in [1 .. 4 -> Byte]
      /\ 16777216 * PointerBytes(s.pointer)[1] + 65536 * PointerBytes(s.pointer)[2]
           + 256 * PointerBytes(s.pointer)[3] + PointerBytes(s.pointer)[4] = s.pointer
  BY <1>1, PointerComesBack DEF FitsPointer
<1>6. SelectPayload(s) \in SelectPayloads
  BY <1>1, <1>4, <1>5 DEF SelectPayload, SelectPayloads
<1>7. SelectOf(SelectPayload(s)) =
        [target |-> s.target % 8, action |-> s.action % 8, membank |-> s.membank % 4,
         pointer |-> s.pointer, length |-> s.length, truncate |-> s.truncate, mask |-> s.mask]
  BY <1>4, <1>5 DEF SelectOf, SelectPayload
<1>8. s.target % 8 \in Byte /\ s.action % 8 \in Byte /\ s.membank % 4 \in Byte
  BY <1>2, SMT DEF Byte
<1> QED
  BY <1>1, <1>6, <1>7, <1>8 DEF SelectParameters, Granted

\* A payload of the module is read as select parameters, whatever is in it.
LEMMA SelectOfType ==
  ASSUME NEW b \in SelectPayloads
  PROVE  SelectOf(b) \in SelectParameters
<1>1. /\ b.selparam \in Byte /\ b.pointer \in [1 .. 4 -> Byte] /\ b.length \in Byte
      /\ b.truncate \in Byte /\ b.mask \in Masks
  BY DEF SelectPayloads
<1>2. /\ b.selparam \in Nat /\ b.pointer[1] \in Nat /\ b.pointer[2] \in Nat
      /\ b.pointer[3] \in Nat /\ b.pointer[4] \in Nat
  <2>1. \A x \in Byte : x \in Nat
    BY DEF Byte
  <2> QED
    BY <1>1, <2>1
<1>3. /\ b.selparam % 8 \in Byte /\ (b.selparam \div 8) % 8 \in Byte
      /\ (b.selparam \div 64) % 4 \in Byte
  BY <1>2, SMT DEF Byte
<1>4. 16777216 * b.pointer[1] + 65536 * b.pointer[2] + 256 * b.pointer[3] + b.pointer[4] \in Nat
  BY <1>2, SMT
<1> QED
  BY <1>1, <1>3, <1>4 DEF SelectOf, SelectParameters

\* Two bytes hold a power.
LEMMA PowerComesBack ==
  ASSUME NEW p \in Nat, p <= MaxWord
  PROVE  PowerBytes(p) \in [1 .. 2 -> Byte] /\ PowerOf(PowerBytes(p)) = p
  BY SMT DEF PowerBytes, PowerOf, Byte, MaxWord

\* Whatever power is asked for, the one sent is within the limits.
LEMMA ClampedIsLegal ==
  ASSUME NEW p \in Nat
  PROVE  Clamped(p) \in Nat /\ Clamped(p) >= MINIMUM /\ Clamped(p) <= MAXIMUM /\ Clamped(p) <= MaxWord
  BY DEF Clamped, MINIMUM, MAXIMUM, MaxWord

\* unpack_query_parameters takes each of the 13 bits once.
LEMMA QueryComesBack ==
  ASSUME NEW w \in Nat
  PROVE  /\ PackQuery(UnpackQuery(w)) = w % 8192
         /\ UnpackQuery(w) \in QueryParameters
<1>1. w % 8 = (w % 2) + 2 * ((w \div 2) % 4)
  BY SMT
<1>2. w % 16 = (w % 8) + 8 * ((w \div 8) % 2)
  BY SMT
<1>3. w % 64 = (w % 16) + 16 * ((w \div 16) % 4)
  BY SMT
<1>4. w % 256 = (w % 64) + 64 * ((w \div 64) % 4)
  BY SMT
<1>5. w % 512 = (w % 256) + 256 * ((w \div 256) % 2)
  BY SMT
<1>6. w % 8192 = (w % 512) + 512 * ((w \div 512) % 16)
  BY SMT
<1>7. /\ UnpackQuery(w).dr % 2 = w % 2 /\ UnpackQuery(w).m % 4 = (w \div 2) % 4
      /\ UnpackQuery(w).trext % 2 = (w \div 8) % 2 /\ UnpackQuery(w).sel % 4 = (w \div 16) % 4
      /\ UnpackQuery(w).session % 4 = (w \div 64) % 4
      /\ UnpackQuery(w).target % 2 = (w \div 256) % 2 /\ UnpackQuery(w).q % 16 = (w \div 512) % 16
  BY SMT DEF UnpackQuery
<1>8. PackQuery(UnpackQuery(w)) =
        (w % 2) + 2 * ((w \div 2) % 4) + 8 * ((w \div 8) % 2) + 16 * ((w \div 16) % 4)
          + 64 * ((w \div 64) % 4) + 256 * ((w \div 256) % 2) + 512 * ((w \div 512) % 16)
  BY <1>7 DEF PackQuery
<1>9. PackQuery(UnpackQuery(w)) = w % 8192
  BY <1>1, <1>2, <1>3, <1>4, <1>5, <1>6, <1>8, SMT
<1>10. UnpackQuery(w) \in QueryParameters
  <2>1. /\ w % 2 \in 0 .. 1 /\ (w \div 2) % 4 \in 0 .. 3 /\ (w \div 8) % 2 \in 0 .. 1
        /\ (w \div 16) % 4 \in 0 .. 3 /\ (w \div 64) % 4 \in 0 .. 3 /\ (w \div 256) % 2 \in 0 .. 1
        /\ (w \div 512) % 16 \in 0 .. 15
    BY SMT
  <2> QED
    BY <2>1 DEF UnpackQuery, QueryParameters
<1> QED
  BY <1>9, <1>10

-----------------------------------------------------------------------------
(* The settings.                                                           *)

\* CallersKnow needs the types, and QueryReadsBack that nothing changes the
\* query parameters.
IInv == TypeOK /\ CallersKnow /\ SettingsAreLegal /\ QueryReadsBack

\* The module's first values are legal, and what the caller believes.
LEMMA InitIInv == Init => IInv
<1> SUFFICES ASSUME Init PROVE IInv
  OBVIOUS
<1> USE NumbersAssumption, ValidAssumption DEF Init, NumbersAssumption, ValidAssumption
<1>1. SelectOf(FactorySelect) \in SelectParameters
  BY SelectOfType
<1>2. PowerOf(FactoryPower) \in Word
  <2>1. FactoryPower[1] \in Byte /\ FactoryPower[2] \in Byte
    OBVIOUS
  <2>2. \A x \in Byte : x \in Nat /\ x <= 255
    BY DEF Byte
  <2>3. PowerOf(FactoryPower) \in Nat /\ PowerOf(FactoryPower) <= MaxWord
    BY <2>1, <2>2 DEF PowerOf, MaxWord
  <2> QED
    BY <2>3, WordNumbers
<1>3. TypeOK
  BY <1>1, <1>2 DEF TypeOK
<1> QED
  BY <1>3 DEF IInv, CallersKnow, SettingsAreLegal, QueryReadsBack

\* A setter that fails has carried out its request or nothing; either way the
\* module has what the caller allows for.
LEMMA NextIInv == IInv /\ [Next]_vars => IInv'
<1> SUFFICES ASSUME IInv, [Next]_vars PROVE IInv'
  OBVIOUS
<1> USE NumbersAssumption, SelectsAssumption
<1>0. /\ calls \in 0 .. MaxCalls /\ MaxCalls \in Nat
      /\ select \in SelectPayloads
      /\ selectMode \in Modes /\ IsValidSelectMode(selectMode)
      /\ region \in Regions /\ IsValidRegion(region)
      /\ power \in [1 .. 2 -> Byte]
      /\ PowerOf(power) \in MINIMUM .. MAXIMUM
      /\ query \in QueryWords
      /\ \A s \in selectBelief : s \in SelectParameters
      /\ regionBelief \subseteq Regions
      /\ powerBelief \subseteq Word
      /\ SelectOf(select) \in selectBelief
      /\ region \in regionBelief
      /\ PowerOf(power) \in powerBelief
  BY DEF IInv, TypeOK, CallersKnow, SettingsAreLegal, NumbersAssumption
<1>r. /\ selectRead # << >> => selectRead \in SelectParameters
      /\ queryRead # << >> => queryRead \in QueryParameters
      /\ queryRead # << >> => PackQuery(queryRead) = query % 8192
      /\ regionRead \in Byte \cup {-1} /\ powerRead \in Word \cup {-1}
  BY DEF IInv, TypeOK, QueryReadsBack
<1>c. ASSUME Calls PROVE calls' \in 0 .. MaxCalls
  BY <1>0, <1>c DEF Calls
<1>i. ASSUME /\ calls' \in 0 .. MaxCalls
             /\ select' \in SelectPayloads
             /\ selectMode' \in Modes /\ IsValidSelectMode(selectMode')
             /\ region' \in Regions /\ IsValidRegion(region')
             /\ power' \in [1 .. 2 -> Byte] /\ PowerOf(power') \in MINIMUM .. MAXIMUM
             /\ query' = query
             /\ \A s \in selectBelief' : s \in SelectParameters
             /\ regionBelief' \subseteq Regions /\ powerBelief' \subseteq Word
             /\ SelectOf(select') \in selectBelief'
             /\ region' \in regionBelief'
             /\ PowerOf(power') \in powerBelief'
             /\ selectRead' # << >> => selectRead' \in SelectParameters
             /\ queryRead' # << >> => queryRead' \in QueryParameters
             /\ queryRead' # << >> => PackQuery(queryRead') = query % 8192
             /\ regionRead' \in Byte \cup {-1} /\ powerRead' \in Word \cup {-1}
      PROVE  IInv'
  BY <1>0, <1>i DEF IInv, TypeOK, CallersKnow, SettingsAreLegal, QueryReadsBack
<1>1. CASE SetSelectParameters
  <2>1. PICK s \in Selects :
          \/ select' = SelectPayload(s) /\ selectBelief' = {Granted(s)}
          \/ select' \in {select, SelectPayload(s)} /\ selectBelief' = selectBelief \cup {Granted(s)}
    BY <1>1 DEF SetSelectParameters, SetSelect
  <2>2. s \in SelectParameters /\ FitsPointer(s)
    BY DEF SelectsAssumption
  <2>3. /\ SelectPayload(s) \in SelectPayloads
        /\ SelectOf(SelectPayload(s)) = Granted(s)
        /\ Granted(s) \in SelectParameters
    BY <2>2, SelectComesBack
  <2>4. /\ select' \in SelectPayloads /\ SelectOf(select') \in selectBelief'
        /\ \A b \in selectBelief' : b \in SelectParameters
    BY <1>0, <2>1, <2>3
  <2> QED
    BY <1>0, <1>r, <1>c, <1>i, <1>1, <2>4 DEF SetSelectParameters, reads
<1>2. CASE SetSelectMode
  <2>1. selectMode' \in Modes /\ IsValidSelectMode(selectMode')
    BY <1>0, <1>2 DEF SetSelectMode, ModeSent
  <2> QED
    BY <1>0, <1>r, <1>c, <1>i, <1>2, <2>1 DEF SetSelectMode, beliefs, reads
<1>3. CASE SetOperatingRegion
  <2>1. /\ region' \in Regions /\ IsValidRegion(region')
        /\ regionBelief' \subseteq Regions /\ region' \in regionBelief'
    BY <1>0, <1>3 DEF SetOperatingRegion, SetRegion
  <2> QED
    BY <1>0, <1>r, <1>c, <1>i, <1>3, <2>1 DEF SetOperatingRegion, reads
<1>4. CASE SetTxPower
  <2>1. PICK p \in Powers :
          \/ power' = PowerBytes(Clamped(p)) /\ powerBelief' = {Clamped(p)}
          \/ /\ power' \in {power, PowerBytes(Clamped(p))}
             /\ powerBelief' = powerBelief \cup {Clamped(p)}
    BY <1>4 DEF SetTxPower, SetPower
  <2>2. p \in Nat
    BY WordNumbers DEF NumbersAssumption
  <2>3. /\ Clamped(p) \in Nat /\ Clamped(p) >= MINIMUM /\ Clamped(p) <= MAXIMUM
        /\ Clamped(p) <= MaxWord
    BY <2>2, ClampedIsLegal
  <2>4. /\ PowerBytes(Clamped(p)) \in [1 .. 2 -> Byte]
        /\ PowerOf(PowerBytes(Clamped(p))) = Clamped(p)
    BY <2>3, PowerComesBack
  <2>5. Clamped(p) \in MINIMUM .. MAXIMUM
    BY <2>3, SMT DEF MINIMUM, MAXIMUM
  <2>6. Clamped(p) \in Word
    BY <2>3, WordNumbers
  <2>7. /\ power' \in [1 .. 2 -> Byte] /\ PowerOf(power') \in MINIMUM .. MAXIMUM
        /\ powerBelief' \subseteq Word /\ PowerOf(power') \in powerBelief'
    BY <1>0, <2>1, <2>4, <2>5, <2>6
  <2> QED
    BY <1>0, <1>r, <1>c, <1>i, <1>4, <2>7 DEF SetTxPower, reads
<1>5. CASE GetSelectParameters
  <2>1. SelectOf(select) \in SelectParameters
    BY <1>0, SelectOfType
  <2>2. /\ selectRead' # << >> => selectRead' \in SelectParameters
        /\ \A s \in selectBelief' : s \in SelectParameters
        /\ SelectOf(select) \in selectBelief'
    BY <1>0, <1>r, <1>5, <2>1 DEF GetSelectParameters
  <2> QED
    BY <1>0, <1>r, <1>c, <1>i, <1>5, <2>2 DEF GetSelectParameters, module
<1>6. CASE GetQueryParameters
  <2>1. query \in Nat
    BY <1>0, WordNumbers DEF NumbersAssumption
  <2>2. PackQuery(UnpackQuery(query)) = query % 8192 /\ UnpackQuery(query) \in QueryParameters
    BY <2>1, QueryComesBack
  <2>3. queryRead' # << >> =>
          queryRead' \in QueryParameters /\ PackQuery(queryRead') = query % 8192
    BY <1>r, <1>6, <2>2 DEF GetQueryParameters
  <2> QED
    BY <1>0, <1>r, <1>c, <1>i, <1>6, <2>3 DEF GetQueryParameters, module, beliefs
<1>m. \A c \in {-1} \cup ModuleErrors : c \in Byte \cup {-1} /\ c \in Word \cup {-1}
  <2>1. \A c \in Byte : c \in Nat /\ c <= MaxWord
    BY SMT DEF Byte, MaxWord
  <2> QED
    BY <2>1, WordNumbers DEF NumbersAssumption
<1>7. CASE GetOperatingRegion
  <2>1. regionRead' \in Byte \cup {-1} /\ region \in regionBelief' /\ regionBelief' \subseteq Regions
    <3>1. region \in Byte
      BY <1>0 DEF NumbersAssumption
    <3> QED
      BY <1>0, <1>m, <1>7, <3>1 DEF GetOperatingRegion
  <2> QED
    BY <1>0, <1>r, <1>c, <1>i, <1>7, <2>1 DEF GetOperatingRegion, module
<1>8. CASE GetTxPower
  <2>1. powerRead' \in Word \cup {-1} /\ PowerOf(power) \in powerBelief' /\ powerBelief' \subseteq Word
    <3>1. PowerOf(power) \in Word
      BY <1>0
    <3> QED
      BY <1>0, <1>m, <1>8, <3>1 DEF GetTxPower
  <2> QED
    BY <1>0, <1>r, <1>c, <1>i, <1>8, <2>1 DEF GetTxPower, module
<1>9. CASE UNCHANGED vars
  BY <1>0, <1>r, <1>i, <1>9 DEF vars, module, beliefs, reads
<1> QED
  BY <1>1, <1>2, <1>3, <1>4, <1>5, <1>6, <1>7, <1>8, <1>9 DEF Next

\* The invariant holds of every behaviour.
LEMMA SpecIInv == Spec => []IInv
<1> QED
  BY InitIInv, NextIInv, PTL DEF Spec

\* The settings and what is read of them stay in range.
THEOREM TypeCorrect == Spec => []TypeOK
<1>1. IInv => TypeOK
  BY DEF IInv
<1> QED
  BY <1>1, SpecIInv, PTL

\* For any values asked for and any number of calls, some of them failing, the
\* module has the settings of a call that may have been the last to reach it,
\* whole, and a caller that reads them gets just these.
THEOREM CallersAreRight == Spec => []CallersKnow
<1>1. IInv => CallersKnow
  BY DEF IInv
<1> QED
  BY <1>1, SpecIInv, PTL

\* No sequence of calls brings the module a mode or a region that does not
\* exist, or a power out of its limits (yrm100_param.c).
THEOREM SettingsStayLegal == Spec => []SettingsAreLegal
<1>1. IInv => SettingsAreLegal
  BY DEF IInv
<1> QED
  BY <1>1, SpecIInv, PTL

\* Whatever 13 bits the module answers, get_query_parameters takes each to its
\* field and leaves none out.
THEOREM QueriesReadBack == Spec => []QueryReadsBack
<1>1. IInv => QueryReadsBack
  BY DEF IInv
<1> QED
  BY <1>1, SpecIInv, PTL

=============================================================================
