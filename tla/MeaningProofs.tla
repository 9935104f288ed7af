--------------------------- MODULE MeaningProofs ---------------------------
(***************************************************************************)
(* What the receive loop returns is what the bytes it has read mean, for   *)
(* every stream, every way to cut it into chunks, every place where it     *)
(* falls silent and every buffer size.                                     *)
(***************************************************************************)
EXTENDS ReceiveProofs, LeastElement

-----------------------------------------------------------------------------
(* The checksum of a frame.                                                *)

\* The first m sums of f, as the equations of Sums have them.
SumsUpTo(f, g, m) == \A i \in 1 .. m : g[i] = IF i = 1 THEN 0 ELSE g[i - 1] + f[i]

\* There is a function that satisfies the equations of Sums up to any index.
LEMMA SumsExist ==
  ASSUME NEW f \in Seq(Byte)
  PROVE  \E g \in [1 .. Len(f) -> Int] : SumsUpTo(f, g, Len(f))
<1> DEFINE N == Len(f)
           Q(m) == \E g \in [1 .. N -> Int] : SumsUpTo(f, g, m)
           T == {m \in 0 .. N : ~ Q(m)}
<1>1. N \in Nat
  BY LenProperties
<1>2. \A i \in 1 .. N : f[i] \in Int
  <2>1. \A i \in 1 .. N : f[i] \in Byte
    BY ElementOfSeq
  <2>2. \A x \in Byte : x \in Int
    BY DEF Byte
  <2> QED
    BY <2>1, <2>2
<1>3. Q(0)
  <2>1. [i \in 1 .. N |-> 0] \in [1 .. N -> Int]
    OBVIOUS
  <2>2. SumsUpTo(f, [i \in 1 .. N |-> 0], 0)
    BY DEF SumsUpTo
  <2> QED
    BY <2>1, <2>2
<1>4. ASSUME NEW m \in 1 .. N, Q(m - 1)
      PROVE  Q(m)
  <2>1. PICK g \in [1 .. N -> Int] : SumsUpTo(f, g, m - 1)
    BY <1>4
  <2> DEFINE x == IF m = 1 THEN 0 ELSE g[m - 1] + f[m]
             e == [g EXCEPT ![m] = x]
  <2>2. x \in Int
    <3>1. m # 1 => m - 1 \in 1 .. N
      BY <1>1
    <3> QED
      BY <1>2, <3>1
  <2> HIDE DEF x
  <2>3. /\ e \in [1 .. N -> Int]
        /\ e[m] = x
        /\ \A i \in 1 .. N : i # m => e[i] = g[i]
    BY <2>2
  <2> HIDE DEF e
  <2>4. \A i \in 1 .. m : e[i] = IF i = 1 THEN 0 ELSE e[i - 1] + f[i]
    <3> TAKE i \in 1 .. m
    <3>1. CASE i = m
      <4>1. m # 1 => m - 1 \in 1 .. N /\ m - 1 # m
        BY <1>1
      <4> QED
        BY <2>3, <3>1, <4>1 DEF x
    <3>2. CASE i # m
      <4>1. i \in 1 .. m - 1 /\ i \in 1 .. N
        BY <1>1, <3>2
      <4>2. i # 1 => i - 1 \in 1 .. N /\ i - 1 # m
        BY <1>1, <3>2
      <4>3. g[i] = IF i = 1 THEN 0 ELSE g[i - 1] + f[i]
        BY <2>1, <4>1 DEF SumsUpTo
      <4> QED
        BY <2>3, <3>2, <4>1, <4>2, <4>3
    <3> QED
      BY <3>1, <3>2
  <2> QED
    BY <2>3, <2>4 DEF SumsUpTo
<1> HIDE DEF Q
<1>5. T = {}
  <2> SUFFICES ASSUME T # {} PROVE FALSE
    OBVIOUS
  <2>1. T \subseteq Nat
    BY <1>1
  <2>2. PICK m \in T : \A y \in T : m <= y
    BY <2>1, LeastNatural
  <2>3. m \in 1 .. N
    BY <1>1, <1>3
  <2>4. m - 1 \in 0 .. N /\ ~ (m <= m - 1)
    BY <1>1, <2>3
  <2>5. Q(m - 1)
    BY <2>2, <2>4
  <2> QED
    BY <1>4, <2>3, <2>5
<1> QED
  BY <1>1, <1>5 DEF Q

\* Sums satisfies its equations: it is never an arbitrary choice.
LEMMA SumsUnfold ==
  ASSUME NEW f \in Seq(Byte)
  PROVE  /\ Sums(f) = [i \in 1 .. Len(f) |-> Sums(f)[i]]
         /\ SumsUpTo(f, Sums(f), Len(f))
<1> DEFINE P(g) == g = [i \in 1 .. Len(f) |-> IF i = 1 THEN 0 ELSE g[i - 1] + f[i]]
<1>1. PICK g \in [1 .. Len(f) -> Int] : SumsUpTo(f, g, Len(f))
  BY SumsExist
<1>2. g = [i \in 1 .. Len(f) |-> IF i = 1 THEN 0 ELSE g[i - 1] + f[i]]
  BY <1>1 DEF SumsUpTo
<1>3. P(g)
  BY <1>2
<1>4. Sums(f) = CHOOSE h : P(h)
  BY DEF Sums
<1> HIDE DEF P
<1>5. P(Sums(f))
  BY <1>3, <1>4
<1> DEFINE s == Sums(f)
<1>6. s = [i \in 1 .. Len(f) |-> IF i = 1 THEN 0 ELSE s[i - 1] + f[i]]
  BY <1>5 DEF P
<1> HIDE DEF s
<1>7. s = [i \in 1 .. Len(f) |-> s[i]] /\ SumsUpTo(f, s, Len(f))
  BY <1>6 DEF SumsUpTo
<1> QED
  BY <1>7 DEF s

\* The sums are numbers.
LEMMA SumsAreInts ==
  ASSUME NEW f \in Seq(Byte)
  PROVE  Sums(f) \in [1 .. Len(f) -> Int]
<1> DEFINE s == Sums(f)
           N == Len(f)
           T == {m \in 1 .. N : s[m] \notin Int}
<1>1. s = [i \in 1 .. N |-> s[i]] /\ SumsUpTo(f, s, N)
  BY SumsUnfold
<1>2. N \in Nat
  BY LenProperties
<1>3. \A i \in 1 .. N : f[i] \in Int
  <2>1. \A i \in 1 .. N : f[i] \in Byte
    BY ElementOfSeq
  <2>2. \A x \in Byte : x \in Int
    BY DEF Byte
  <2> QED
    BY <2>1, <2>2
<1> HIDE DEF s, N
<1>4. T = {}
  <2> SUFFICES ASSUME T # {} PROVE FALSE
    OBVIOUS
  <2>1. T \subseteq Nat
    BY <1>2
  <2>2. PICK m \in T : \A y \in T : m <= y
    BY <2>1, LeastNatural
  <2>3. m \in 1 .. N /\ s[m] \notin Int
    BY <2>2
  <2>4. s[m] = IF m = 1 THEN 0 ELSE s[m - 1] + f[m]
    BY <1>1, <2>3 DEF SumsUpTo
  <2>5. m # 1
    BY <2>3, <2>4
  <2>6. m - 1 \in 1 .. N /\ ~ (m <= m - 1)
    BY <1>2, <2>3, <2>5
  <2>7. s[m - 1] \in Int
    BY <2>2, <2>6
  <2> QED
    BY <1>3, <2>3, <2>4, <2>5, <2>7
<1>5. \A m \in 1 .. N : s[m] \in Int
  BY <1>4
<1>6. s \in [1 .. N -> Int]
  BY <1>1, <1>5
<1> QED
  BY <1>6 DEF s, N

\* A frame has a checksum byte, unless it is too short for its type.
LEMMA ChecksumIsByte ==
  ASSUME NEW f \in Seq(Byte), Len(f) >= OVERHEAD_SIZE, f[1] = HEADER
  PROVE  Checksum(f) = IF f[2] = NOTICE /\ Len(f) < MIN_NOTICE
                       THEN PARSE_ERROR ELSE Sums(f)[Len(f) - 2] % 256
<1>1. Len(f) \in Nat
  BY LenProperties
<1> DEFINE tooShort(type, min) == f[1] = HEADER /\ f[2] = type /\ Len(f) < min
<1>2. ~ tooShort(COMMAND, MIN_COMMAND) /\ ~ tooShort(RESPONSE, MIN_RESPONSE)
  BY <1>1 DEF OVERHEAD_SIZE, MIN_COMMAND, MIN_RESPONSE
<1>3. ~ (Len(f) < 2) /\ Len(f) # 2
  <2>1. \A x \in Nat : x >= 7 => ~ (x < 2) /\ x # 2
    OBVIOUS
  <2> QED
    BY <1>1, <2>1 DEF OVERHEAD_SIZE
<1>4. tooShort(NOTICE, MIN_NOTICE) <=> f[2] = NOTICE /\ Len(f) < MIN_NOTICE
  OBVIOUS
<1> QED
  BY <1>2, <1>3, <1>4 DEF Checksum

\* Two frames that differ in one byte: from there on their sums differ by as
\* much as the byte does.
LEMMA SumsDiffer ==
  ASSUME NEW f \in Seq(Byte), NEW g \in Seq(Byte), Len(g) = Len(f), NEW p \in 2 .. Len(f),
         \A i \in 1 .. Len(f) : i # p => g[i] = f[i]
  PROVE  \A i \in 1 .. Len(f) :
           Sums(g)[i] = Sums(f)[i] + (IF i < p THEN 0 ELSE g[p] - f[p])
<1> DEFINE N == Len(f)
           s == Sums(f)
           t == Sums(g)
           d(i) == IF i < p THEN 0 ELSE g[p] - f[p]
           T == {i \in 1 .. N : t[i] # s[i] + d(i)}
<1>1. /\ SumsUpTo(f, s, N) /\ SumsUpTo(g, t, N)
      /\ s \in [1 .. N -> Int] /\ t \in [1 .. N -> Int]
  BY SumsUnfold, SumsAreInts
<1>2. N \in Nat /\ \A i \in 1 .. N : f[i] \in Int /\ g[i] \in Int
  <2>1. \A i \in 1 .. N : f[i] \in Byte /\ g[i] \in Byte
    BY ElementOfSeq
  <2>2. \A x \in Byte : x \in Int
    BY DEF Byte
  <2> QED
    BY <2>1, <2>2, LenProperties
<1> HIDE DEF s, t, N
<1>3. p \in 2 .. N /\ \A i \in 1 .. N : i # p => g[i] = f[i]
  BY DEF N
<1>4. T = {}
  <2> SUFFICES ASSUME T # {} PROVE FALSE
    OBVIOUS
  <2>1. T \subseteq Nat
    BY <1>2
  <2>2. PICK m \in T : \A y \in T : m <= y
    BY <2>1, LeastNatural
  <2>3. m \in 1 .. N /\ t[m] # s[m] + d(m)
    BY <2>2
  <2>4. /\ s[m] = IF m = 1 THEN 0 ELSE s[m - 1] + f[m]
        /\ t[m] = IF m = 1 THEN 0 ELSE t[m - 1] + g[m]
    BY <1>1, <2>3 DEF SumsUpTo
  <2>5. m # 1
    BY <1>2, <1>3, <2>3, <2>4
  <2>6. m - 1 \in 1 .. N /\ ~ (m <= m - 1)
    BY <1>2, <2>3, <2>5
  <2>7. t[m - 1] = s[m - 1] + d(m - 1)
    BY <2>2, <2>6
  <2>8. s[m - 1] \in Int /\ f[m] \in Int /\ g[m] \in Int /\ f[p] \in Int /\ g[p] \in Int
    BY <1>1, <1>2, <1>3, <2>3, <2>6
  <2>9. CASE m < p
    <3>1. d(m) = 0 /\ d(m - 1) = 0 /\ g[m] = f[m]
      BY <1>2, <1>3, <2>3, <2>9
    <3> QED
      BY <2>3, <2>4, <2>5, <2>7, <2>8, <3>1
  <2>10. CASE m = p
    <3>1. d(m) = g[m] - f[m] /\ d(m - 1) = 0
      BY <1>2, <1>3, <2>3, <2>10
    <3> QED
      BY <2>3, <2>4, <2>5, <2>7, <2>8, <3>1
  <2>11. CASE m > p
    <3>1. d(m) = g[p] - f[p] /\ d(m - 1) = g[p] - f[p] /\ g[m] = f[m]
      BY <1>2, <1>3, <2>3, <2>11
    <3> QED
      BY <2>3, <2>4, <2>5, <2>7, <2>8, <3>1
  <2> QED
    BY <1>2, <1>3, <2>3, <2>9, <2>10, <2>11
<1> QED
  BY <1>4 DEF s, t, N

\* A frame the reader accepts.
IsValid(f) == IsValidResponse(f) \/ IsValidNotice(f)

\* What an accepted frame consists of.
LEMMA ValidFrame ==
  ASSUME NEW f \in Seq(Byte), IsValid(f)
  PROVE  /\ Len(f) \in Nat /\ Len(f) >= 7 /\ f[1] = HEADER /\ f[Len(f)] = END
         /\ f[Len(f) - 1] = Sums(f)[Len(f) - 2] % 256
<1>1. Len(f) \in Nat
  BY LenProperties
<1>2. /\ Len(f) >= OVERHEAD_SIZE /\ f[1] = HEADER /\ IsSealed(f)
      /\ ~ (f[2] = NOTICE /\ Len(f) < MIN_NOTICE)
  BY <1>1
  DEF IsValid, IsValidResponse, IsValidNotice, IsResponse, IsNotice, LooksLike, OVERHEAD_SIZE,
      RESPONSE, NOTICE, MIN_RESPONSE, MIN_NOTICE
<1>3. Checksum(f) = Sums(f)[Len(f) - 2] % 256
  BY <1>2, ChecksumIsByte
<1> QED
  BY <1>1, <1>2, <1>3 DEF IsSealed, OVERHEAD_SIZE

\* Numbers less than 256 apart are told apart by their last byte.
LEMMA LastByteTellsApart ==
  ASSUME NEW x \in Int, NEW y \in Int, x % 256 = y % 256, x - y \in -255 .. 255
  PROVE  x = y
<1> DEFINE q == x \div 256
           r == y \div 256
           m == x % 256
<1>1. q \in Int /\ r \in Int /\ m \in Int
  OBVIOUS
<1>2. x = 256 * q + m
  OBVIOUS
<1>3. y = 256 * r + m
  <2>1. y = 256 * (y \div 256) + (y % 256)
    OBVIOUS
  <2> QED
    BY <2>1
<1> HIDE DEF q, r, m
<1>4. q = r
  BY <1>1, <1>2, <1>3
<1> QED
  BY <1>2, <1>3, <1>4

\* Another byte in a sum makes another sum, modulo 256.
LEMMA ChangedByteShows ==
  \A x \in Int : \A a, b \in 0 .. 255 : (x + (b - a)) % 256 = x % 256 => b = a
<1> TAKE x \in Int
<1> TAKE a, b \in 0 .. 255
<1> DEFINE y == x + (b - a)
<1> HAVE y % 256 = x % 256
<1>1. y \in Int /\ y - x = b - a /\ b - a \in -255 .. 255
  OBVIOUS
<1> HIDE DEF y
<1>2. y = x
  BY <1>1, LastByteTellsApart
<1> QED
  BY <1>1, <1>2

\* A frame in which the line has changed one byte is never accepted in place of
\* the one that was sent: two frames of one length that the checks of
\* yrm100_frame.c pass do not differ in a single byte.
THEOREM OneByteErrorsAreFound ==
  ASSUME NEW f \in Seq(Byte), NEW g \in Seq(Byte), Len(g) = Len(f), IsValid(f), IsValid(g),
         NEW p \in 1 .. Len(f), \A i \in 1 .. Len(f) : i # p => g[i] = f[i]
  PROVE  g = f
<1> DEFINE N == Len(f)
<1>1. /\ N \in Nat /\ N >= 7 /\ Len(g) = N
      /\ f[1] = HEADER /\ f[N] = END /\ f[N - 1] = Sums(f)[N - 2] % 256
      /\ g[1] = HEADER /\ g[N] = END /\ g[N - 1] = Sums(g)[N - 2] % 256
  BY ValidFrame
<1>2. f[p] \in 0 .. 255 /\ g[p] \in 0 .. 255
  <2>1. f[p] \in Byte /\ g[p] \in Byte
    BY ElementOfSeq
  <2> QED
    BY <2>1 DEF Byte
<1>3. g[p] = f[p]
  <2>1. CASE p = 1 \/ p = N
    BY <1>1, <2>1
  <2>2. CASE p # 1 /\ p # N
    <3>1. p \in 2 .. N /\ N - 2 \in 1 .. N
      BY <1>1, <2>2
    <3>2. Sums(g)[N - 2] = Sums(f)[N - 2] + (IF N - 2 < p THEN 0 ELSE g[p] - f[p])
      BY <3>1, SumsDiffer
    <3>3. Sums(f)[N - 2] \in Int
      BY <3>1, SumsAreInts
    <3>4. CASE p = N - 1
      BY <1>1, <3>1, <3>2, <3>3, <3>4
    <3>5. CASE p # N - 1
      <4>1. ~ (N - 2 < p) /\ N - 1 \in 1 .. N /\ N - 1 # p
        BY <1>1, <2>2, <3>1, <3>5
      <4>2. g[N - 1] = f[N - 1]
        BY <4>1
      <4>3. (Sums(f)[N - 2] + (g[p] - f[p])) % 256 = Sums(f)[N - 2] % 256
        BY <1>1, <3>2, <4>1, <4>2
      <4> QED
        BY <1>2, <3>3, <4>3, ChangedByteShows
    <3> QED
      BY <3>4, <3>5
  <2> QED
    BY <2>1, <2>2
<1>4. \A i \in 1 .. Len(f) : g[i] = f[i]
  BY <1>3
<1> QED
  BY <1>4, SeqEqual

-----------------------------------------------------------------------------
(* The meaning of an answer, unfolded.                                     *)

\* The first header byte from any index on, or the end: HeaderFrom finds it.
LEMMA HeaderExists ==
  ASSUME NEW s, Len(s) \in Nat, NEW k \in 1 .. Len(s) + 1
  PROVE  /\ HeaderFrom(s, k) \in k .. Len(s) + 1
         /\ HeaderFrom(s, k) <= Len(s) => s[HeaderFrom(s, k)] = HEADER
         /\ \A i \in k .. HeaderFrom(s, k) - 1 : s[i] # HEADER
<1> DEFINE T == {x \in k .. Len(s) + 1 : x <= Len(s) => s[x] = HEADER}
<1>1. T \subseteq Nat /\ Len(s) + 1 \in T
  OBVIOUS
<1>2. PICK h \in T : \A y \in T : h <= y
  BY <1>1, LeastNatural
<1>3. \A i \in k .. h - 1 : s[i] # HEADER
  <2> SUFFICES ASSUME NEW i \in k .. h - 1, s[i] = HEADER PROVE FALSE
    OBVIOUS
  <2>1. i \in T /\ ~ (h <= i)
    OBVIOUS
  <2> QED
    BY <1>2, <2>1
<1>4. h \in k .. Len(s) + 1 /\ (h <= Len(s) => s[h] = HEADER)
  OBVIOUS
<1>5. HeaderFrom(s, k) = h
  BY <1>3, <1>4, HeaderIsFound
<1> QED
  BY <1>3, <1>4, <1>5

\* The size of a frame that is there in full, and of one that is not.
LEMMA SizeInAnswer ==
  ASSUME NEW a \in Seq(Byte), NEW h \in 1 .. Len(a) + 1, Len(a) - h + 1 >= PREFIX_SIZE
  PROVE  /\ 256 * a[h + 3] + a[h + 4] + OVERHEAD_SIZE \in Nat
         /\ 256 * a[h + 3] + a[h + 4] + OVERHEAD_SIZE >= OVERHEAD_SIZE
<1>1. Len(a) \in Nat
  BY LenProperties
<1>2. h + 3 \in 1 .. Len(a) /\ h + 4 \in 1 .. Len(a)
  BY <1>1 DEF PREFIX_SIZE
<1>3. a[h + 3] \in Byte /\ a[h + 4] \in Byte
  BY <1>2, ElementOfSeq
<1>4. \A x, y \in Byte : /\ 256 * x + y + 7 \in Nat
                         /\ 256 * x + y + 7 >= 7
  BY DEF Byte
<1> QED
  BY <1>3, <1>4 DEF OVERHEAD_SIZE

\* What a frame means depends on what follows it, and on nothing else of from.
LEMMA MeaningIsLocal ==
  ASSUME NEW a \in Seq(Byte), NEW h \in 1 .. Len(a) + 1, NEW g1, NEW g2,
         \A j \in h + 1 .. Len(a) + 1 : g1[j] = g2[j]
  PROVE  MeaningAt(a, h, g1) = MeaningAt(a, h, g2)
<1> DEFINE have == Len(a) - h + 1
           size == 256 * a[h + 3] + a[h + 4] + OVERHEAD_SIZE
<1>1. have >= PREFIX_SIZE /\ ~ (have < size) => g1[h + size] = g2[h + size]
  <2> SUFFICES ASSUME have >= PREFIX_SIZE, ~ (have < size)
               PROVE  g1[h + size] = g2[h + size]
    OBVIOUS
  <2>1. size \in Nat /\ size >= OVERHEAD_SIZE /\ Len(a) \in Nat
    BY SizeInAnswer, LenProperties
  <2> HIDE DEF size
  <2>2. h + size \in h + 1 .. Len(a) + 1
    BY <2>1 DEF OVERHEAD_SIZE
  <2> QED
    BY <2>2
<1>2. have < PREFIX_SIZE \/ have >= PREFIX_SIZE
  BY LenProperties DEF PREFIX_SIZE
<1> QED
  BY <1>1, <1>2 DEF MeaningAt

\* What a frame means is a number.
LEMMA MeaningIsInt ==
  ASSUME NEW a \in Seq(Byte), NEW h \in 1 .. Len(a) + 1, NEW g,
         \A j \in h + 1 .. Len(a) + 1 : g[j] \in Int
  PROVE  MeaningAt(a, h, g) \in Int
<1> DEFINE have == Len(a) - h + 1
           size == 256 * a[h + 3] + a[h + 4] + OVERHEAD_SIZE
<1>1. Len(a) \in Nat /\ have \in Int
  BY LenProperties
<1>2. have >= PREFIX_SIZE => size \in Int
  BY SizeInAnswer
<1>3. have >= PREFIX_SIZE /\ ~ (have < size) => g[h + size] \in Int
  <2> SUFFICES ASSUME have >= PREFIX_SIZE, ~ (have < size)
               PROVE  g[h + size] \in Int
    OBVIOUS
  <2>1. size \in Nat /\ size >= OVERHEAD_SIZE
    BY SizeInAnswer
  <2> HIDE DEF size
  <2>2. h + size \in h + 1 .. Len(a) + 1
    BY <1>1, <2>1 DEF OVERHEAD_SIZE
  <2> QED
    BY <2>2
<1>4. SilenceAfter(a) \in Int
  BY <1>1 DEF SilenceAfter, READ_TIMEOUT, OVERFLOW, PARSE_ERROR
<1>5. have < PREFIX_SIZE \/ have >= PREFIX_SIZE
  BY <1>1 DEF PREFIX_SIZE
<1>6. have >= PREFIX_SIZE => h - 1 + size \in Int
  BY <1>2
<1>7. OVERFLOW \in Int /\ PARSE_ERROR \in Int /\ CHECKSUM_FAILURE \in Int
  BY DEF OVERFLOW, PARSE_ERROR, CHECKSUM_FAILURE
<1> QED
  BY <1>3, <1>4, <1>5, <1>6, <1>7 DEF MeaningAt

\* g satisfies the equations of MeaningFrom from index m on.
MeaningBackTo(a, g, m) ==
  \A k \in m .. Len(a) + 1 : g[k] = MeaningAt(a, HeaderFrom(a, k), g)

\* Changing from before a header does not change what comes at or after it.
LEMMA MeaningExtends ==
  ASSUME NEW a \in Seq(Byte), NEW m \in 1 .. Len(a) + 1,
         NEW g \in [1 .. Len(a) + 1 -> Int], MeaningBackTo(a, g, m + 1)
  PROVE  \E e \in [1 .. Len(a) + 1 -> Int] : MeaningBackTo(a, e, m)
<1> DEFINE N == Len(a) + 1
           x == MeaningAt(a, HeaderFrom(a, m), g)
           e == [g EXCEPT ![m] = x]
<1>1. N \in Nat /\ Len(a) \in Nat
  BY LenProperties
<1>2. \A k \in 1 .. N : HeaderFrom(a, k) \in k .. N /\ HeaderFrom(a, k) \in 1 .. N
  <2> TAKE k \in 1 .. N
  <2>1. HeaderFrom(a, k) \in k .. N
    BY <1>1, HeaderExists
  <2> QED
    BY <2>1, <1>1
<1>3. x \in Int
  <2>1. HeaderFrom(a, m) \in 1 .. N
    BY <1>2
  <2>2. \A j \in HeaderFrom(a, m) + 1 .. N : j \in 1 .. N
    BY <1>1, <2>1
  <2>3. \A j \in HeaderFrom(a, m) + 1 .. N : g[j] \in Int
    BY <2>2
  <2> QED
    BY <2>1, <2>3, MeaningIsInt
<1> HIDE DEF x
<1>4. /\ e \in [1 .. N -> Int]
      /\ e[m] = x
      /\ \A k \in 1 .. N : k # m => e[k] = g[k]
  BY <1>3
<1> HIDE DEF e
<1>5. ASSUME NEW k \in m .. N
      PROVE  e[k] = MeaningAt(a, HeaderFrom(a, k), e)
  <2>1. k \in 1 .. N
    BY <1>1
  <2>2. \A j \in HeaderFrom(a, k) + 1 .. N : j \in 1 .. N /\ j # m
    BY <1>1, <1>2, <2>1
  <2>3. \A j \in HeaderFrom(a, k) + 1 .. N : g[j] = e[j]
    BY <1>4, <2>2
  <2>4. MeaningAt(a, HeaderFrom(a, k), g) = MeaningAt(a, HeaderFrom(a, k), e)
    <3>1. HeaderFrom(a, k) \in 1 .. Len(a) + 1
      BY <1>2, <2>1
    <3>2. \A j \in HeaderFrom(a, k) + 1 .. Len(a) + 1 : g[j] = e[j]
      BY <2>3
    <3> HIDE DEF N
    <3> QED
      BY <3>1, <3>2, MeaningIsLocal
  <2>5. CASE k = m
    BY <1>4, <2>4, <2>5 DEF x
  <2>6. CASE k # m
    <3>1. k \in m + 1 .. N
      BY <1>1, <2>6
    <3>2. g[k] = MeaningAt(a, HeaderFrom(a, k), g)
      BY <3>1 DEF MeaningBackTo
    <3> QED
      BY <1>4, <2>1, <2>4, <2>6, <3>2
  <2> QED
    BY <2>5, <2>6
<1> QED
  BY <1>4, <1>5 DEF MeaningBackTo

\* There is a function that satisfies the equations of MeaningFrom.
LEMMA MeaningExists ==
  ASSUME NEW a \in Seq(Byte)
  PROVE  \E g \in [1 .. Len(a) + 1 -> Int] : MeaningBackTo(a, g, 1)
<1> DEFINE N == Len(a) + 1
           Q(i) == \E g \in [1 .. N -> Int] : MeaningBackTo(a, g, N + 1 - i)
           T == {i \in 0 .. N : ~ Q(i)}
<1>1. N \in Nat
  BY LenProperties
<1>2. Q(0)
  <2>1. [k \in 1 .. N |-> 0] \in [1 .. N -> Int]
    OBVIOUS
  <2>2. \A k \in N + 1 - 0 .. N : FALSE
    BY <1>1
  <2>3. MeaningBackTo(a, [k \in 1 .. N |-> 0], N + 1 - 0)
    BY <2>2 DEF MeaningBackTo
  <2> QED
    BY <2>1, <2>3
<1>3. ASSUME NEW i \in 1 .. N, Q(i - 1)
      PROVE  Q(i)
  <2>1. PICK g \in [1 .. N -> Int] : MeaningBackTo(a, g, N + 1 - (i - 1))
    BY <1>3
  <2>2. N + 1 - i \in 1 .. N /\ N + 1 - (i - 1) = (N + 1 - i) + 1
    BY <1>1
  <2> QED
    BY <2>1, <2>2, MeaningExtends
<1>4. Q(N) => \E g \in [1 .. N -> Int] : MeaningBackTo(a, g, 1)
  <2>1. N + 1 - N = 1
    BY <1>1
  <2> QED
    BY <2>1
<1> HIDE DEF Q
<1>5. T = {}
  <2> SUFFICES ASSUME T # {} PROVE FALSE
    OBVIOUS
  <2>1. T \subseteq Nat
    BY <1>1
  <2>2. PICK m \in T : \A y \in T : m <= y
    BY <2>1, LeastNatural
  <2>3. m \in 1 .. N
    BY <1>1, <1>2
  <2>4. m - 1 \in 0 .. N /\ ~ (m <= m - 1)
    BY <1>1, <2>3
  <2>5. Q(m - 1)
    BY <2>2, <2>4
  <2> QED
    BY <1>3, <2>3, <2>5
<1>6. N \in 0 .. N
  BY <1>1
<1> QED
  BY <1>4, <1>5, <1>6

\* MeaningFrom satisfies its equations: it is never an arbitrary choice.
LEMMA MeaningUnfolds ==
  ASSUME NEW a \in Seq(Byte), NEW k \in 1 .. Len(a) + 1
  PROVE  MeaningFrom(a)[k] = MeaningAt(a, HeaderFrom(a, k), MeaningFrom(a))
<1> DEFINE P(g) == g = [i \in 1 .. Len(a) + 1 |-> MeaningAt(a, HeaderFrom(a, i), g)]
<1>1. PICK g \in [1 .. Len(a) + 1 -> Int] : MeaningBackTo(a, g, 1)
  BY MeaningExists
<1>2. g = [i \in 1 .. Len(a) + 1 |-> MeaningAt(a, HeaderFrom(a, i), g)]
  BY <1>1 DEF MeaningBackTo
<1>3. P(g)
  BY <1>2
<1>4. MeaningFrom(a) = CHOOSE h : P(h)
  BY DEF MeaningFrom
<1> HIDE DEF P
<1>5. P(MeaningFrom(a))
  BY <1>3, <1>4
<1> DEFINE M == MeaningFrom(a)
<1>6. M = [i \in 1 .. Len(a) + 1 |-> MeaningAt(a, HeaderFrom(a, i), M)]
  BY <1>5 DEF P
<1> HIDE DEF M
<1>7. M[k] = MeaningAt(a, HeaderFrom(a, k), M)
  BY <1>6
<1> QED
  BY <1>7 DEF M

\* Bytes that cannot start a frame mean nothing.
LEMMA MeaningSkipsNoise ==
  ASSUME NEW a \in Seq(Byte), NEW k \in 1 .. Len(a) + 1, NEW h \in k .. Len(a) + 1,
         \A i \in k .. h - 1 : a[i] # HEADER
  PROVE  MeaningFrom(a)[k] = MeaningFrom(a)[h]
<1>1. Len(a) \in Nat /\ h \in 1 .. Len(a) + 1
  BY LenProperties
<1> DEFINE x == HeaderFrom(a, h)
<1>2. /\ x \in h .. Len(a) + 1
      /\ x <= Len(a) => a[x] = HEADER
      /\ \A i \in h .. x - 1 : a[i] # HEADER
  BY <1>1, HeaderExists
<1> HIDE DEF x
<1>3. x \in k .. Len(a) + 1
  BY <1>1, <1>2
<1>4. \A i \in k .. x - 1 : a[i] # HEADER
  <2> TAKE i \in k .. x - 1
  <2>1. i \in k .. h - 1 \/ i \in h .. x - 1
    BY <1>1, <1>2
  <2> QED
    BY <1>2, <2>1
<1>5. HeaderFrom(a, k) = x
  BY <1>1, <1>2, <1>3, <1>4, HeaderIsFound
<1> QED
  BY <1>1, <1>5, MeaningUnfolds DEF x

\* At a header byte, or behind the end, meaning is that of the frame there.
LEMMA MeaningAtHeader ==
  ASSUME NEW a \in Seq(Byte), NEW h \in 1 .. Len(a) + 1, h <= Len(a) => a[h] = HEADER
  PROVE  MeaningFrom(a)[h] = MeaningAt(a, h, MeaningFrom(a))
<1>1. Len(a) \in Nat /\ h \in h .. Len(a) + 1 /\ \A i \in h .. h - 1 : a[i] # HEADER
  BY LenProperties
<1>2. HeaderFrom(a, h) = h
  BY <1>1, HeaderIsFound
<1> QED
  BY <1>2, MeaningUnfolds

-----------------------------------------------------------------------------
(* A complete frame.                                                       *)

\* The verdict on a complete frame is the one its meaning gives.
LEMMA FrameIsJudged ==
  ASSUME NEW f \in Seq(Byte), Len(f) >= OVERHEAD_SIZE, f[1] = HEADER, IsSupportedType(f[2])
  PROVE  \/ /\ ValidateCompleteFrame(f) = STATUS_OK
            /\ f[2] = RESPONSE
            /\ IsValidResponse(f)
         \/ /\ ValidateCompleteFrame(f) = STATUS_OK
            /\ f[2] # RESPONSE
            /\ IsValidNotice(f) /\ ~ IsValidResponse(f)
         \/ /\ ValidateCompleteFrame(f) # STATUS_OK
            /\ ~ IsValidResponse(f) /\ ~ IsValidNotice(f)
            /\ ValidateCompleteFrame(f) =
                 IF IsShortNotice(f) THEN CHECKSUM_FAILURE ELSE PARSE_ERROR
<1>1. Len(f) \in Nat /\ Len(f) >= 7
  BY LenProperties DEF OVERHEAD_SIZE
<1>2. f[2] = RESPONSE \/ f[2] = NOTICE
  BY DEF IsSupportedType
<1> USE DEF ValidateCompleteFrame, STATUS_OK, PARSE_ERROR, CHECKSUM_FAILURE
<1>3. CASE f[2] = NOTICE /\ Len(f) < MIN_NOTICE
  <2>1. Checksum(f) = PARSE_ERROR
    BY <1>3, ChecksumIsByte
  <2>2. ~ IsValidResponse(f) /\ ~ IsValidNotice(f)
    BY <1>1, <1>3
    DEF IsValidResponse, IsValidNotice, IsResponse, IsNotice, LooksLike, RESPONSE, NOTICE, MIN_NOTICE
  <2>3. IsShortNotice(f) <=> f[Len(f)] = END
    BY <1>3 DEF IsShortNotice
  <2> QED
    BY <2>1, <2>2, <2>3
<1>4. CASE ~ (f[2] = NOTICE /\ Len(f) < MIN_NOTICE)
  <2>1. Checksum(f) = Sums(f)[Len(f) - 2] % 256
    BY <1>4, ChecksumIsByte
  <2>2. Sums(f)[Len(f) - 2] \in Int
    <3>1. Len(f) - 2 \in 1 .. Len(f)
      BY <1>1
    <3> QED
      BY <3>1, SumsAreInts
  <2>3. ~ (Checksum(f) < 0)
    <3>1. \A x \in Int : ~ (x % 256 < 0)
      OBVIOUS
    <3> QED
      BY <2>1, <2>2, <3>1
  <2>4. ~ IsShortNotice(f)
    BY <1>4 DEF IsShortNotice
  <2>5. ValidateCompleteFrame(f) = IF IsSealed(f) THEN STATUS_OK ELSE PARSE_ERROR
    BY <2>3 DEF IsSealed
  <2>6. IsValidResponse(f) <=> f[2] = RESPONSE /\ IsSealed(f)
    BY <1>1 DEF IsValidResponse, IsResponse, LooksLike, MIN_RESPONSE
  <2>7. IsValidNotice(f) <=> f[2] = NOTICE /\ IsSealed(f)
    <3>1. f[2] = NOTICE => Len(f) >= MIN_NOTICE
      BY <1>1, <1>4 DEF MIN_NOTICE
    <3> QED
      BY <3>1 DEF IsValidNotice, IsNotice, LooksLike
  <2> QED
    BY <1>2, <2>4, <2>5, <2>6, <2>7 DEF RESPONSE, NOTICE
<1> QED
  BY <1>3, <1>4

-----------------------------------------------------------------------------
(* The invariant.                                                          *)

\* A frame whose type is known to the loop has a type the library knows.
TypeKnown == status = "reading" /\ Have >= 2 => IsSupportedType(buf[frame_start + 1])

\* s goes on from what has been collected.
Extends(s) ==
  /\ s \in Seq(Byte)
  /\ cursor <= Len(s)
  /\ \A i \in 1 .. cursor : s[i] = buf[i - 1]

\* Whatever is still to come, the answer means what its bytes from the current
\* frame on mean: the frames before it are accepted notices, the bytes between
\* them noise.
Route == \A s : Extends(s) => MeaningFrom(s)[1] = MeaningFrom(s)[frame_start + 1]

\* The result is what the collected bytes mean.
Verdict == status = "done" => result = READ_FAILED \/ result = Meaning(Contents)

\* While a frame is being read, the answer means what that frame means.
LEMMA CurrentFrame ==
  ASSUME IInv, NEW s, Extends(s), Have > 0
  PROVE  /\ Len(s) \in Nat
         /\ frame_start \in Nat
         /\ frame_start + 1 \in 1 .. Len(s)
         /\ \A i \in 0 .. Have - 1 : /\ frame_start + 1 + i \in 1 .. Len(s)
                                     /\ s[frame_start + 1 + i] = buf[frame_start + i]
         /\ s[frame_start + 1] = HEADER
         /\ MeaningFrom(s)[frame_start + 1] = MeaningAt(s, frame_start + 1, MeaningFrom(s))
<1>1. /\ Len(s) \in Nat /\ frame_start \in Nat /\ cursor \in Nat
      /\ frame_start < cursor /\ cursor <= Len(s) /\ Have \in Nat
      /\ Have = cursor - frame_start
  BY LenProperties DEF IInv, TypeOK, InBounds, Have, Extends
<1>2. ASSUME NEW i \in 0 .. Have - 1
      PROVE  /\ frame_start + 1 + i \in 1 .. Len(s)
             /\ s[frame_start + 1 + i] = buf[frame_start + i]
  <2> DEFINE j == frame_start + 1 + i
  <2>1. j \in 1 .. cursor /\ j \in 1 .. Len(s) /\ j - 1 = frame_start + i
    BY <1>1
  <2> HIDE DEF j
  <2>2. s[j] = buf[j - 1]
    BY <2>1 DEF Extends
  <2> QED
    BY <2>1, <2>2 DEF j
<1>3. frame_start + 1 \in 1 .. Len(s) /\ frame_start + 1 \in 1 .. Len(s) + 1
  BY <1>1
<1>4. s[frame_start + 1] = HEADER
  <2>1. 0 \in 0 .. Have - 1 /\ frame_start + 1 + 0 = frame_start + 1 /\ frame_start + 0 = frame_start
    BY <1>1
  <2>2. s[frame_start + 1] = buf[frame_start]
    BY <1>2, <2>1
  <2> QED
    BY <1>1, <2>2 DEF IInv, Headed
<1>5. MeaningFrom(s)[frame_start + 1] = MeaningAt(s, frame_start + 1, MeaningFrom(s))
  BY <1>3, <1>4, MeaningAtHeader DEF Extends
<1> QED
  BY <1>1, <1>2, <1>3, <1>4, <1>5

\* The prefix of the current frame, in the buffer and in the answer.
LEMMA CurrentPrefix ==
  ASSUME IInv, NEW s, Extends(s), Have >= PREFIX_SIZE
  PROVE  /\ s[frame_start + 2] = buf[frame_start + 1]
         /\ 256 * s[frame_start + 1 + 3] + s[frame_start + 1 + 4] + OVERHEAD_SIZE
              = SizeAt(buf, frame_start)
         /\ SizeAt(buf, frame_start) \in Nat
         /\ SizeAt(buf, frame_start) >= OVERHEAD_SIZE
<1>1. /\ Have \in Nat /\ Have > 0 /\ frame_start \in Nat
      /\ frame_start + PREFIX_SIZE <= BufSize /\ buf \in [Index -> Byte]
  BY BufSizeAssumption DEF IInv, TypeOK, InBounds, Have, PREFIX_SIZE
<1>2. /\ 1 \in 0 .. Have - 1 /\ 3 \in 0 .. Have - 1 /\ 4 \in 0 .. Have - 1
      /\ frame_start + 1 + 1 = frame_start + 2
  BY <1>1 DEF PREFIX_SIZE
<1>3. /\ s[frame_start + 1 + 1] = buf[frame_start + 1]
      /\ s[frame_start + 1 + 3] = buf[frame_start + 3]
      /\ s[frame_start + 1 + 4] = buf[frame_start + 4]
  <2>1. \A i \in 0 .. Have - 1 : s[frame_start + 1 + i] = buf[frame_start + i]
    BY <1>1, CurrentFrame
  <2> QED
    BY <1>2, <2>1
<1>4. SizeAt(buf, frame_start) \in Nat /\ SizeAt(buf, frame_start) >= OVERHEAD_SIZE
  BY <1>1, AnnouncedSize
<1> QED
  BY <1>2, <1>3, <1>4 DEF SizeAt

\* A complete frame: the bytes the loop validates are those the meaning is
\* about, and a notice passes the meaning on to what comes next.
LEMMA CompleteMeaning ==
  ASSUME IInv, TypeKnown, status = "reading", expected_total > 0, ReadSize = 0,
         NEW s, Extends(s)
  PROVE  LET f == Slice(buf, frame_start, expected_frame_size)
         IN  /\ f \in Seq(Byte) /\ Len(f) >= OVERHEAD_SIZE /\ f[1] = HEADER
             /\ f[2] = buf[frame_start + 1] /\ IsSupportedType(f[2])
             /\ f[Len(f)] = buf[cursor - 1] /\ cursor > 0
             /\ MeaningFrom(s)[frame_start + 1] =
                  IF IsValidResponse(f) THEN cursor
                  ELSE IF IsValidNotice(f) THEN MeaningFrom(s)[cursor + 1]
                  ELSE IF IsShortNotice(f) THEN CHECKSUM_FAILURE ELSE PARSE_ERROR
<1> DEFINE n == expected_frame_size
           f == Slice(buf, frame_start, n)
           h == frame_start + 1
           g == SubSeq(s, h, h + n - 1)
<1>1. /\ Have >= PREFIX_SIZE /\ n = SizeAt(buf, frame_start)
      /\ cursor = frame_start + n /\ Have = n
      /\ cursor \in Nat /\ frame_start \in Nat /\ cursor <= BufSize /\ buf \in [Index -> Byte]
      /\ s \in Seq(Byte) /\ cursor <= Len(s)
  <2>1. expected_total = cursor
    BY DEF IInv, TypeOK, ReadSize
  <2> QED
    BY <2>1, BufSizeAssumption DEF IInv, TypeOK, Sized, Have, Extends
<1>2. n \in Nat /\ n >= 7
  BY <1>1, CurrentPrefix DEF OVERHEAD_SIZE
<1> HIDE DEF n
<1>3. Have > 0
  BY <1>1, <1>2
<1>4. /\ Len(s) \in Nat /\ h \in 1 .. Len(s) /\ s[h] = HEADER
      /\ MeaningFrom(s)[h] = MeaningAt(s, h, MeaningFrom(s))
      /\ \A i \in 0 .. n - 1 : h + i \in 1 .. Len(s) /\ s[h + i] = buf[frame_start + i]
  BY <1>1, <1>3, CurrentFrame
<1>5. /\ f \in Seq(Byte) /\ Len(f) = n
      /\ \A i \in 1 .. n : f[i] = buf[frame_start + i - 1]
  <2>1. \A i \in 1 .. n : frame_start + i - 1 \in Index
    BY <1>1, <1>2, BufSizeAssumption DEF Index
  <2>2. \A i \in 1 .. n : buf[frame_start + i - 1] \in Byte
    BY <1>1, <2>1
  <2>3. [i \in 1 .. n |-> buf[frame_start + i - 1]] \in Seq(Byte)
    BY <1>2, <2>2
  <2>4. Len([i \in 1 .. n |-> buf[frame_start + i - 1]]) = n
    BY <1>2, <2>3
  <2> QED
    BY <2>3, <2>4 DEF Slice
<1>6. g = f
  <2>1. /\ h + n - 1 = cursor /\ h \in Int /\ cursor \in Int
        /\ h <= cursor /\ cursor - h + 1 = n
    BY <1>1, <1>2
  <2>2. \A i \in h .. cursor : s[i] \in Byte
    <3>1. \A i \in h .. cursor : i \in 1 .. Len(s)
      BY <1>1, <1>4
    <3> QED
      BY <1>1, <3>1, ElementOfSeq
  <2> HIDE DEF h, f
  <2>3. /\ SubSeq(s, h, cursor) \in Seq(Byte)
        /\ Len(SubSeq(s, h, cursor)) = IF h <= cursor THEN cursor - h + 1 ELSE 0
        /\ \A i \in 1 .. cursor - h + 1 : SubSeq(s, h, cursor)[i] = s[h + i - 1]
    <3>1. h \in Int /\ cursor \in Int
      BY <2>1
    <3> QED
      BY <2>2, <3>1, SubSeqProperties
  <2>4. /\ g \in Seq(Byte) /\ Len(g) = n
        /\ \A i \in 1 .. n : g[i] = s[h + i - 1]
    BY <2>1, <2>3
  <2>5. \A i \in 1 .. n : g[i] = f[i]
    <3> TAKE i \in 1 .. n
    <3>1. /\ i - 1 \in 0 .. n - 1
          /\ h + (i - 1) = h + i - 1
          /\ frame_start + (i - 1) = frame_start + i - 1
      BY <1>1, <1>2, <2>1
    <3>2. s[h + (i - 1)] = buf[frame_start + (i - 1)]
      BY <1>4, <3>1
    <3> QED
      BY <1>5, <2>4, <3>1, <3>2
  <2> HIDE DEF g
  <2> QED
    BY <1>5, <2>4, <2>5, SeqEqual
<1>7. f[1] = HEADER /\ f[2] = buf[frame_start + 1] /\ f[n] = buf[cursor - 1]
  <2>1. /\ 1 \in 1 .. n /\ 2 \in 1 .. n /\ n \in 1 .. n
        /\ frame_start + 1 - 1 = frame_start /\ frame_start + 2 - 1 = frame_start + 1
        /\ frame_start + n - 1 = cursor - 1
    BY <1>1, <1>2
  <2>2. f[1] = buf[frame_start] /\ f[2] = buf[frame_start + 1] /\ f[n] = buf[cursor - 1]
    BY <1>5, <2>1
  <2>3. buf[frame_start] = HEADER
    BY <1>1, <1>2 DEF IInv, Headed
  <2> QED
    BY <2>2, <2>3
<1>8. IsSupportedType(f[2])
  <2>1. Have >= 2
    BY <1>1, <1>2
  <2> QED
    BY <1>7, <2>1 DEF TypeKnown
<1>9. MeaningFrom(s)[h] = IF IsValidResponse(f) THEN cursor
                          ELSE IF IsValidNotice(f) THEN MeaningFrom(s)[cursor + 1]
                          ELSE IF IsShortNotice(f) THEN CHECKSUM_FAILURE ELSE PARSE_ERROR
  <2>1. 256 * s[h + 3] + s[h + 4] + OVERHEAD_SIZE = n
    BY <1>1, CurrentPrefix
  <2>2. s[h + 1] \in {RESPONSE, NOTICE}
    <3>1. 1 \in 0 .. n - 1
      BY <1>2
    <3> QED
      BY <1>4, <1>7, <1>8, <3>1 DEF IsSupportedType
  <2>3. /\ Len(s) - h + 1 # 0 /\ ~ (Len(s) - h + 1 < PREFIX_SIZE) /\ ~ (Len(s) - h + 1 < n)
        /\ ~ (h - 1 + n > BufSize) /\ h - 1 + n = cursor /\ h + n = cursor + 1
    BY <1>1, <1>2, <1>4, BufSizeAssumption DEF PREFIX_SIZE
  <2> HIDE DEF h, f
  <2> QED
    BY <1>4, <1>6, <2>1, <2>2, <2>3 DEF MeaningAt
<1>10. cursor > 0
  BY <1>1, <1>2
<1> QED
  BY <1>2, <1>5, <1>7, <1>8, <1>9, <1>10 DEF OVERHEAD_SIZE, n

\* What has been collected is an answer that stops here.
LEMMA ContentsExtend ==
  ASSUME IInv
  PROVE  Extends(Contents) /\ Len(Contents) = cursor
<1>1. cursor \in Nat
  BY DEF IInv, TypeOK
<1> QED
  BY <1>1, ContentsIsBuffer DEF IInv, Extends

\* Silence between two frames.
LEMMA SilenceMeaning ==
  ASSUME IInv, Route, Have = 0
  PROVE  Meaning(Contents) = SilenceAfter(Contents)
<1> DEFINE s == Contents
           h == cursor + 1
<1>1. /\ Extends(s) /\ s \in Seq(Byte) /\ Len(s) = cursor /\ cursor \in Nat
      /\ frame_start + 1 = h
  BY ContentsExtend DEF IInv, TypeOK, Have, Extends
<1>2. /\ h \in 1 .. Len(s) + 1 /\ Len(s) - h + 1 = 0
      /\ h <= Len(s) => s[h] = HEADER
  BY <1>1
<1>3. Meaning(s) = MeaningFrom(s)[h]
  BY <1>1 DEF Route, Meaning
<1> HIDE DEF s, h
<1>4. MeaningFrom(s)[h] = MeaningAt(s, h, MeaningFrom(s))
  BY <1>1, <1>2, MeaningAtHeader
<1>5. MeaningAt(s, h, MeaningFrom(s)) = SilenceAfter(s)
  BY <1>2 DEF MeaningAt
<1>6. Meaning(s) = SilenceAfter(s)
  BY <1>3, <1>4, <1>5
<1> QED
  BY <1>6 DEF s

\* An answer that stops within a frame means what that frame means.
LEMMA StoppedMeaning ==
  ASSUME IInv, Route, Have > 0
  PROVE  /\ Meaning(Contents) = MeaningAt(Contents, frame_start + 1, MeaningFrom(Contents))
         /\ Len(Contents) - (frame_start + 1) + 1 = Have
         /\ Len(Contents) = cursor
         /\ Have >= 2 => Contents[frame_start + 1 + 1] = buf[frame_start + 1]
<1>1. /\ Extends(Contents) /\ Len(Contents) = cursor
      /\ cursor \in Nat /\ frame_start \in Nat /\ Have \in Int
  BY ContentsExtend DEF IInv, TypeOK, Have
<1>2. MeaningFrom(Contents)[frame_start + 1]
        = MeaningAt(Contents, frame_start + 1, MeaningFrom(Contents))
  BY <1>1, CurrentFrame
<1>3. \A i \in 0 .. Have - 1 : Contents[frame_start + 1 + i] = buf[frame_start + i]
  BY <1>1, CurrentFrame
<1>4. Have >= 2 => 1 \in 0 .. Have - 1
  BY <1>1
<1>5. Meaning(Contents) = MeaningFrom(Contents)[frame_start + 1]
  BY <1>1 DEF Route, Meaning
<1>6. Len(Contents) - (frame_start + 1) + 1 = Have
  BY <1>1 DEF Have
<1> QED
  BY <1>1, <1>2, <1>3, <1>4, <1>5, <1>6

\* A frame of a type the library does not know is an error.
LEMMA UnknownTypeMeaning ==
  IInv /\ Route /\ Have >= 2 /\ ~ IsSupportedType(buf[frame_start + 1])
    => Meaning(Contents) = PARSE_ERROR
<1> SUFFICES ASSUME IInv, Route, Have >= 2, ~ IsSupportedType(buf[frame_start + 1])
             PROVE  Meaning(Contents) = PARSE_ERROR
  OBVIOUS
<1>1. Have \in Int /\ Have > 0 /\ Have # 0 /\ Have > 1
  BY DEF IInv, TypeOK, Have
<1> QED
  BY <1>1, StoppedMeaning DEF MeaningAt, IsSupportedType

\* A prefix cut short is an error, and a full buffer has no room for its rest.
LEMMA ShortPrefixMeaning ==
  ASSUME IInv, Route, TypeKnown, status = "reading", Have > 0, Have < PREFIX_SIZE
  PROVE  Meaning(Contents) = IF cursor = BufSize THEN OVERFLOW ELSE PARSE_ERROR
<1>1. Have \in Int /\ Have # 0 /\ (Have > 1 => Have >= 2)
  BY DEF IInv, TypeOK, Have
<1>2. Have > 1 => IsSupportedType(buf[frame_start + 1])
  BY <1>1 DEF TypeKnown
<1> QED
  BY <1>1, <1>2, StoppedMeaning DEF MeaningAt, IsSupportedType

\* A frame whose size is known either does not fit the buffer or, cut short,
\* is an error.
LEMMA SizedMeaning ==
  ASSUME IInv, Route, Have >= PREFIX_SIZE, IsSupportedType(buf[frame_start + 1])
  PROVE  /\ frame_start + SizeAt(buf, frame_start) > BufSize => Meaning(Contents) = OVERFLOW
         /\ /\ ~ (frame_start + SizeAt(buf, frame_start) > BufSize)
            /\ Have < SizeAt(buf, frame_start)
            => Meaning(Contents) = PARSE_ERROR
<1> DEFINE h == frame_start + 1
           size == SizeAt(buf, frame_start)
<1>1. /\ Have \in Int /\ Have > 0 /\ Have # 0 /\ Have >= 2 /\ ~ (Have < PREFIX_SIZE)
      /\ frame_start \in Nat
  BY DEF IInv, TypeOK, Have, PREFIX_SIZE
<1>2. /\ Meaning(Contents) = MeaningAt(Contents, h, MeaningFrom(Contents))
      /\ Len(Contents) - h + 1 = Have
      /\ Contents[h + 1] \in {RESPONSE, NOTICE}
  BY <1>1, StoppedMeaning DEF IsSupportedType
<1>3. /\ 256 * Contents[h + 3] + Contents[h + 4] + OVERHEAD_SIZE = size
      /\ size \in Nat
  BY ContentsExtend, CurrentPrefix
<1>4. h - 1 + size = frame_start + size
  BY <1>1, <1>3
<1> HIDE DEF h, size
<1>5. /\ frame_start + size > BufSize => Meaning(Contents) = OVERFLOW
      /\ ~ (frame_start + size > BufSize) /\ Have < size => Meaning(Contents) = PARSE_ERROR
  BY <1>1, <1>2, <1>3, <1>4 DEF MeaningAt
<1> QED
  BY <1>5 DEF size

\* The three parts together, beside IInv.
Tracked == TypeKnown /\ Route /\ Verdict

\* A return of what the collected bytes mean keeps them.
LEMMA ReturnTracked ==
  ASSUME Tracked, NEW r, Return(r), r = READ_FAILED \/ r = Meaning(Contents)
  PROVE  Tracked'
<1>1. status' = "done" /\ result' = r /\ UNCHANGED <<buf, cursor, frame_start>>
  BY DEF Return, locals
<1>2. Contents' = Contents
  BY <1>1 DEF Contents, Slice
<1>3. Verdict'
  BY <1>1, <1>2 DEF Verdict
<1>4. TypeKnown'
  BY <1>1 DEF TypeKnown
<1>5. Route'
  BY <1>1 DEF Tracked, Route, Extends
<1> QED
  BY <1>3, <1>4, <1>5 DEF Tracked

\* Learning where the frame ends.
LEMMA ExpectFrameTracked ==
  ASSUME IInv, Tracked, ExpectFrame
  PROVE  Tracked'
<1> DEFINE size == ExpectedSize(Slice(buf, frame_start, PREFIX_SIZE))
<1>1. /\ Have >= PREFIX_SIZE /\ status = "reading"
      /\ frame_start \in Nat /\ buf \in [Index -> Byte]
      /\ frame_start + PREFIX_SIZE <= BufSize /\ Have >= 2 /\ frame_start < cursor
  BY BufSizeAssumption DEF IInv, TypeOK, InBounds, ExpectFrame, Have, PREFIX_SIZE
<1>2. IsSupportedType(buf[frame_start + 1])
  BY <1>1 DEF Tracked, TypeKnown
<1>3. size = SizeAt(buf, frame_start)
  <2> DEFINE p == Slice(buf, frame_start, PREFIX_SIZE)
  <2>1. /\ p[1] = buf[frame_start] /\ p[2] = buf[frame_start + 1]
        /\ p[4] = buf[frame_start + 3] /\ p[5] = buf[frame_start + 4]
    BY <1>1 DEF Slice, PREFIX_SIZE
  <2>2. PayloadLength(p) + OVERHEAD_SIZE = SizeAt(buf, frame_start)
    BY <2>1 DEF PayloadLength, SizeAt
  <2>3. p[1] = HEADER
    BY <1>1, <2>1 DEF IInv, Headed
  <2> QED
    BY <1>2, <2>1, <2>2, <2>3 DEF ExpectedSize
<1>4. SizeAt(buf, frame_start) \in Nat /\ ~ (SizeAt(buf, frame_start) < 0)
  BY <1>1, AnnouncedSize
<1> HIDE DEF size
<1>5. CASE ~ FitsBuffer(FrameEnd(size)) /\ Return(OVERFLOW)
  <2>1. frame_start + SizeAt(buf, frame_start) > BufSize
    BY <1>1, <1>3, <1>4, <1>5, BufSizeAssumption DEF FitsBuffer, FrameEnd
  <2>2. Meaning(Contents) = OVERFLOW
    BY <1>1, <1>2, <2>1, SizedMeaning DEF Tracked
  <2> QED
    BY <1>5, <2>2, ReturnTracked
<1>6. CASE UNCHANGED <<line, taken, buf, cursor, frame_start, status, result>>
  <2>1. Contents' = Contents /\ Have' = Have
    BY <1>6 DEF Contents, Slice, Have
  <2> QED
    BY <1>6, <2>1 DEF Tracked, TypeKnown, Route, Extends, Verdict
<1> QED
  BY <1>3, <1>4, <1>5, <1>6 DEF ExpectFrame, size

\* The verdict on a complete frame, or the step to the next one.
LEMMA CompleteFrameTracked ==
  ASSUME IInv, Tracked, CompleteFrame
  PROVE  Tracked'
<1> DEFINE f == Slice(buf, frame_start, expected_frame_size)
<1>1. /\ status = "reading" /\ expected_total > 0 /\ ReadSize = 0 /\ TypeKnown /\ Route
      /\ cursor \in Nat
  BY DEF CompleteFrame, Tracked, IInv, TypeOK
<1>2. /\ f \in Seq(Byte) /\ Len(f) >= OVERHEAD_SIZE /\ f[1] = HEADER
      /\ f[2] = buf[frame_start + 1] /\ IsSupportedType(f[2])
      /\ f[Len(f)] = buf[cursor - 1] /\ cursor > 0
  BY <1>1, ContentsExtend, CompleteMeaning
<1>3. ASSUME NEW s, Extends(s)
      PROVE  MeaningFrom(s)[1] =
               IF IsValidResponse(f) THEN cursor
               ELSE IF IsValidNotice(f) THEN MeaningFrom(s)[cursor + 1]
               ELSE IF IsShortNotice(f) THEN CHECKSUM_FAILURE ELSE PARSE_ERROR
  BY <1>1, <1>3, CompleteMeaning DEF Route
<1> HIDE DEF f
<1>4. Extends(Contents) /\ Meaning(Contents) = MeaningFrom(Contents)[1]
  BY ContentsExtend DEF Meaning
<1>5. CASE ValidateCompleteFrame(f) # STATUS_OK
  <2>1. Return(ValidateCompleteFrame(f))
    BY <1>5 DEF CompleteFrame, f
  <2>2. Meaning(Contents) = ValidateCompleteFrame(f)
    BY <1>2, <1>3, <1>4, <1>5, FrameIsJudged
  <2> QED
    BY <2>1, <2>2, ReturnTracked
<1>6. CASE ValidateCompleteFrame(f) = STATUS_OK /\ f[2] = RESPONSE
  <2>1. Return(Collected)
    BY <1>2, <1>6 DEF CompleteFrame, f
  <2>2. IsValidResponse(f)
    BY <1>2, <1>6, FrameIsJudged
  <2>3. Meaning(Contents) = cursor
    BY <1>3, <1>4, <2>2
  <2>4. Collected = cursor
    BY <1>2, <2>2 DEF Collected, IsValidResponse, IsSealed
  <2> QED
    BY <2>1, <2>3, <2>4, ReturnTracked
<1>7. CASE ValidateCompleteFrame(f) = STATUS_OK /\ f[2] # RESPONSE
  <2>1. NextFrame
    BY <1>2, <1>7 DEF CompleteFrame, f
  <2>2. IsValidNotice(f) /\ ~ IsValidResponse(f)
    BY <1>2, <1>7, FrameIsJudged
  <2>3. /\ frame_start' = cursor /\ cursor' = cursor /\ buf' = buf
        /\ status' = "reading"
    BY <1>1, <2>1 DEF NextFrame
  <2>4. ASSUME NEW s, Extends(s)'
        PROVE  MeaningFrom(s)[1] = MeaningFrom(s)[frame_start' + 1]
    <3>1. Extends(s)
      BY <2>3, <2>4 DEF Extends
    <3> QED
      BY <1>3, <2>2, <2>3, <3>1
  <2>5. Route'
    BY <2>4 DEF Route
  <2>6. TypeKnown'
    BY <1>1, <2>3 DEF TypeKnown, Have
  <2>7. Verdict'
    BY <2>3 DEF Verdict
  <2> QED
    BY <2>5, <2>6, <2>7 DEF Tracked
<1> QED
  BY <1>5, <1>6, <1>7

\* No room for what the frame lacks.
LEMMA BufferFullTracked ==
  ASSUME IInv, Tracked, BufferFull
  PROVE  Tracked'
<1>1. /\ cursor = BufSize /\ cursor \in Nat /\ cursor # 0 /\ Have \in Nat
      /\ status = "reading" /\ Return(OVERFLOW)
  BY BufSizeAssumption DEF BufferFull, NeedsBytes, IInv, TypeOK, InBounds, Have
<1>2. Have < PREFIX_SIZE
  BY <1>1, BufSizeAssumption
  DEF BufferFull, NeedsBytes, IInv, TypeOK, InBounds, ReadSize
<1>3. CASE Have = 0
  <2>1. Len(Contents) = BufSize /\ Contents # << >>
    BY <1>1, ContentsExtend
  <2>2. Meaning(Contents) = OVERFLOW
    BY <1>3, <2>1, SilenceMeaning DEF SilenceAfter, Tracked
  <2> QED
    BY <1>1, <2>2, ReturnTracked
<1>4. CASE Have > 0
  <2>1. Meaning(Contents) = OVERFLOW
    BY <1>1, <1>2, <1>4, ShortPrefixMeaning DEF Tracked
  <2> QED
    BY <1>1, <2>1, ReturnTracked
<1> QED
  BY <1>1, <1>3, <1>4

\* A line that falls silent: where it does decides.
LEMMA TimeoutTracked ==
  ASSUME IInv, Tracked, Timeout
  PROVE  Tracked'
<1>1. /\ cursor < BufSize /\ cursor \in Nat /\ frame_start \in Nat /\ frame_start <= cursor
      /\ status = "reading" /\ Return(TimeoutResult)
      /\ Have \in Nat /\ Have = cursor - frame_start
      /\ BufSize \in Nat
  BY BufSizeAssumption DEF Timeout, Reading, NeedsBytes, IInv, TypeOK, InBounds, Have
<1>2. Route /\ TypeKnown
  BY DEF Tracked
<1>3. Len(Contents) = cursor /\ \A k \in 1 .. cursor : Contents[k] = buf[k - 1]
  BY ContentsIsBuffer DEF IInv
<1>4. CASE Have = 0
  <2>1. frame_start = cursor
    BY <1>1, <1>4
  <2>2. Meaning(Contents) = SilenceAfter(Contents)
    BY <1>2, <1>4, SilenceMeaning
  <2>3. CASE cursor = 0
    <3>1. Contents = << >>
      BY <1>3, <2>3, ContentsExtend, EmptySeq DEF Extends
    <3>2. TimeoutResult = READ_TIMEOUT
      BY <2>3 DEF TimeoutResult
    <3> QED
      BY <1>1, <2>2, <3>1, <3>2, ReturnTracked DEF SilenceAfter
  <2>4. CASE cursor > 0
    <3>1. Contents # << >> /\ Len(Contents) # BufSize
      BY <1>1, <1>3, <2>4
    <3>2. Contents[Len(Contents)] = buf[cursor - 1]
      BY <1>1, <1>3, <2>4
    <3>3. TimeoutResult = Collected
      BY <1>1, <2>1, <2>4 DEF TimeoutResult
    <3>4. Collected = SilenceAfter(Contents)
      BY <1>3, <2>4, <3>1, <3>2 DEF Collected, SilenceAfter
    <3> QED
      BY <1>1, <2>2, <3>3, <3>4, ReturnTracked
  <2> QED
    BY <1>1, <2>3, <2>4
<1>5. CASE Have > 0 /\ Have < PREFIX_SIZE
  <2>1. TimeoutResult = PARSE_ERROR
    BY <1>1, <1>5 DEF TimeoutResult
  <2>2. Meaning(Contents) = PARSE_ERROR
    BY <1>1, <1>2, <1>5, ShortPrefixMeaning
  <2> QED
    BY <1>1, <2>1, <2>2, ReturnTracked
<1>6. CASE Have >= PREFIX_SIZE
  <2>1. expected_total > 0
    BY <1>1, <1>6 DEF Timeout, Reading, NeedsBytes, PREFIX_SIZE
  <2>2. /\ expected_total = frame_start + SizeAt(buf, frame_start)
        /\ expected_total \in Nat /\ expected_total <= BufSize
        /\ cursor < expected_total
    BY <1>1, <2>1, BufSizeAssumption
    DEF IInv, TypeOK, InBounds, Sized, Timeout, Reading, NeedsBytes, ReadSize
  <2>3. SizeAt(buf, frame_start) \in Nat /\ Have > 0 /\ Have >= 2
    BY <1>1, <1>6, ContentsExtend, CurrentPrefix DEF PREFIX_SIZE
  <2>4. TimeoutResult = PARSE_ERROR
    BY <1>1, <2>1, <2>2, <2>3 DEF TimeoutResult
  <2>5. IsSupportedType(buf[frame_start + 1])
    BY <1>1, <1>2, <2>3 DEF TypeKnown
  <2>6. ~ (frame_start + SizeAt(buf, frame_start) > BufSize) /\ Have < SizeAt(buf, frame_start)
    BY <1>1, <2>2, <2>3
  <2>7. Meaning(Contents) = PARSE_ERROR
    BY <1>2, <1>6, <2>5, <2>6, SizedMeaning
  <2> QED
    BY <1>1, <2>4, <2>7, ReturnTracked
<1> QED
  BY <1>1, <1>4, <1>5, <1>6 DEF PREFIX_SIZE

\* Bytes that arrive either continue the frame or are noise before the next
\* one; the bytes before them keep their meaning.
LEMMA ReadRoute ==
  ASSUME IInv, Route, NEW n \in 1 .. Smaller(ChunkSize, Len(line) - taken), Read(n)
  PROVE  Route'
<1> DEFINE b == Appended(n)
           c == cursor + n
<1>1. /\ n \in Nat \ {0} /\ c \in Nat /\ cursor \in Nat /\ c <= BufSize
      /\ frame_start \in Nat /\ taken + n <= Len(line)
  BY ReadFits DEF Read, Reading, IInv, TypeOK
<1>2. \A i \in Index : i < cursor => b[i] = buf[i]
  BY <1>1, AppendedBehind DEF IInv
<1>3. PICK fs \in frame_start .. c : IsResyncPoint(b, c, fs) /\ Resync(b, c, fs)
  BY DEF Read
<1> HIDE DEF b, c
<1>4. CASE frame_start' = 0
  BY <1>4 DEF Route
<1>5. CASE buf' = b /\ cursor' = c /\ frame_start' = fs
  <2> SUFFICES ASSUME NEW s, Extends(s)'
               PROVE  MeaningFrom(s)[1] = MeaningFrom(s)[frame_start' + 1]
    BY DEF Route
  <2>1. s \in Seq(Byte) /\ Len(s) \in Nat /\ c <= Len(s) /\ \A i \in 1 .. c : s[i] = b[i - 1]
    BY <1>5, LenProperties DEF Extends
  <2>2. \A i \in 1 .. cursor : s[i] = buf[i - 1]
    <3> TAKE i \in 1 .. cursor
    <3>1. i \in 1 .. c /\ i - 1 \in Index /\ i - 1 < cursor
      BY <1>1, BufSizeAssumption DEF Index, c
    <3> QED
      BY <1>2, <2>1, <3>1
  <2>3. Extends(s)
    BY <1>1, <2>1, <2>2 DEF Extends, c
  <2>4. MeaningFrom(s)[1] = MeaningFrom(s)[frame_start + 1]
    BY <2>3 DEF Route
  <2>5. /\ frame_start + 1 \in 1 .. Len(s) + 1
        /\ fs + 1 \in frame_start + 1 .. Len(s) + 1
    BY <1>1, <1>3, <2>1
  <2>6. \A i \in frame_start + 1 .. fs + 1 - 1 : s[i] # HEADER
    <3> TAKE i \in frame_start + 1 .. fs + 1 - 1
    <3>1. i \in 1 .. c /\ i - 1 \in frame_start .. fs - 1
      BY <1>1, <1>3
    <3> QED
      BY <1>3, <2>1, <3>1 DEF IsResyncPoint
  <2>7. MeaningFrom(s)[frame_start + 1] = MeaningFrom(s)[fs + 1]
    BY <2>1, <2>5, <2>6, MeaningSkipsNoise
  <2> QED
    BY <1>5, <2>4, <2>7
<1> QED
  BY <1>3, <1>4, <1>5 DEF Resync

\* Reading bytes: a type the library does not know ends the call.
LEMMA ReadTracked ==
  ASSUME IInv, IInv', Tracked, NEW n \in 1 .. Smaller(ChunkSize, Len(line) - taken), Read(n)
  PROVE  Tracked'
<1>1. Route'
  BY ReadRoute DEF Tracked
<1>2. status = "reading"
  BY DEF Read, Reading, NeedsBytes
<1>3. CASE Have' >= 2 /\ ~ IsSupportedType(buf'[frame_start' + 1])
  <2>1. status' = "done" /\ result' = PARSE_ERROR
    BY <1>3 DEF Read, CheckType, Have
  <2>2. (IInv /\ Route /\ Have >= 2 /\ ~ IsSupportedType(buf[frame_start + 1])
           => Meaning(Contents) = PARSE_ERROR)'
    BY UnknownTypeMeaning, PTL
  <2>3. (Meaning(Contents) = PARSE_ERROR)'
    BY <1>1, <1>3, <2>2
  <2> QED
    BY <1>1, <2>1, <2>3 DEF Tracked, TypeKnown, Verdict
<1>4. CASE ~ (Have' >= 2 /\ ~ IsSupportedType(buf'[frame_start' + 1]))
  <2>1. status' = "reading"
    BY <1>2, <1>4 DEF Read, CheckType, Have
  <2> QED
    BY <1>1, <1>4, <2>1 DEF Tracked, TypeKnown, Verdict
<1> QED
  BY <1>3, <1>4

\* The three parts hold at any time.
LEMMA SpecTracked == Spec => []Tracked
<1>1. Init => Tracked
  <2> SUFFICES ASSUME Init PROVE Tracked
    OBVIOUS
  <2>1. cursor = 0 /\ frame_start = 0 /\ status = "reading"
    BY DEF Init
  <2> QED
    BY <2>1 DEF Tracked, TypeKnown, Route, Verdict, Have
<1>2. IInv /\ IInv' /\ Tracked /\ [Next]_vars => Tracked'
  <2> SUFFICES ASSUME IInv, IInv', Tracked, [Next]_vars PROVE Tracked'
    OBVIOUS
  <2>1. CASE ExpectFrame
    BY <2>1, ExpectFrameTracked
  <2>2. CASE CompleteFrame
    BY <2>2, CompleteFrameTracked
  <2>3. CASE BufferFull
    BY <2>3, BufferFullTracked
  <2>4. ASSUME NEW n \in 1 .. Smaller(ChunkSize, Len(line) - taken), Read(n)
        PROVE  Tracked'
    BY <2>4, ReadTracked
  <2>5. CASE Timeout
    BY <2>5, TimeoutTracked
  <2>6. CASE ReadError
    BY <2>6, ReturnTracked DEF ReadError
  <2>7. CASE UNCHANGED vars
    <3>1. Contents' = Contents /\ UNCHANGED <<buf, cursor, frame_start, status, result>>
      BY <2>7 DEF vars, locals, Contents, Slice
    <3> QED
      BY <3>1 DEF Tracked, TypeKnown, Route, Extends, Verdict, Have
  <2> QED
    BY <2>1, <2>2, <2>3, <2>4, <2>5, <2>6, <2>7 DEF Next, Progress
<1> QED
  BY <1>1, <1>2, SpecIInv, PTL DEF Spec

-----------------------------------------------------------------------------
(* The frames of an answer.                                                *)

FramePlaces == [at : Nat, size : Nat]

FrameAt(b, f) == Slice(b, f.at, f.size)

\* The first n bytes of b are the valid notices at F and noise between them:
\* no two share a byte, and every header byte lies in one.
NoticesUpTo(b, F, n) ==
  /\ \A f \in F : f.at + f.size <= n /\ IsValidNotice(FrameAt(b, f))
  /\ \A f, g \in F : f # g => f.at + f.size <= g.at \/ g.at + g.size <= f.at
  /\ \A i \in 0 .. n - 1 : b[i] = HEADER => \E f \in F : i \in f.at .. f.at + f.size - 1

\* What comes before the current frame has been accepted.
Accepted == \E F \in SUBSET FramePlaces : NoticesUpTo(buf, F, frame_start)

\* A call that succeeds has collected valid notices and, unless the line fell
\* silent, a valid response at their end: this is what yrm100_parse.c is handed.
SuccessIsFrames ==
  status = "done" /\ result >= 0 =>
    /\ result = cursor
    /\ \E F \in SUBSET FramePlaces :
         \/ NoticesUpTo(buf, F, cursor)
         \/ \E r \in FramePlaces : /\ r.at + r.size = cursor
                                 /\ IsValidResponse(FrameAt(buf, r))
                                 /\ NoticesUpTo(buf, F, r.at)

\* Places below an index that keeps its bytes stay as they are.
LEMMA PlacesStay ==
  ASSUME NEW b, NEW c, NEW F \in SUBSET FramePlaces, NEW n \in Nat, NoticesUpTo(b, F, n),
         \A i \in 0 .. n - 1 : c[i] = b[i]
  PROVE  NoticesUpTo(c, F, n)
<1>1. ASSUME NEW f \in F
      PROVE  FrameAt(c, f) = FrameAt(b, f)
  <2>1. f.at \in Nat /\ f.size \in Nat /\ f.at + f.size <= n
    BY DEF FramePlaces, NoticesUpTo
  <2>2. \A k \in 1 .. f.size : f.at + k - 1 \in 0 .. n - 1
    BY <2>1
  <2>3. \A k \in 1 .. f.size : c[f.at + k - 1] = b[f.at + k - 1]
    BY <2>2
  <2> QED
    BY <2>3 DEF FrameAt, Slice
<1> QED
  BY <1>1 DEF NoticesUpTo

\* A notice behind the others is one more.
LEMMA PlaceIsAdded ==
  ASSUME NEW b, NEW F \in SUBSET FramePlaces, NEW f \in FramePlaces, NoticesUpTo(b, F, f.at),
         IsValidNotice(FrameAt(b, f))
  PROVE  NoticesUpTo(b, F \cup {f}, f.at + f.size)
<1> DEFINE G == F \cup {f}
           n == f.at + f.size
<1>1. f.at \in Nat /\ f.size \in Nat /\ n \in Nat
  BY DEF FramePlaces
<1>2. \A g \in F : g.at \in Nat /\ g.size \in Nat /\ g.at + g.size <= f.at
  BY DEF FramePlaces, NoticesUpTo
<1>3. \A g \in G : g.at + g.size <= n /\ IsValidNotice(FrameAt(b, g))
  BY <1>1, <1>2 DEF NoticesUpTo
<1>4. \A g, h \in G : g # h => g.at + g.size <= h.at \/ h.at + h.size <= g.at
  BY <1>2 DEF NoticesUpTo
<1>5. ASSUME NEW i \in 0 .. n - 1, b[i] = HEADER
      PROVE  \E g \in G : i \in g.at .. g.at + g.size - 1
  <2>1. CASE i < f.at
    <3>1. i \in 0 .. f.at - 1
      BY <1>1, <2>1
    <3> QED
      BY <1>5, <3>1 DEF NoticesUpTo
  <2>2. CASE i >= f.at
    <3>1. i \in f.at .. f.at + f.size - 1
      BY <1>1, <2>2
    <3> QED
      BY <3>1
  <2> QED
    BY <1>1, <2>1, <2>2
<1> QED
  BY <1>3, <1>4, <1>5 DEF NoticesUpTo

\* Noise behind the notices changes nothing.
LEMMA NoiseIsAdded ==
  ASSUME NEW b, NEW F \in SUBSET FramePlaces, NEW n \in Nat, NEW m \in Nat, n <= m,
         NoticesUpTo(b, F, n), \A i \in n .. m - 1 : b[i] # HEADER
  PROVE  NoticesUpTo(b, F, m)
<1>1. \A f \in F : f.at + f.size <= m /\ IsValidNotice(FrameAt(b, f))
  BY DEF FramePlaces, NoticesUpTo
<1>2. ASSUME NEW i \in 0 .. m - 1, b[i] = HEADER
      PROVE  \E f \in F : i \in f.at .. f.at + f.size - 1
  <2>1. i \in 0 .. n - 1
    BY <1>2
  <2> QED
    BY <1>2, <2>1 DEF NoticesUpTo
<1> QED
  BY <1>1, <1>2 DEF NoticesUpTo

\* Nothing is accepted in an empty stretch.
LEMMA NoPlaces == \A b : NoticesUpTo(b, {}, 0)
  BY DEF NoticesUpTo

\* Both parts together, beside IInv.
Framed == Accepted /\ SuccessIsFrames

\* A failing return, and a step that changes neither the buffer nor the frame.
LEMMA StillFramed ==
  ASSUME Framed, UNCHANGED <<buf, frame_start, cursor>>,
         (status' = "done" => result' < 0) \/ UNCHANGED <<status, result>>,
         result' \in Int
  PROVE  Framed'
<1>1. Accepted'
  BY DEF Framed, Accepted
<1>2. SuccessIsFrames'
  BY DEF Framed, SuccessIsFrames
<1> QED
  BY <1>1, <1>2 DEF Framed

\* A complete frame is accepted, ends the call, or is refused.
LEMMA CompleteFrameFramed ==
  ASSUME IInv, TypeKnown, Framed, CompleteFrame
  PROVE  Framed'
<1> DEFINE f == Slice(buf, frame_start, expected_frame_size)
           p == [at |-> frame_start, size |-> expected_frame_size]
<1>1. /\ status = "reading" /\ expected_total > 0 /\ ReadSize = 0
      /\ cursor \in Nat /\ frame_start \in Nat /\ expected_frame_size \in Nat
      /\ frame_start + expected_frame_size = cursor
  BY DEF CompleteFrame, IInv, TypeOK, Sized, ReadSize
<1>2. /\ f \in Seq(Byte) /\ Len(f) >= OVERHEAD_SIZE /\ f[1] = HEADER
      /\ f[2] = buf[frame_start + 1] /\ IsSupportedType(f[2])
      /\ f[Len(f)] = buf[cursor - 1] /\ cursor > 0
  BY <1>1, ContentsExtend, CompleteMeaning
<1>3. p \in FramePlaces /\ p.at = frame_start /\ p.at + p.size = cursor /\ FrameAt(buf, p) = f
  BY <1>1 DEF FramePlaces, FrameAt
<1>4. PICK F \in SUBSET FramePlaces : NoticesUpTo(buf, F, frame_start)
  BY DEF Framed, Accepted
<1> HIDE DEF f, p
<1>5. CASE ValidateCompleteFrame(f) # STATUS_OK
  <2>1. Return(ValidateCompleteFrame(f))
    BY <1>5 DEF CompleteFrame, f
  <2>2. ValidateCompleteFrame(f) \in Int /\ ValidateCompleteFrame(f) < 0
    BY <1>5 DEF ValidateCompleteFrame, STATUS_OK, PARSE_ERROR, CHECKSUM_FAILURE
  <2> QED
    BY <2>1, <2>2, StillFramed DEF Return, locals
<1>6. CASE ValidateCompleteFrame(f) = STATUS_OK /\ f[2] = RESPONSE
  <2>1. Return(Collected)
    BY <1>2, <1>6 DEF CompleteFrame, f
  <2>2. IsValidResponse(f)
    BY <1>2, <1>6, FrameIsJudged
  <2>3. Collected = cursor
    BY <1>2, <2>2 DEF Collected, IsValidResponse, IsSealed
  <2>4. UNCHANGED <<buf, frame_start, cursor>> /\ result' = cursor
    BY <2>1, <2>3 DEF Return, locals
  <2>5. Accepted'
    BY <2>4 DEF Framed, Accepted
  <2>6. SuccessIsFrames'
    BY <1>3, <1>4, <2>2, <2>4 DEF SuccessIsFrames
  <2> QED
    BY <2>5, <2>6 DEF Framed
<1>7. CASE ValidateCompleteFrame(f) = STATUS_OK /\ f[2] # RESPONSE
  <2>1. NextFrame
    BY <1>2, <1>7 DEF CompleteFrame, f
  <2>2. IsValidNotice(f)
    BY <1>2, <1>7, FrameIsJudged
  <2>3. NoticesUpTo(buf, F \cup {p}, cursor)
    BY <1>3, <1>4, <2>2, PlaceIsAdded
  <2>4. frame_start' = cursor /\ buf' = buf /\ status' = "reading"
    BY <1>1, <2>1 DEF NextFrame
  <2>5. F \cup {p} \in SUBSET FramePlaces
    BY <1>3
  <2>6. Accepted'
    BY <2>3, <2>4, <2>5 DEF Accepted
  <2> QED
    BY <2>4, <2>6 DEF Framed, SuccessIsFrames
<1> QED
  BY <1>5, <1>6, <1>7

\* Silence is a success only between two frames.
LEMMA TimeoutFramed ==
  ASSUME IInv, Framed, Timeout
  PROVE  Framed'
<1>1. /\ Return(TimeoutResult) /\ cursor \in Nat /\ frame_start \in Nat
      /\ frame_start <= cursor /\ Have = cursor - frame_start
      /\ UNCHANGED <<buf, frame_start, cursor>> /\ result' = TimeoutResult
  BY DEF Timeout, Return, locals, IInv, TypeOK, InBounds, Have
<1>2. CASE frame_start = cursor
  <2>1. TimeoutResult \in {READ_TIMEOUT, PARSE_ERROR, cursor}
    BY <1>2 DEF TimeoutResult, Collected
  <2>2. CASE TimeoutResult = cursor
    <3>1. Accepted'
      BY <1>1 DEF Framed, Accepted
    <3>2. SuccessIsFrames'
      BY <1>1, <1>2, <2>2 DEF Framed, Accepted, SuccessIsFrames
    <3> QED
      BY <3>1, <3>2 DEF Framed
  <2>3. CASE TimeoutResult \in {READ_TIMEOUT, PARSE_ERROR}
    BY <1>1, <2>3, StillFramed DEF READ_TIMEOUT, PARSE_ERROR
  <2> QED
    BY <2>1, <2>2, <2>3
<1>3. CASE frame_start # cursor
  <2>1. expected_total > 0 => cursor < expected_total
    BY <1>1 DEF Timeout, Reading, NeedsBytes, IInv, TypeOK, InBounds, ReadSize
  <2>2. Have < PREFIX_SIZE \/ expected_total > 0
    BY DEF Timeout, Reading, NeedsBytes
  <2>3. TimeoutResult \in {READ_TIMEOUT, PARSE_ERROR}
    BY <1>3, <2>1, <2>2 DEF TimeoutResult
  <2> QED
    BY <1>1, <2>3, StillFramed DEF READ_TIMEOUT, PARSE_ERROR
<1> QED
  BY <1>2, <1>3

\* Bytes that arrive leave the accepted frames alone; what is skipped behind
\* them is noise.
LEMMA ReadFramed ==
  ASSUME IInv, Framed, NEW n \in 1 .. Smaller(ChunkSize, Len(line) - taken), Read(n)
  PROVE  Framed'
<1> DEFINE b == Appended(n)
           c == cursor + n
<1>1. /\ n \in Nat \ {0} /\ c \in Nat /\ cursor \in Nat /\ c <= BufSize
      /\ frame_start \in Nat /\ frame_start <= cursor /\ taken + n <= Len(line)
  BY ReadFits DEF Read, Reading, IInv, TypeOK, InBounds
<1>2. \A i \in Index : i < cursor => b[i] = buf[i]
  BY <1>1, AppendedBehind DEF IInv
<1>3. PICK fs \in frame_start .. c : IsResyncPoint(b, c, fs) /\ Resync(b, c, fs)
  BY DEF Read
<1>4. status' = "done" => result' \in Int /\ result' < 0
  BY DEF Read, Reading, NeedsBytes, CheckType, PARSE_ERROR
<1>5. SuccessIsFrames'
  BY <1>4 DEF SuccessIsFrames
<1>6. Accepted'
  <2>1. CASE frame_start' = 0
    BY <2>1, NoPlaces DEF Accepted
  <2>2. CASE buf' = b /\ frame_start' = fs
    <3>1. PICK F \in SUBSET FramePlaces : NoticesUpTo(buf, F, frame_start)
      BY DEF Framed, Accepted
    <3>2. \A i \in 0 .. frame_start - 1 : b[i] = buf[i]
      <4>1. \A i \in 0 .. frame_start - 1 : i \in Index /\ i < cursor
        BY <1>1, BufSizeAssumption DEF Index
      <4> QED
        BY <1>2, <4>1
    <3> HIDE DEF b
    <3>3. NoticesUpTo(b, F, frame_start)
      BY <1>1, <3>1, <3>2, PlacesStay
    <3>4. fs \in Nat /\ frame_start <= fs /\ \A i \in frame_start .. fs - 1 : b[i] # HEADER
      BY <1>1, <1>3 DEF IsResyncPoint
    <3>5. NoticesUpTo(b, F, fs)
      BY <1>1, <3>3, <3>4, NoiseIsAdded
    <3> QED
      BY <2>2, <3>5 DEF Accepted
  <2> QED
    BY <1>3, <2>1, <2>2 DEF Resync
<1> QED
  BY <1>5, <1>6 DEF Framed

-----------------------------------------------------------------------------
(* The theorems.                                                           *)

\* What a call returns is what the bytes it has read mean, unless the port
\* failed: neither the chunks they came in, nor the noise between them, nor
\* what the buffer held before makes a difference, for every stream and every
\* buffer size.
THEOREM ReturnsMeaning == Spec => []ResultIsMeaning
<1>1. Tracked /\ BufferHoldsAnswer => ResultIsMeaning
  BY DEF Tracked, Verdict, BufferHoldsAnswer, ResultIsMeaning
<1> QED
  BY <1>1, SpecTracked, AnswerIsHeld, PTL

\* A call that succeeds hands its caller whole frames that passed their checks:
\* valid notices, at most one response, which comes last, and between them no
\* byte that could begin another frame.
THEOREM SuccessesAreFrames == Spec => []SuccessIsFrames
<1>1. Init => Framed
  <2> SUFFICES ASSUME Init PROVE Framed
    OBVIOUS
  <2>1. frame_start = 0 /\ status = "reading"
    BY DEF Init
  <2> QED
    BY <2>1, NoPlaces DEF Framed, Accepted, SuccessIsFrames
<1>2. IInv /\ IInv' /\ Tracked /\ Framed /\ [Next]_vars => Framed'
  <2> SUFFICES ASSUME IInv, IInv', Tracked, Framed, [Next]_vars PROVE Framed'
    OBVIOUS
  <2>1. result' \in Int
    BY DEF IInv, TypeOK
  <2>2. CASE UNCHANGED <<buf, frame_start, cursor, status, result>>
    BY <2>1, <2>2, StillFramed
  <2>3. CASE Return(OVERFLOW) \/ Return(READ_FAILED) \/ Return(PARSE_ERROR)
    BY <2>3, StillFramed DEF Return, locals, OVERFLOW, READ_FAILED, PARSE_ERROR
  <2>4. CASE ExpectFrame
    <3>1. \/ \E r \in Int : r < 0 /\ Return(r)
          \/ UNCHANGED <<buf, frame_start, cursor, status, result>>
      <4>1. OVERFLOW \in Int /\ OVERFLOW < 0
        BY DEF OVERFLOW
      <4>2. ExpectedSize(Slice(buf, frame_start, PREFIX_SIZE)) \in Int
        <5>1. /\ frame_start \in Nat /\ buf \in [Index -> Byte]
              /\ frame_start + PREFIX_SIZE <= BufSize
          BY <2>4, BufSizeAssumption DEF IInv, TypeOK, InBounds, ExpectFrame, Have, PREFIX_SIZE
        <5> QED
          BY <5>1, ExpectedIsAnnounced, AnnouncedSize DEF PARSE_ERROR
      <4> QED
        BY <2>4, <4>1, <4>2 DEF ExpectFrame
    <3> QED
      BY <2>1, <3>1, StillFramed DEF Return, locals
  <2>5. CASE CompleteFrame
    BY <2>5, CompleteFrameFramed DEF Tracked
  <2>6. ASSUME NEW n \in 1 .. Smaller(ChunkSize, Len(line) - taken), Read(n)
        PROVE  Framed'
    BY <2>6, ReadFramed
  <2>7. CASE Timeout
    BY <2>7, TimeoutFramed
  <2> QED
    BY <2>2, <2>3, <2>4, <2>5, <2>6, <2>7
    DEF Next, Progress, BufferFull, ReadError, vars, locals
<1>3. Framed => SuccessIsFrames
  BY DEF Framed
<1> QED
  BY <1>1, <1>2, <1>3, SpecIInv, SpecTracked, PTL DEF Spec

=============================================================================
