----------------------------- MODULE WireProofs -----------------------------
(***************************************************************************)
(* nano_net_crc16 for every buffer: its table and its loop compute the     *)
(* remainder CRC-16/XMODEM is defined by, and a packet followed by its     *)
(* checksum leaves the accumulator at 0.  And pack() for every batch: what *)
(* it writes is a frame for every package, and fits the room it asked for. *)
(***************************************************************************)
EXTENDS MCCrc16, PackBatch, SequenceTheorems, WellFoundedInduction, TLAPS

-----------------------------------------------------------------------------
(* Induction over data. The induction theorems of the library take an      *)
(* operator; that < is well founded does not, and gives every set of       *)
(* numbers a least element, hence induction over a set. A loop is the      *)
(* function of its passes.                                                 *)

\* A set of numbers that is not empty has a least element.
LEMMA Least ==
  ASSUME NEW T, T \subseteq Nat, T # {}
  PROVE \E x \in T : \A y \in T : x <= y
<1> DEFINE R == OpToRel(<, Nat)
<1>1. IsWellFoundedOn(R, Nat)
  BY NatLessThanWellFounded
<1>2. \A a, b \in Nat : <<a, b>> \in R <=> a < b
  BY DEF OpToRel
<1> HIDE DEF R
<1>3. PICK x \in T : \A y \in T : ~ (<<y, x>> \in R)
  BY <1>1, WFMin
<1>4. \A y \in T : x <= y
  <2> SUFFICES ASSUME NEW y \in T PROVE x <= y
    OBVIOUS
  <2>1. x \in Nat /\ y \in Nat
    OBVIOUS
  <2>2. ~(y < x)
    BY <1>2, <1>3, <2>1
  <2>. QED  BY <2>1, <2>2
<1>. QED BY <1>4

\* What holds of 0 and passes from n to n + 1 holds of every number.
LEMMA Induct ==
  ASSUME NEW S, 0 \in S, \A n \in Nat : n \in S => n + 1 \in S
  PROVE  Nat \subseteq S
<1> DEFINE T == {n \in Nat : n \notin S}
<1>1. SUFFICES ASSUME T # {} PROVE FALSE
  OBVIOUS
<1>2. T \subseteq Nat
  OBVIOUS
<1>3. PICK x \in T : \A y \in T : x <= y
  BY ONLY <1>1, <1>2, Least
<1>4. x \in Nat /\ x # 0 /\ x \notin S
  OBVIOUS
<1>5. x - 1 \in Nat /\ (x - 1) + 1 = x
  BY <1>4
<1>6. x - 1 \in S
  <2>1. ASSUME x - 1 \notin S PROVE FALSE
    <3>1. x - 1 \in T
      BY <1>5, <2>1
    <3>2. x <= x - 1
      BY <1>3, <3>1
    <3>. QED  BY <1>4, <3>2
  <2>. QED  BY <2>1
<1>. QED  BY <1>4, <1>5, <1>6

\* f is what a loop from z computes whose n-th pass takes v to F[n][v].
Loops(f, N, z, F) == f = [n \in 0..N |-> IF n = 0 THEN z ELSE F[n][f[n - 1]]]

\* The value before the loop and after each pass.
LEMMA LoopsFacts ==
  ASSUME NEW N \in Nat, NEW z, NEW F, NEW f, Loops(f, N, z, F)
  PROVE  DOMAIN f = 0..N /\ f[0] = z /\ \A n \in 1..N : f[n] = F[n][f[n - 1]]
<1>1. f = [n \in 0..N |-> IF n = 0 THEN z ELSE F[n][f[n - 1]]]
  BY DEF Loops
<1>. QED  BY <1>1

\* There is such a function, by induction over the number of passes.
LEMMA LoopsDefined ==
  ASSUME NEW N \in Nat, NEW z, NEW F
  PROVE  \E f : Loops(f, N, z, F)
<1> DEFINE S == {k \in Nat : \E f : Loops(f, k, z, F)}
<1>1. 0 \in S
  <2> DEFINE f == [n \in 0..0 |-> z]
  <2>1. f = [n \in 0..0 |-> IF n = 0 THEN z ELSE F[n][f[n - 1]]]
    OBVIOUS
  <2>2. Loops(f, 0, z, F)
    BY <2>1 DEF Loops
  <2>. QED  BY <2>2
<1>2. ASSUME NEW k \in Nat, k \in S PROVE k + 1 \in S
  <2>1. PICK f : Loops(f, k, z, F)
    BY <1>2
  <2> DEFINE g == [n \in 0..(k + 1) |-> IF n <= k THEN f[n] ELSE F[n][f[k]]]
  <2>2. f[0] = z /\ \A n \in 1..k : f[n] = F[n][f[n - 1]]
    BY <2>1, LoopsFacts
  <2>3. ASSUME NEW n \in 0..(k + 1)
        PROVE  g[n] = IF n = 0 THEN z ELSE F[n][g[n - 1]]
    <3>1. CASE n = 0
      BY <2>2, <3>1
    <3>2. CASE n \in 1..k
      <4>1. n - 1 \in 0..(k + 1) /\ n - 1 <= k
        BY <3>2
      <4>. QED  BY <2>2, <3>2, <4>1
    <3>3. CASE n = k + 1
      <4>1. k \in 0..(k + 1) /\ n - 1 = k /\ ~(k + 1 <= k) /\ k <= k
        BY <3>3
      <4>. QED  BY <3>3, <4>1
    <3>. QED  BY <3>1, <3>2, <3>3
  <2>4. g = [n \in 0..(k + 1) |-> IF n = 0 THEN z ELSE F[n][g[n - 1]]]
    <3>1. g = [n \in 0..(k + 1) |-> g[n]]
      OBVIOUS
    <3> HIDE DEF g
    <3>. QED  BY <2>3, <3>1
  <2>5. Loops(g, k + 1, z, F)
    <3> HIDE DEF g
    <3>. QED  BY <2>4 DEF Loops
  <2>. QED  BY <2>5
<1> HIDE DEF S
<1>3. Nat \subseteq S
  BY <1>1, <1>2, Induct
<1>. QED  BY <1>3 DEF S

\* Passes that agree, agree on what they compute.
LEMMA LoopsAgree ==
  ASSUME NEW M \in Nat, NEW N \in Nat, M <= N, NEW z, NEW F, NEW G,
         \A n \in 1..M : F[n] = G[n],
         NEW f, NEW g, Loops(f, M, z, F), Loops(g, N, z, G)
  PROVE  f[M] = g[M]
<1> DEFINE S == {k \in Nat : k <= M => f[k] = g[k]}
<1>1. /\ f[0] = z /\ \A n \in 1..M : f[n] = F[n][f[n - 1]]
      /\ g[0] = z /\ \A n \in 1..N : g[n] = G[n][g[n - 1]]
  BY LoopsFacts
<1>2. 0 \in S
  BY <1>1
<1>3. ASSUME NEW k \in Nat, k \in S PROVE k + 1 \in S
  <2>1. SUFFICES ASSUME k + 1 <= M PROVE f[k + 1] = g[k + 1]
    OBVIOUS
  <2>2. f[k] = g[k] /\ k + 1 \in 1..M /\ k + 1 \in 1..N /\ (k + 1) - 1 = k
    BY <1>3, <2>1
  <2>. QED  BY <1>1, <2>2
<1> HIDE DEF S
<1>4. Nat \subseteq S
  BY <1>2, <1>3, Induct
<1>. QED  BY <1>4 DEF S

\* Every pass keeps to V; f goes from pass to pass as the loop does, as long
\* as it is in V.
Keeps(F, N, V) == \A n \in 1..N : \A v \in V : F[n][v] \in V

Follows(f, N, F, V) ==
  /\ f = [n \in 0..N |-> f[n]]
  /\ \A n \in 1..N : f[n - 1] \in V => f[n] = F[n][f[n - 1]]

\* Then it is the loop, and stays there.
LEMMA LoopsMeet ==
  ASSUME NEW N \in Nat, NEW V, NEW z \in V, NEW F, Keeps(F, N, V),
         NEW f, f[0] = z, Follows(f, N, F, V)
  PROVE  Loops(f, N, z, F) /\ \A n \in 0..N : f[n] \in V
<1> DEFINE S == {k \in Nat : k <= N => f[k] \in V}
<1>1. 0 \in S
  OBVIOUS
<1>2. ASSUME NEW k \in Nat, k \in S PROVE k + 1 \in S
  <2>1. SUFFICES ASSUME k + 1 <= N PROVE f[k + 1] \in V
    OBVIOUS
  <2>2. f[k] \in V /\ k + 1 \in 1..N /\ (k + 1) - 1 = k
    BY <1>2, <2>1
  <2>. QED  BY <2>2 DEF Keeps, Follows
<1> HIDE DEF S
<1>3. Nat \subseteq S
  BY <1>1, <1>2, Induct
<1>4. \A n \in 0..N : f[n] \in V
  BY <1>3 DEF S
<1>5. ASSUME NEW n \in 0..N PROVE f[n] = IF n = 0 THEN z ELSE F[n][f[n - 1]]
  <2>1. CASE n # 0
    <3>1. n \in 1..N /\ n - 1 \in 0..N
      BY <2>1
    <3>. QED  BY <1>4, <2>1, <3>1 DEF Follows
  <2>. QED  BY <2>1
<1>6. [n \in 0..N |-> f[n]] = [n \in 0..N |-> IF n = 0 THEN z ELSE F[n][f[n - 1]]]
  BY ONLY <1>5
<1>. QED  BY <1>4, <1>6 DEF Loops, Follows

LEMMA LoopsTyped ==
  ASSUME NEW N \in Nat, NEW V, NEW z \in V, NEW F, Keeps(F, N, V), NEW f, Loops(f, N, z, F)
  PROVE  \A n \in 0..N : f[n] \in V
<1>1. f = [n \in 0..N |-> IF n = 0 THEN z ELSE F[n][f[n - 1]]]
  BY DEF Loops
<1>2. DOMAIN f = 0..N /\ f[0] = z /\ \A n \in 1..N : f[n] = F[n][f[n - 1]]
  BY LoopsFacts
<1>3. Follows(f, N, F, V)
  <2>1. f = [n \in 0..N |-> f[n]]
    BY ONLY <1>1
  <2>. QED  BY <1>2, <2>1 DEF Follows
<1>. QED  BY <1>2, <1>3, LoopsMeet

-----------------------------------------------------------------------------
(* The loop of nano_net_crc16: it stays within 16 bits, and one byte more  *)
(* is one pass more.                                                       *)

\* The ranges of bytes and words, so that the proofs need not unfold them.
LEMMA ByteRange == \A b : b \in Byte <=> b \in Nat /\ b <= 255
BY DEF Byte

LEMMA WordRange == \A w : w \in Word16 <=> w \in Nat /\ w <= 65535
BY DEF Word16

\* The table has an entry for every byte.
LEMMA TableType == Len(crc16tab) = 256 /\ \A i \in 1..256 : crc16tab[i] \in Nat
BY DEF crc16tab

LEMMA XorBitType ==
  ASSUME NEW a \in Nat, NEW b \in Nat, NEW k \in Nat \ {0}
  PROVE  XorBit(a, b, k) = 0 \/ XorBit(a, b, k) = k
<1>1. a \div k + b \div k \in Int
  OBVIOUS
<1> DEFINE s == a \div k + b \div k
<1> HIDE DEF s
<1>2. s % 2 = 0 \/ s % 2 = 1
  BY <1>1 DEF s
<1>3. XorBit(a, b, k) = (s % 2) * k
  BY DEF XorBit, s
<1>. QED  BY <1>2, <1>3

\* Exclusive or gives a byte, and of words a word.
LEMMA Xor8Type ==
  ASSUME NEW a \in Nat, NEW b \in Nat
  PROVE  Xor8(a, b) \in 0..255
<1>1. /\ XorBit(a, b, 1) \in {0, 1} /\ XorBit(a, b, 2) \in {0, 2} /\ XorBit(a, b, 4) \in {0, 4}
      /\ XorBit(a, b, 8) \in {0, 8} /\ XorBit(a, b, 16) \in {0, 16} /\ XorBit(a, b, 32) \in {0, 32}
      /\ XorBit(a, b, 64) \in {0, 64} /\ XorBit(a, b, 128) \in {0, 128}
  BY XorBitType
<1>. QED  BY ONLY <1>1 DEF Xor8

LEMMA Xor16Type ==
  ASSUME NEW a \in Nat, NEW b \in Nat
  PROVE  Xor16(a, b) \in Word16
<1>1. /\ a \div 256 \in Nat /\ b \div 256 \in Nat /\ a % 256 \in Nat /\ b % 256 \in Nat
  OBVIOUS
<1> DEFINE x == Xor8(a \div 256, b \div 256)
           y == Xor8(a % 256, b % 256)
<1>2. x \in Nat /\ x <= 255 /\ y \in Nat /\ y <= 255
  <2>1. PICK p, q, r, t : p = a \div 256 /\ q = b \div 256 /\ r = a % 256 /\ t = b % 256
    OBVIOUS
  <2>2. p \in Nat /\ q \in Nat /\ r \in Nat /\ t \in Nat
    BY <1>1, <2>1
  <2>3. Xor8(p, q) \in 0..255 /\ Xor8(r, t) \in 0..255
    BY ONLY <2>2, Xor8Type
  <2>4. x = Xor8(p, q) /\ y = Xor8(r, t)
    BY <2>1
  <2> HIDE DEF x, y
  <2>. QED  BY ONLY <2>3, <2>4
<1> HIDE DEF x, y
<1>3. 256 * x + y \in Nat /\ 256 * x + y < 65536
  BY ONLY <1>2
<1>. QED  BY <1>3 DEF Xor16, Word16, x, y


\* The index of the code is within the table.
LEMMA TableIndex ==
  ASSUME NEW crc \in Nat, NEW byte \in Nat
  PROVE  Xor8(crc \div 256, byte) + 1 \in 1..256
<1>1. crc \div 256 \in Nat
  OBVIOUS
<1>2. Xor8(crc \div 256, byte) \in 0..255
  BY <1>1, Xor8Type
<1>. QED  BY <1>2

LEMMA CrcStepType ==
  ASSUME NEW crc \in Word16, NEW byte \in Byte
  PROVE  CrcStep(crc, byte) \in Word16
<1>1. crc \in Nat /\ crc <= 65535 /\ byte \in Nat
  BY ByteRange, WordRange
<1>2. crc \div 256 \in Nat /\ (crc * 256) % 65536 \in Nat
  BY <1>1
<1>3. Xor8(crc \div 256, byte) + 1 \in 1..256
  BY <1>1, TableIndex
<1>4. crc16tab[Xor8(crc \div 256, byte) + 1] \in Nat
  BY <1>3, TableType
<1>. QED  BY <1>2, <1>4, Xor16Type DEF CrcStep

\* The passes of the loop of nano_net_crc16 over buf.
Passes(buf) == [n \in 1..Len(buf) |-> [v \in Word16 |-> CrcStep(v, buf[n])]]

LEMMA PassesFacts ==
  ASSUME NEW buf \in Seq(Byte)
  PROVE  /\ Len(buf) \in Nat
         /\ \A n \in 1..Len(buf) : buf[n] \in Byte
         /\ \A n \in 1..Len(buf) : \A v \in Word16 :
              /\ Passes(buf)[n][v] = CrcStep(v, buf[n])
              /\ CrcPass[v][buf[n]] = CrcStep(v, buf[n])
              /\ CrcStep(v, buf[n]) \in Word16
<1>1. Len(buf) \in Nat /\ \A n \in 1..Len(buf) : buf[n] \in Byte
  OBVIOUS
<1>2. \A n \in 1..Len(buf) : \A v \in Word16 : CrcStep(v, buf[n]) \in Word16
  BY <1>1, CrcStepType
<1>3. \A n \in 1..Len(buf) : \A v \in Word16 : CrcPass[v][buf[n]] = CrcStep(v, buf[n])
  BY <1>1 DEF CrcPass
<1>. QED  BY <1>1, <1>2, <1>3 DEF Passes

\* nano_net_crc16 is that loop, and its accumulator stays in 16 bits.
LEMMA CrcLoops ==
  ASSUME NEW buf \in Seq(Byte)
  PROVE  \E f : /\ Loops(f, Len(buf), 0, Passes(buf))
                /\ nano_net_crc16(buf) = f[Len(buf)]
                /\ f[Len(buf)] \in Word16
<1> DEFINE N == Len(buf)
           Unrolled(f) == f = [n \in 0..N |-> IF n = 0 THEN 0 ELSE CrcPass[f[n - 1]][buf[n]]]
<1>1. N \in Nat /\ 0 \in Word16 /\ N \in 0..N
  BY WordRange
<1>2. \A n \in 1..N : \A v \in Word16 :
        Passes(buf)[n][v] = CrcPass[v][buf[n]] /\ Passes(buf)[n][v] \in Word16
  BY PassesFacts
<1>3. PICK g : Loops(g, N, 0, Passes(buf))
  BY <1>1, LoopsDefined
<1>4. \A n \in 0..N : g[n] \in Word16
  BY <1>1, <1>2, <1>3, LoopsTyped DEF Keeps
<1>5. Unrolled(g)
  <2>1. ASSUME NEW n \in 0..N, n # 0 PROVE Passes(buf)[n][g[n - 1]] = CrcPass[g[n - 1]][buf[n]]
    <3>1. n \in 1..N /\ n - 1 \in 0..N
      BY <1>1, <2>1
    <3>. QED  BY <1>2, <1>4, <3>1
  <2>2. [n \in 0..N |-> IF n = 0 THEN 0 ELSE Passes(buf)[n][g[n - 1]]]
        = [n \in 0..N |-> IF n = 0 THEN 0 ELSE CrcPass[g[n - 1]][buf[n]]]
    BY ONLY <2>1
  <2>. QED  BY <1>3, <2>2, Zenon DEF Loops
<1> DEFINE f == CHOOSE h : Unrolled(h)
<1>6. Unrolled(f)
  BY <1>5, Zenon
<1>7. nano_net_crc16(buf) = f[N]
  BY Zenon DEF nano_net_crc16
<1> HIDE DEF f
<1>8. /\ f = [n \in 0..N |-> f[n]] /\ f[0] = 0
      /\ \A n \in 1..N : f[n] = CrcPass[f[n - 1]][buf[n]]
  BY <1>1, <1>6
<1>9. \A n \in 1..N : f[n - 1] \in Word16 => f[n] = Passes(buf)[n][f[n - 1]]
  BY <1>2, <1>8
<1>10. Loops(f, N, 0, Passes(buf)) /\ \A n \in 0..N : f[n] \in Word16
  <2>1. Keeps(Passes(buf), N, Word16)
    BY <1>2 DEF Keeps
  <2>2. Follows(f, N, Passes(buf), Word16)
    BY <1>8, <1>9 DEF Follows
  <2>3. N \in Nat /\ 0 \in Word16 /\ f[0] = 0
    BY <1>1, <1>8
  <2> HIDE DEF N
  <2>. QED  BY ONLY <2>1, <2>2, <2>3, LoopsMeet
<1>. QED  BY <1>1, <1>7, <1>10

\* The loop over one byte more is one pass more.
LEMMA CrcAppend ==
  ASSUME NEW buf \in Seq(Byte), NEW byte \in Byte
  PROVE  /\ nano_net_crc16(Append(buf, byte)) = CrcStep(nano_net_crc16(buf), byte)
         /\ nano_net_crc16(buf) \in Word16
<1> DEFINE b == Append(buf, byte)
           N == Len(buf)
<1>1. b \in Seq(Byte) /\ Len(b) = N + 1 /\ N \in Nat /\ b[N + 1] = byte
      /\ \A n \in 1..N : b[n] = buf[n]
  OBVIOUS
<1> HIDE DEF b
<1>2. PICK f : Loops(f, N, 0, Passes(buf)) /\ nano_net_crc16(buf) = f[N] /\ f[N] \in Word16
  BY CrcLoops
<1>3. PICK g : Loops(g, N + 1, 0, Passes(b)) /\ nano_net_crc16(b) = g[N + 1]
  BY <1>1, CrcLoops
<1>4. \A n \in 1..N : Passes(buf)[n] = Passes(b)[n]
  <2>1. \A n \in 1..N : n \in 1..(N + 1)
    BY <1>1
  <2>. QED  BY <1>1, <2>1 DEF Passes
<1>5. f[N] = g[N]
  <2>1. N <= N + 1 /\ N + 1 \in Nat
    BY <1>1
  <2>. QED  BY <1>1, <1>2, <1>3, <1>4, <2>1, LoopsAgree
<1>6. g[N + 1] = Passes(b)[N + 1][g[N]]
  <2>1. N + 1 \in Nat /\ N + 1 \in 1..(N + 1) /\ (N + 1) - 1 = N
    BY <1>1
  <2>2. g[N + 1] = Passes(b)[N + 1][g[(N + 1) - 1]]
    BY ONLY <1>3, <2>1, LoopsFacts
  <2>. QED  BY <2>1, <2>2
<1>7. Passes(b)[N + 1][g[N]] = CrcStep(g[N], byte)
  <2>1. N + 1 \in 1..Len(b) /\ g[N] \in Word16
    BY <1>1, <1>2, <1>5
  <2>. QED  BY <1>1, <2>1, PassesFacts
<1>. QED  BY <1>2, <1>3, <1>5, <1>6, <1>7 DEF b

LEMMA CrcEmpty == nano_net_crc16(<<>>) = 0
<1>1. <<>> \in Seq(Byte) /\ Len(<<>>) = 0
  OBVIOUS
<1>2. PICK f : Loops(f, 0, 0, Passes(<<>>)) /\ nano_net_crc16(<<>>) = f[0]
  BY <1>1, CrcLoops
<1>. QED  BY <1>2, LoopsFacts

\* The buffer of the checks.
CrcTyped == fed \in Seq(Byte)

\* The buffers the checks start from are buffers.
LEMMA DigitsTyped == Digits \in Seq(Byte) /\ SubSeq(Digits, 1, 8) \in Seq(Byte)
<1>1. 49 \in Byte /\ 50 \in Byte /\ 51 \in Byte /\ 52 \in Byte /\ 53 \in Byte
      /\ 54 \in Byte /\ 55 \in Byte /\ 56 \in Byte /\ 57 \in Byte
  BY ByteRange
<1>2. Digits \in Seq(Byte) /\ Len(Digits) = 9
  BY <1>1 DEF Digits
<1>3. SubSeq(Digits, 1, 8) \in Seq(Byte)
  <2>1. ASSUME NEW s \in Seq(Byte), Len(s) = 9 PROVE SubSeq(s, 1, 8) \in Seq(Byte)
    <3>1. \A i \in 1..8 : s[i] \in Byte
      <4>1. \A i \in 1..8 : i \in 1..Len(s)
        BY <2>1
      <4>. QED  BY <4>1
    <3>. QED  BY ONLY <3>1, SubSeqProperties
  <2>. QED  BY <1>2, <2>1
<1>. QED  BY <1>2, <1>3

LEMMA CrcTypedStep == CrcTyped /\ [CrcNext]_fed => CrcTyped'
<1> SUFFICES ASSUME CrcTyped, [CrcNext]_fed PROVE CrcTyped'
  OBVIOUS
<1>1. CASE CrcNext
  <2>1. PICK byte \in Growth(fed) : fed' = Append(fed, byte)
    BY <1>1 DEF CrcNext
  <2>2. byte \in Byte
    BY FewAssumption DEF Growth
  <2>. QED  BY <2>1, <2>2 DEF CrcTyped
<1>2. CASE UNCHANGED fed
  BY <1>2 DEF CrcTyped
<1>. QED  BY <1>1, <1>2

LEMMA CrcTypedInit == CrcInit => CrcTyped
<1>1. <<>> \in Seq(Byte)
  OBVIOUS
<1>. QED  BY <1>1, DigitsTyped DEF CrcInit, CrcTyped

-----------------------------------------------------------------------------
(* The batches of pack(): a packet followed by its own checksum, high byte *)
(* first, brings the accumulator back to 0, the value a receiver starts    *)
(* the next packet from.                                                   *)

LEMMA XorBitSelf ==
  ASSUME NEW a \in Nat, NEW k \in Nat \ {0}
  PROVE  XorBit(a, a, k) = 0
<1>1. a \div k \in Int  OBVIOUS
<1>2. (a \div k + a \div k) % 2 = 0  BY <1>1
<1>. QED  BY <1>2 DEF XorBit

LEMMA Xor8Self ==
  ASSUME NEW a \in Nat
  PROVE  Xor8(a, a) = 0
<1>1. /\ XorBit(a, a, 1) = 0 /\ XorBit(a, a, 2) = 0
      /\ XorBit(a, a, 4) = 0 /\ XorBit(a, a, 8) = 0
      /\ XorBit(a, a, 16) = 0 /\ XorBit(a, a, 32) = 0
      /\ XorBit(a, a, 64) = 0 /\ XorBit(a, a, 128) = 0
  BY XorBitSelf
<1>. QED  BY <1>1 DEF Xor8

LEMMA Xor8Zero ==
  ASSUME NEW a \in Nat, a <= 255
  PROVE  Xor8(a, 0) = a
<1> DEFINE b == a % 16
           h == a \div 16
<1>1. b \in 0..15 /\ h \in 0..15 /\ a = 16 * h + b
  OBVIOUS
<1>2. /\ (a \div 1) % 2 = b % 2 /\ (a \div 2) % 2 = (b \div 2) % 2
      /\ (a \div 4) % 2 = (b \div 4) % 2 /\ (a \div 8) % 2 = (b \div 8) % 2
  OBVIOUS
<1>3. /\ (a \div 16) % 2 = h % 2 /\ (a \div 32) % 2 = (h \div 2) % 2
      /\ (a \div 64) % 2 = (h \div 4) % 2 /\ (a \div 128) % 2 = (h \div 8) % 2
  OBVIOUS
<1>4. \A x \in 0..15 : (x % 2) + 2 * ((x \div 2) % 2) + 4 * ((x \div 4) % 2)
                         + 8 * ((x \div 8) % 2) = x
  OBVIOUS
<1>5. \A k \in Nat \ {0} : XorBit(a, 0, k) = ((a \div k) % 2) * k
  <2> SUFFICES ASSUME NEW k \in Nat \ {0}
               PROVE  XorBit(a, 0, k) = ((a \div k) % 2) * k
    OBVIOUS
  <2>1. 0 \div k = 0 /\ a \div k \in Int  OBVIOUS
  <2>2. a \div k + 0 \div k = a \div k  BY <2>1
  <2>. QED  BY ONLY <2>2 DEF XorBit
<1>6. /\ XorBit(a, 0, 1) = (b % 2) * 1 /\ XorBit(a, 0, 2) = ((b \div 2) % 2) * 2
      /\ XorBit(a, 0, 4) = ((b \div 4) % 2) * 4 /\ XorBit(a, 0, 8) = ((b \div 8) % 2) * 8
      /\ XorBit(a, 0, 16) = (h % 2) * 16 /\ XorBit(a, 0, 32) = ((h \div 2) % 2) * 32
      /\ XorBit(a, 0, 64) = ((h \div 4) % 2) * 64
      /\ XorBit(a, 0, 128) = ((h \div 8) % 2) * 128
  <2> HIDE DEF b, h
  <2>1. /\ XorBit(a, 0, 1) = ((a \div 1) % 2) * 1
        /\ XorBit(a, 0, 2) = ((a \div 2) % 2) * 2
        /\ XorBit(a, 0, 4) = ((a \div 4) % 2) * 4
        /\ XorBit(a, 0, 8) = ((a \div 8) % 2) * 8
        /\ XorBit(a, 0, 16) = ((a \div 16) % 2) * 16
        /\ XorBit(a, 0, 32) = ((a \div 32) % 2) * 32
        /\ XorBit(a, 0, 64) = ((a \div 64) % 2) * 64
        /\ XorBit(a, 0, 128) = ((a \div 128) % 2) * 128
    BY <1>5
  <2>. QED  BY ONLY <1>2, <1>3, <2>1
<1>7. /\ (b % 2) + 2 * ((b \div 2) % 2) + 4 * ((b \div 4) % 2)
            + 8 * ((b \div 8) % 2) = b
      /\ (h % 2) + 2 * ((h \div 2) % 2) + 4 * ((h \div 4) % 2)
            + 8 * ((h \div 8) % 2) = h
  <2> HIDE DEF b, h
  <2>. QED  BY <1>1, <1>4
<1>8. /\ b % 2 \in Int /\ (b \div 2) % 2 \in Int
      /\ (b \div 4) % 2 \in Int /\ (b \div 8) % 2 \in Int
      /\ h % 2 \in Int /\ (h \div 2) % 2 \in Int
      /\ (h \div 4) % 2 \in Int /\ (h \div 8) % 2 \in Int
  OBVIOUS
<1> HIDE DEF b, h
<1>. QED  BY ONLY <1>1, <1>6, <1>7, <1>8 DEF Xor8

LEMMA FirstEntry == crc16tab[1] = 0
  BY DEF crc16tab

LEMMA Xor16Zero ==
  ASSUME NEW w \in Nat, w <= 65535
  PROVE  Xor16(w, 0) = w
<1>1. /\ w \div 256 \in Nat /\ w \div 256 <= 255
      /\ w % 256 \in Nat /\ w % 256 <= 255
      /\ w = 256 * (w \div 256) + (w % 256)
  <2>1. w \div 256 \in Int /\ w % 256 \in 0..255  OBVIOUS
  <2>2. w = 256 * (w \div 256) + (w % 256)  OBVIOUS
  <2>. QED  BY <2>1, <2>2
<1>2. 0 \div 256 = 0 /\ 0 % 256 = 0
  OBVIOUS
<1>3. Xor8(w \div 256, 0) = w \div 256 /\ Xor8(w % 256, 0) = w % 256
  BY <1>1, Xor8Zero
<1>. QED  BY <1>1, <1>2, <1>3 DEF Xor16

(* The two checksum bytes of a packet, fed to the loop of nano_net_crc16   *)
(* after the packet, leave the accumulator at 0.                           *)
THEOREM ChecksumResidue ==
  ASSUME NEW crc \in Word16
  PROVE  CrcStep(CrcStep(crc, CrcBytes(crc)[1]), CrcBytes(crc)[2]) = 0
<1> DEFINE hi == crc \div 256
           lo == crc % 256
<1>1. /\ crc \in Nat /\ crc <= 65535
      /\ hi \in Nat /\ hi <= 255 /\ lo \in Nat /\ lo <= 255
  BY DEF Word16
<1>2. CrcBytes(crc)[1] = hi /\ CrcBytes(crc)[2] = lo
  BY DEF CrcBytes
<1>3. CrcStep(crc, hi) = 256 * lo
  <2>1. crc16tab[Xor8(hi, hi) + 1] = 0
    BY <1>1, Xor8Self, FirstEntry
  <2>2. (crc * 256) % 65536 = 256 * lo /\ 256 * lo \in Nat /\ 256 * lo <= 65535
    BY <1>1
  <2>. QED  BY <2>1, <2>2, Xor16Zero DEF CrcStep
<1>4. CrcStep(256 * lo, lo) = 0
  <2>1. (256 * lo) \div 256 = lo /\ ((256 * lo) * 256) % 65536 = 0
    BY <1>1
  <2>2. crc16tab[Xor8(lo, lo) + 1] = 0
    BY <1>1, Xor8Self, FirstEntry
  <2>3. Xor16(0, 0) = 0
    BY Xor16Zero
  <2>. QED  BY <2>1, <2>2, <2>3 DEF CrcStep
<1>. QED  BY <1>2, <1>3, <1>4

(* A packet with its checksum leaves the accumulator at 0. *)
LEMMA PacketResidue ==
  ASSUME NEW buf \in Seq(Byte)
  PROVE  /\ buf \o CrcBytes(nano_net_crc16(buf)) \in Seq(Byte)
         /\ nano_net_crc16(buf \o CrcBytes(nano_net_crc16(buf))) = 0
<1> DEFINE crc == nano_net_crc16(buf)
           hi == crc \div 256
           lo == crc % 256
<1>1. crc \in Word16
  <2>1. 0 \in Byte
    BY ByteRange
  <2>. QED  BY <2>1, CrcAppend
<1> HIDE DEF crc
<1>2. hi \in Byte /\ lo \in Byte
  <2>1. crc \in Nat /\ crc <= 65535
    BY <1>1, WordRange
  <2>2. hi \in Nat /\ hi <= 255 /\ lo \in Nat /\ lo <= 255
    BY ONLY <2>1
  <2>. QED  BY <2>2, ByteRange
<1>3. CrcBytes(crc) = <<hi, lo>>
  BY DEF CrcBytes
<1> HIDE DEF hi, lo
<1>4. Append(buf, hi) \in Seq(Byte) /\ Append(Append(buf, hi), lo) \in Seq(Byte)
  BY <1>2
<1>5. buf \o <<hi, lo>> = Append(Append(buf, hi), lo)
  BY <1>2
<1>6. nano_net_crc16(Append(Append(buf, hi), lo)) = CrcStep(CrcStep(crc, hi), lo)
  BY <1>2, <1>4, CrcAppend DEF crc
<1>7. CrcStep(CrcStep(crc, hi), lo) = 0
  BY <1>1, <1>3, ChecksumResidue
<1>. QED  BY <1>3, <1>4, <1>5, <1>6, <1>7 DEF crc

-----------------------------------------------------------------------------
(* Bytes and words as bits, bit 0 the lowest; exclusive or and the shift   *)
(* of the register by one message bit, on bits.                            *)

Bit == {0, 1}
Octets == [0..7 -> Bit]
\* Exclusive or of two bits; the number with the given bits, lowest first.
Xor1(x, y) == IF x = y THEN 0 ELSE 1
Octet(b) ==
  b[0] + 2 * b[1] + 4 * b[2] + 8 * b[3] + 16 * b[4] + 32 * b[5] + 64 * b[6] + 128 * b[7]

LEMMA Xor1Type == \A x, y \in Bit : Xor1(x, y) \in Bit
BY DEF Xor1, Bit

LEMMA BitSum ==
  ASSUME NEW m \in Int, NEW n \in Int
  PROVE  (m + n) % 2 = Xor1(m % 2, n % 2)
BY DEF Xor1

LEMMA OctetBits ==
  ASSUME NEW b \in Octets
  PROVE  /\ b[0] \in Bit /\ b[1] \in Bit /\ b[2] \in Bit /\ b[3] \in Bit
         /\ b[4] \in Bit /\ b[5] \in Bit /\ b[6] \in Bit /\ b[7] \in Bit
BY DEF Octets

\* The bits of an octet by division.
LEMMA OctetDivs ==
  ASSUME NEW b \in Octets, NEW o, o = Octet(b)
  PROVE  /\ o \div 1 \in Int /\ (o \div 1) % 2 = b[0]
         /\ o \div 2 \in Int /\ (o \div 2) % 2 = b[1]
         /\ o \div 4 \in Int /\ (o \div 4) % 2 = b[2]
         /\ o \div 8 \in Int /\ (o \div 8) % 2 = b[3]
         /\ o \div 16 \in Int /\ (o \div 16) % 2 = b[4]
         /\ o \div 32 \in Int /\ (o \div 32) % 2 = b[5]
         /\ o \div 64 \in Int /\ (o \div 64) % 2 = b[6]
         /\ o \div 128 \in Int /\ (o \div 128) % 2 = b[7]
         /\ o \in 0..255
<1>1. /\ b[0] \in Bit /\ b[1] \in Bit /\ b[2] \in Bit /\ b[3] \in Bit
      /\ b[4] \in Bit /\ b[5] \in Bit /\ b[6] \in Bit /\ b[7] \in Bit
  BY OctetBits
<1>b0. PICK b0 \in Bit : b[0] = b0
  BY <1>1
<1>b1. PICK b1 \in Bit : b[1] = b1
  BY <1>1
<1>b2. PICK b2 \in Bit : b[2] = b2
  BY <1>1
<1>b3. PICK b3 \in Bit : b[3] = b3
  BY <1>1
<1>b4. PICK b4 \in Bit : b[4] = b4
  BY <1>1
<1>b5. PICK b5 \in Bit : b[5] = b5
  BY <1>1
<1>b6. PICK b6 \in Bit : b[6] = b6
  BY <1>1
<1>b7. PICK b7 \in Bit : b[7] = b7
  BY <1>1
<1>2. o = b0 + 2 * b1 + 4 * b2 + 8 * b3 + 16 * b4 + 32 * b5 + 64 * b6 + 128 * b7
  BY <1>b0, <1>b1, <1>b2, <1>b3, <1>b4, <1>b5, <1>b6, <1>b7 DEF Octet
<1>3. /\ o \div 1 \in Int /\ (o \div 1) % 2 = b0
      /\ o \div 2 \in Int /\ (o \div 2) % 2 = b1
      /\ o \div 4 \in Int /\ (o \div 4) % 2 = b2
      /\ o \div 8 \in Int /\ (o \div 8) % 2 = b3
      /\ o \div 16 \in Int /\ (o \div 16) % 2 = b4
      /\ o \div 32 \in Int /\ (o \div 32) % 2 = b5
      /\ o \div 64 \in Int /\ (o \div 64) % 2 = b6
      /\ o \div 128 \in Int /\ (o \div 128) % 2 = b7
      /\ o \in 0..255
  BY <1>2 DEF Bit
<1>. QED  BY ONLY <1>3, <1>b0, <1>b1, <1>b2, <1>b3, <1>b4, <1>b5, <1>b6, <1>b7

\* Exclusive or of bytes, bit by bit.
LEMMA Xor8Octet ==
  ASSUME NEW a \in Octets, NEW b \in Octets
  PROVE  LET c == [i \in 0..7 |-> Xor1(a[i], b[i])]
         IN  c \in Octets /\ Xor8(Octet(a), Octet(b)) = Octet(c)
<1> DEFINE c == [i \in 0..7 |-> Xor1(a[i], b[i])]
<1>1. c \in Octets /\ \A i \in 0..7 : c[i] = Xor1(a[i], b[i])
  <2>1. \A i \in 0..7 : Xor1(a[i], b[i]) \in Bit
    BY Xor1Type DEF Octets
  <2>. QED  BY <2>1 DEF Octets
<1> HIDE DEF c
<1>2. ASSUME NEW m, NEW n, m = Octet(a), n = Octet(b) PROVE Xor8(m, n) = Octet(c)
  <2>1. /\ m \div 1 \in Int /\ (m \div 1) % 2 = a[0]
        /\ m \div 2 \in Int /\ (m \div 2) % 2 = a[1]
        /\ m \div 4 \in Int /\ (m \div 4) % 2 = a[2]
        /\ m \div 8 \in Int /\ (m \div 8) % 2 = a[3]
        /\ m \div 16 \in Int /\ (m \div 16) % 2 = a[4]
        /\ m \div 32 \in Int /\ (m \div 32) % 2 = a[5]
        /\ m \div 64 \in Int /\ (m \div 64) % 2 = a[6]
        /\ m \div 128 \in Int /\ (m \div 128) % 2 = a[7]
    BY <1>2, OctetDivs
  <2>2. /\ n \div 1 \in Int /\ (n \div 1) % 2 = b[0]
        /\ n \div 2 \in Int /\ (n \div 2) % 2 = b[1]
        /\ n \div 4 \in Int /\ (n \div 4) % 2 = b[2]
        /\ n \div 8 \in Int /\ (n \div 8) % 2 = b[3]
        /\ n \div 16 \in Int /\ (n \div 16) % 2 = b[4]
        /\ n \div 32 \in Int /\ (n \div 32) % 2 = b[5]
        /\ n \div 64 \in Int /\ (n \div 64) % 2 = b[6]
        /\ n \div 128 \in Int /\ (n \div 128) % 2 = b[7]
    BY <1>2, OctetDivs
  <2>3. /\ (m \div 1 + n \div 1) % 2 = c[0]
        /\ (m \div 2 + n \div 2) % 2 = c[1]
        /\ (m \div 4 + n \div 4) % 2 = c[2]
        /\ (m \div 8 + n \div 8) % 2 = c[3]
        /\ (m \div 16 + n \div 16) % 2 = c[4]
        /\ (m \div 32 + n \div 32) % 2 = c[5]
        /\ (m \div 64 + n \div 64) % 2 = c[6]
        /\ (m \div 128 + n \div 128) % 2 = c[7]
    <3>1. /\ (m \div 1 + n \div 1) % 2 = Xor1(a[0], b[0])
          /\ (m \div 2 + n \div 2) % 2 = Xor1(a[1], b[1])
          /\ (m \div 4 + n \div 4) % 2 = Xor1(a[2], b[2])
          /\ (m \div 8 + n \div 8) % 2 = Xor1(a[3], b[3])
          /\ (m \div 16 + n \div 16) % 2 = Xor1(a[4], b[4])
          /\ (m \div 32 + n \div 32) % 2 = Xor1(a[5], b[5])
          /\ (m \div 64 + n \div 64) % 2 = Xor1(a[6], b[6])
          /\ (m \div 128 + n \div 128) % 2 = Xor1(a[7], b[7])
      BY ONLY <2>1, <2>2, BitSum
    <3>2. /\ c[0] = Xor1(a[0], b[0]) /\ c[1] = Xor1(a[1], b[1]) /\ c[2] = Xor1(a[2], b[2]) /\ c[3] = Xor1(a[3], b[3])
          /\ c[4] = Xor1(a[4], b[4]) /\ c[5] = Xor1(a[5], b[5]) /\ c[6] = Xor1(a[6], b[6]) /\ c[7] = Xor1(a[7], b[7])
      BY <1>1
    <3>. QED  BY ONLY <3>1, <3>2
  <2>4. /\ c[0] \in Bit /\ c[1] \in Bit /\ c[2] \in Bit /\ c[3] \in Bit
        /\ c[4] \in Bit /\ c[5] \in Bit /\ c[6] \in Bit /\ c[7] \in Bit
    BY <1>1, OctetBits
  <2>5. Xor8(m, n) = c[0] * 1 + c[1] * 2 + c[2] * 4 + c[3] * 8 + c[4] * 16 + c[5] * 32 + c[6] * 64 + c[7] * 128
    BY ONLY <2>3 DEF Xor8, XorBit
  <2>. QED  BY ONLY <2>4, <2>5 DEF Octet, Bit
<1>. QED  BY <1>1, <1>2 DEF c

\* Words as bits, lowest first.
Words == [0..15 -> Bit]
\* The bits of its low byte and of its high byte, and the number.
Lower(b) == [i \in 0..7 |-> b[i]]
Upper(b) == [i \in 0..7 |-> b[i + 8]]
Word(b) == 256 * Octet(Upper(b)) + Octet(Lower(b))
XorWords(a, b) == [i \in 0..15 |-> Xor1(a[i], b[i])]
\* Shifted up by one, a 0 coming in.
Up(b) == [i \in 0..15 |-> IF i = 0 THEN 0 ELSE b[i - 1]]
\* The polynomial x^12 + x^5 + 1, and a register that takes the bit c in.
Poly == [i \in 0..15 |-> IF i \in {0, 5, 12} THEN 1 ELSE 0]
ShiftBit(r, c) == IF Xor1(r[15], c) = 1 THEN XorWords(Up(r), Poly) ELSE Up(r)

LEMMA WordBit ==
  ASSUME NEW b \in Words, NEW i \in 0..15
  PROVE  \E x \in Bit : b[i] = x
BY DEF Words

LEMMA Halves == ASSUME NEW b \in Words PROVE Upper(b) \in Octets /\ Lower(b) \in Octets
<1>1. \A i \in 0..7 : i \in 0..15 /\ i + 8 \in 0..15
  OBVIOUS
<1>. QED  BY <1>1 DEF Words, Octets, Upper, Lower

\* The two bytes of a word by division.
LEMMA WordHalves ==
  ASSUME NEW b \in Words
  PROVE  /\ Octet(Upper(b)) \in 0..255 /\ Octet(Lower(b)) \in 0..255
         /\ Word(b) \in Word16 /\ Word(b) \in Nat
         /\ Word(b) \div 256 = Octet(Upper(b)) /\ Word(b) % 256 = Octet(Lower(b))
<1>1. PICK h \in 0..255 : h = Octet(Upper(b))
  BY Halves, OctetDivs
<1>2. PICK l \in 0..255 : l = Octet(Lower(b))
  BY Halves, OctetDivs
<1>3. /\ 256 * h + l \in Nat /\ 256 * h + l <= 65535
      /\ (256 * h + l) \div 256 = h /\ (256 * h + l) % 256 = l
  OBVIOUS
<1>4. Word(b) = 256 * h + l
  BY <1>1, <1>2 DEF Word
<1>5. Word(b) \in Word16
  BY <1>3, <1>4, WordRange
<1>. QED  BY <1>1, <1>2, <1>3, <1>4, <1>5

LEMMA XorWordsType == ASSUME NEW a \in Words, NEW b \in Words PROVE XorWords(a, b) \in Words
<1>1. \A i \in 0..15 : Xor1(a[i], b[i]) \in Bit
  BY Xor1Type DEF Words
<1>. QED  BY <1>1 DEF XorWords, Words

\* Exclusive or of words, bit by bit.
LEMMA Xor16Word ==
  ASSUME NEW a \in Words, NEW b \in Words
  PROVE  Xor16(Word(a), Word(b)) = Word(XorWords(a, b))
<1>1. Xor8(Octet(Upper(a)), Octet(Upper(b))) = Octet(Upper(XorWords(a, b)))
  <2>1. Upper(XorWords(a, b)) = [i \in 0..7 |-> Xor1(Upper(a)[i], Upper(b)[i])]
    <3>1. \A i \in 0..7 : i + 8 \in 0..15
      OBVIOUS
    <3>. QED  BY <3>1 DEF Upper, XorWords
  <2>. QED  BY <2>1, Halves, Xor8Octet
<1>2. Xor8(Octet(Lower(a)), Octet(Lower(b))) = Octet(Lower(XorWords(a, b)))
  <2>1. Lower(XorWords(a, b)) = [i \in 0..7 |-> Xor1(Lower(a)[i], Lower(b)[i])]
    <3>1. \A i \in 0..7 : i \in 0..15
      OBVIOUS
    <3>. QED  BY <3>1 DEF Lower, XorWords
  <2>. QED  BY <2>1, Halves, Xor8Octet
<1>3. /\ Word(a) \div 256 = Octet(Upper(a)) /\ Word(a) % 256 = Octet(Lower(a))
      /\ Word(b) \div 256 = Octet(Upper(b)) /\ Word(b) % 256 = Octet(Lower(b))
  BY WordHalves
<1>4. Xor16(Word(a), Word(b))
        = 256 * Xor8(Octet(Upper(a)), Octet(Upper(b))) + Xor8(Octet(Lower(a)), Octet(Lower(b)))
  BY ONLY <1>3 DEF Xor16
<1>. QED  BY ONLY <1>1, <1>2, <1>4 DEF Word

LEMMA UpBits ==
  ASSUME NEW r \in Words
  PROVE  Up(r) \in Words
<1>1. \A i \in 0..15 : i # 0 => i - 1 \in 0..15
  OBVIOUS
<1>2. \A i \in 0..15 : (IF i = 0 THEN 0 ELSE r[i - 1]) \in Bit
  BY <1>1 DEF Words, Bit
<1>. QED  BY <1>2 DEF Up, Words

\* A shift by one drops the highest bit and adds a lowest one of 0.
LEMMA UpWord ==
  ASSUME NEW r \in Words
  PROVE  /\ (Word(r) * 2) % 65536 = Word(Up(r))
         /\ Word(r) \div 32768 = r[15] /\ r[15] \in Bit
<1>p0. PICK b0 \in Bit : r[0] = b0
  BY WordBit
<1>p1. PICK b1 \in Bit : r[1] = b1
  BY WordBit
<1>p2. PICK b2 \in Bit : r[2] = b2
  BY WordBit
<1>p3. PICK b3 \in Bit : r[3] = b3
  BY WordBit
<1>p4. PICK b4 \in Bit : r[4] = b4
  BY WordBit
<1>p5. PICK b5 \in Bit : r[5] = b5
  BY WordBit
<1>p6. PICK b6 \in Bit : r[6] = b6
  BY WordBit
<1>p7. PICK b7 \in Bit : r[7] = b7
  BY WordBit
<1>p8. PICK b8 \in Bit : r[8] = b8
  BY WordBit
<1>p9. PICK b9 \in Bit : r[9] = b9
  BY WordBit
<1>p10. PICK b10 \in Bit : r[10] = b10
  BY WordBit
<1>p11. PICK b11 \in Bit : r[11] = b11
  BY WordBit
<1>p12. PICK b12 \in Bit : r[12] = b12
  BY WordBit
<1>p13. PICK b13 \in Bit : r[13] = b13
  BY WordBit
<1>p14. PICK b14 \in Bit : r[14] = b14
  BY WordBit
<1>p15. PICK b15 \in Bit : r[15] = b15
  BY WordBit
<1>1. /\ Octet(Lower(r)) = b0 + 2 * b1 + 4 * b2 + 8 * b3 + 16 * b4 + 32 * b5 + 64 * b6 + 128 * b7
      /\ Octet(Upper(r)) = b8 + 2 * b9 + 4 * b10 + 8 * b11 + 16 * b12 + 32 * b13 + 64 * b14 + 128 * b15
  BY <1>p0, <1>p1, <1>p2, <1>p3, <1>p4, <1>p5, <1>p6, <1>p7, <1>p8, <1>p9, <1>p10, <1>p11,
     <1>p12, <1>p13, <1>p14, <1>p15 DEF Octet, Lower, Upper
<1>2. /\ Octet(Lower(Up(r))) = 0 + 2 * b0 + 4 * b1 + 8 * b2 + 16 * b3 + 32 * b4 + 64 * b5 + 128 * b6
      /\ Octet(Upper(Up(r))) = b7 + 2 * b8 + 4 * b9 + 8 * b10 + 16 * b11 + 32 * b12 + 64 * b13 + 128 * b14
  BY <1>p0, <1>p1, <1>p2, <1>p3, <1>p4, <1>p5, <1>p6, <1>p7, <1>p8, <1>p9, <1>p10, <1>p11,
     <1>p12, <1>p13, <1>p14, <1>p15 DEF Octet, Lower, Upper, Up
<1>3. Word(r) = 256 * (b8 + 2 * b9 + 4 * b10 + 8 * b11 + 16 * b12 + 32 * b13 + 64 * b14 + 128 * b15)
               + (b0 + 2 * b1 + 4 * b2 + 8 * b3 + 16 * b4 + 32 * b5 + 64 * b6 + 128 * b7)
  BY <1>1 DEF Word
<1>4. Word(Up(r)) = 256 * (b7 + 2 * b8 + 4 * b9 + 8 * b10 + 16 * b11 + 32 * b12 + 64 * b13 + 128 * b14)
                   + (0 + 2 * b0 + 4 * b1 + 8 * b2 + 16 * b3 + 32 * b4 + 64 * b5 + 128 * b6)
  BY <1>2 DEF Word
<1>5. (Word(r) * 2) % 65536 = Word(Up(r)) /\ Word(r) \div 32768 = b15
  BY <1>3, <1>4 DEF Bit
<1>. QED  BY <1>5, <1>p15

LEMMA PolyWord == Poly \in Words /\ Word(Poly) = 4129
<1>1. Poly \in Words
  BY DEF Poly, Words, Bit
<1>2. Octet(Lower(Poly)) = 33 /\ Octet(Upper(Poly)) = 16
  BY DEF Lower, Upper, Poly, Octet
<1>. QED  BY <1>1, <1>2 DEF Word

\* One message bit, on bits.
LEMMA ShiftInWord ==
  ASSUME NEW r \in Words, NEW c \in Bit
  PROVE  ShiftIn(Word(r), c) = Word(ShiftBit(r, c)) /\ ShiftBit(r, c) \in Words
<1>1. /\ (Word(r) * 2) % 65536 = Word(Up(r)) /\ Up(r) \in Words
      /\ Word(r) \div 32768 = r[15] /\ r[15] \in Bit
  BY UpWord, UpBits
<1>2. (r[15] + c) % 2 = Xor1(r[15], c)
  BY <1>1 DEF Xor1, Bit
<1>3. Xor16(Word(Up(r)), 4129) = Word(XorWords(Up(r), Poly)) /\ XorWords(Up(r), Poly) \in Words
  BY <1>1, PolyWord, Xor16Word, XorWordsType
<1>4. ShiftIn(Word(r), c) = IF Xor1(r[15], c) = 1 THEN Xor16(Word(Up(r)), 4129) ELSE Word(Up(r))
  BY ONLY <1>1, <1>2 DEF ShiftIn
<1>. QED  BY <1>1, <1>3, <1>4 DEF ShiftBit

\* Every byte, and every word, has its bits.
LEMMA OctetOf ==
  ASSUME NEW v \in 0..255
  PROVE  \E f \in Octets : v = Octet(f)
<1>0. PICK q1 \in Nat, b0 \in Bit : v = 2 * q1 + b0
  <2>1. v \div 2 \in Nat /\ v % 2 \in {0, 1} /\ v = 2 * (v \div 2) + (v % 2)
    OBVIOUS
  <2>. QED  BY <2>1 DEF Bit
<1>1. PICK q2 \in Nat, b1 \in Bit : q1 = 2 * q2 + b1
  <2>1. q1 \div 2 \in Nat /\ q1 % 2 \in {0, 1} /\ q1 = 2 * (q1 \div 2) + (q1 % 2)
    OBVIOUS
  <2>. QED  BY <2>1 DEF Bit
<1>2. PICK q3 \in Nat, b2 \in Bit : q2 = 2 * q3 + b2
  <2>1. q2 \div 2 \in Nat /\ q2 % 2 \in {0, 1} /\ q2 = 2 * (q2 \div 2) + (q2 % 2)
    OBVIOUS
  <2>. QED  BY <2>1 DEF Bit
<1>3. PICK q4 \in Nat, b3 \in Bit : q3 = 2 * q4 + b3
  <2>1. q3 \div 2 \in Nat /\ q3 % 2 \in {0, 1} /\ q3 = 2 * (q3 \div 2) + (q3 % 2)
    OBVIOUS
  <2>. QED  BY <2>1 DEF Bit
<1>4. PICK q5 \in Nat, b4 \in Bit : q4 = 2 * q5 + b4
  <2>1. q4 \div 2 \in Nat /\ q4 % 2 \in {0, 1} /\ q4 = 2 * (q4 \div 2) + (q4 % 2)
    OBVIOUS
  <2>. QED  BY <2>1 DEF Bit
<1>5. PICK q6 \in Nat, b5 \in Bit : q5 = 2 * q6 + b5
  <2>1. q5 \div 2 \in Nat /\ q5 % 2 \in {0, 1} /\ q5 = 2 * (q5 \div 2) + (q5 % 2)
    OBVIOUS
  <2>. QED  BY <2>1 DEF Bit
<1>6. PICK q7 \in Nat, b6 \in Bit : q6 = 2 * q7 + b6
  <2>1. q6 \div 2 \in Nat /\ q6 % 2 \in {0, 1} /\ q6 = 2 * (q6 \div 2) + (q6 % 2)
    OBVIOUS
  <2>. QED  BY <2>1 DEF Bit
<1>7. PICK q8 \in Nat, b7 \in Bit : q7 = 2 * q8 + b7
  <2>1. q7 \div 2 \in Nat /\ q7 % 2 \in {0, 1} /\ q7 = 2 * (q7 \div 2) + (q7 % 2)
    OBVIOUS
  <2>. QED  BY <2>1 DEF Bit
<1> DEFINE f == [i \in 0..7 |-> IF i = 0 THEN b0 ELSE IF i = 1 THEN b1 ELSE IF i = 2 THEN b2 ELSE
                               IF i = 3 THEN b3 ELSE IF i = 4 THEN b4 ELSE IF i = 5 THEN b5 ELSE
                               IF i = 6 THEN b6 ELSE b7]
<1>8. f \in Octets
  BY DEF Octets
<1>9. Octet(f) = b0 + 2 * b1 + 4 * b2 + 8 * b3 + 16 * b4 + 32 * b5 + 64 * b6 + 128 * b7
  BY DEF Octet
<1>10. v = b0 + 2 * b1 + 4 * b2 + 8 * b3 + 16 * b4 + 32 * b5 + 64 * b6 + 128 * b7
  BY <1>0, <1>1, <1>2, <1>3, <1>4, <1>5, <1>6, <1>7 DEF Bit
<1>. QED  BY <1>8, <1>9, <1>10

LEMMA WordOf ==
  ASSUME NEW w \in Word16
  PROVE  \E b \in Words : w = Word(b)
<1>1. w \in Nat /\ w <= 65535
  BY WordRange
<1>2. w \div 256 \in 0..255 /\ w % 256 \in 0..255 /\ w = 256 * (w \div 256) + (w % 256)
  BY ONLY <1>1
<1>3. PICK h \in Octets : w \div 256 = Octet(h)
  BY <1>2, OctetOf
<1>4. PICK l \in Octets : w % 256 = Octet(l)
  BY <1>2, OctetOf
<1> DEFINE b == [i \in 0..15 |-> IF i < 8 THEN l[i] ELSE h[i - 8]]
<1>5. b \in Words
  <2>1. \A i \in 0..15 : (i < 8 => i \in 0..7) /\ (~(i < 8) => i - 8 \in 0..7)
    OBVIOUS
  <2>2. \A i \in 0..15 : (IF i < 8 THEN l[i] ELSE h[i - 8]) \in Bit
    BY <2>1 DEF Octets
  <2>. QED  BY <2>2 DEF Words
<1>6. Upper(b) = h /\ Lower(b) = l
  <2>1. \A i \in 0..7 : i \in 0..15 /\ i < 8 /\ i + 8 \in 0..15 /\ ~(i + 8 < 8) /\ (i + 8) - 8 = i
    OBVIOUS
  <2>2. \A i \in 0..7 : b[i] = l[i] /\ b[i + 8] = h[i]
    BY <2>1
  <2>3. h = [i \in 0..7 |-> h[i]] /\ l = [i \in 0..7 |-> l[i]]
    BY DEF Octets
  <2> HIDE DEF b
  <2>. QED  BY <2>2, <2>3 DEF Upper, Lower
<1>7. w = Word(b)
  <2> HIDE DEF b
  <2>. QED  BY <1>2, <1>3, <1>4, <1>6 DEF Word
<1>. QED  BY <1>5, <1>7

\* Exclusive or is associative and commutative, with 0 neutral.
LEMMA Xor1Algebra ==
  ASSUME NEW x \in Bit, NEW y \in Bit, NEW z \in Bit
  PROVE  /\ Xor1(Xor1(x, y), z) = Xor1(x, Xor1(y, z)) /\ Xor1(Xor1(x, y), z) = Xor1(y, Xor1(x, z))
         /\ Xor1(x, 0) = x /\ Xor1(0, 0) = 0
BY DEF Xor1, Bit

LEMMA XorWordsAssociates ==
  ASSUME NEW a \in Words, NEW b \in Words, NEW c \in Words
  PROVE  XorWords(XorWords(a, b), c) = XorWords(a, XorWords(b, c))
<1>1. ASSUME NEW i \in 0..15 PROVE Xor1(Xor1(a[i], b[i]), c[i]) = Xor1(a[i], Xor1(b[i], c[i]))
  <2>1. a[i] \in Bit /\ b[i] \in Bit /\ c[i] \in Bit
    BY DEF Words
  <2>. QED  BY ONLY <2>1, Xor1Algebra
<1>. QED  BY <1>1 DEF XorWords

LEMMA UpXorWords ==
  ASSUME NEW a \in Words, NEW b \in Words
  PROVE  Up(XorWords(a, b)) = XorWords(Up(a), Up(b))
<1>1. ASSUME NEW i \in 0..15
      PROVE  (IF i = 0 THEN 0 ELSE XorWords(a, b)[i - 1])
             = Xor1(IF i = 0 THEN 0 ELSE a[i - 1], IF i = 0 THEN 0 ELSE b[i - 1])
  <2>1. i # 0 => i - 1 \in 0..15
    OBVIOUS
  <2>. QED  BY <2>1 DEF XorWords, Xor1
<1>. QED  BY <1>1 DEF Up, XorWords

\* What is in the register and what comes in go through it side by side.
LEMMA ShiftLinear ==
  ASSUME NEW p \in Words, NEW r \in Words, NEW c \in Bit
  PROVE  ShiftBit(XorWords(p, r), c) = XorWords(Up(p), ShiftBit(r, Xor1(p[15], c)))
<1>1. p[15] \in Bit /\ r[15] \in Bit
  BY DEF Words
<1>2. XorWords(p, r)[15] = Xor1(p[15], r[15])
  BY DEF XorWords
<1>3. Xor1(Xor1(p[15], r[15]), c) = Xor1(r[15], Xor1(p[15], c))
  BY <1>1, Xor1Algebra
<1>4. XorWords(XorWords(Up(p), Up(r)), Poly) = XorWords(Up(p), XorWords(Up(r), Poly))
  BY UpBits, PolyWord, XorWordsAssociates
<1>. QED  BY <1>2, <1>3, <1>4, UpXorWords DEF ShiftBit

-----------------------------------------------------------------------------
(* Eight message bits. What goes into the register with the byte comes out *)
(* of it at the top and returns at the taps of the polynomial; the table   *)
(* holds what that leaves behind.                                          *)

(* x is the high byte of the register with a byte of the message.          *)
(* Feedback(x)[i]: what comes out at the top when bit i gets there, x[i]   *)
(* with what the tap at 12 put there four bits before.  Feed: what of the  *)
(* first k of these the tap at e has put at place i by then; Left: what    *)
(* all three taps have left in a register of zeros.                        *)
Feedback(x) == [i \in 0..7 |-> IF i < 4 THEN Xor1(x[i], x[i + 4]) ELSE x[i]]
Feed(d, k, i, e) == IF i >= e /\ i - e < k THEN d[8 - k + i - e] ELSE 0
Left(d, k) == [i \in 0..15 |-> Xor1(Feed(d, k, i, 0), Xor1(Feed(d, k, i, 5), Feed(d, k, i, 12)))]

LEMMA FeedbackOctet == ASSUME NEW x \in Octets PROVE Feedback(x) \in Octets
<1>1. ASSUME NEW i \in 0..7 PROVE (IF i < 4 THEN Xor1(x[i], x[i + 4]) ELSE x[i]) \in Bit
  <2>1. x[i] \in Bit /\ (i < 4 => i + 4 \in 0..7)
    BY DEF Octets
  <2>2. i < 4 => x[i + 4] \in Bit
    BY <2>1 DEF Octets
  <2>. QED  BY <2>1, <2>2, Xor1Type
<1>. QED  BY <1>1 DEF Feedback, Octets

LEMMA FeedBit ==
  ASSUME NEW d \in Octets, NEW k \in 0..8, NEW i \in 0..15, NEW e \in {0, 5, 12}
  PROVE  Feed(d, k, i, e) \in Bit
<1>1. i >= e /\ i - e < k => 8 - k + i - e \in 0..7
  OBVIOUS
<1>. QED  BY <1>1 DEF Feed, Octets, Bit

LEMMA LeftType ==
  ASSUME NEW d \in Octets, NEW k \in 0..8
  PROVE  Left(d, k) \in Words
<1>1. ASSUME NEW i \in 0..15
      PROVE  Xor1(Feed(d, k, i, 0), Xor1(Feed(d, k, i, 5), Feed(d, k, i, 12))) \in Bit
  <2>1. Feed(d, k, i, 0) \in Bit /\ Feed(d, k, i, 5) \in Bit /\ Feed(d, k, i, 12) \in Bit
    BY FeedBit
  <2>. QED  BY ONLY <2>1, Xor1Type
<1>. QED  BY <1>1 DEF Left, Words

\* One bit more moves what is left up, and comes out to the taps.
LEMMA LeftStep ==
  ASSUME NEW x \in Octets, NEW k \in 0..7
  PROVE  ShiftBit(Left(Feedback(x), k), x[7 - k]) = Left(Feedback(x), k + 1)
<1> DEFINE d == Feedback(x)
           r == Left(d, k)
           t == d[7 - k]
           s == ShiftBit(r, x[7 - k])
<1>1. d \in Octets /\ r \in Words /\ t \in Bit
  <2>1. 7 - k \in 0..7 /\ k \in 0..8
    OBVIOUS
  <2>2. d \in Octets
    BY FeedbackOctet
  <2>. QED  BY <2>1, <2>2, LeftType DEF Octets
<1>2. Xor1(r[15], x[7 - k]) = t
  <2>1. r[15] = Xor1(Feed(d, k, 15, 0), Xor1(Feed(d, k, 15, 5), Feed(d, k, 15, 12)))
    BY DEF Left
  <2>2. Feed(d, k, 15, 0) = 0 /\ Feed(d, k, 15, 5) = 0
    BY DEF Feed
  <2>3. 7 - k \in 0..7 /\ x[7 - k] \in Bit
    BY DEF Octets
  <2>4. CASE k < 4
    <3>1. Feed(d, k, 15, 12) = 0 /\ t = x[7 - k]
      BY <2>3, <2>4 DEF Feed, Feedback
    <3>. QED  BY <2>1, <2>2, <2>3, <3>1 DEF Xor1, Bit
  <2>5. CASE ~(k < 4)
    <3>1. 11 - k \in 0..7 /\ ~(11 - k < 4) /\ 7 - k < 4 /\ (7 - k) + 4 = 11 - k
          /\ 15 >= 12 /\ 15 - 12 < k /\ 8 - k + 15 - 12 = 11 - k
      BY <2>5
    <3>2. Feed(d, k, 15, 12) = x[11 - k]
      <4>1. Feed(d, k, 15, 12) = d[11 - k]
        BY <3>1 DEF Feed
      <4>2. d[11 - k] = x[11 - k]
        BY <3>1 DEF Feedback
      <4>. QED  BY <4>1, <4>2
    <3>3. t = Xor1(x[7 - k], x[11 - k])
      BY <2>3, <3>1 DEF Feedback
    <3>4. x[11 - k] \in Bit
      BY <3>1 DEF Octets
    <3>5. r[15] = x[11 - k]
      BY <2>1, <2>2, <3>2, <3>4 DEF Xor1, Bit
    <3>. QED  BY <2>3, <3>3, <3>4, <3>5 DEF Xor1, Bit
  <2>. QED  BY <2>4, <2>5
<1>3. ASSUME NEW i \in 0..15
      PROVE  s[i] = Xor1(Up(r)[i], IF i \in {0, 5, 12} THEN t ELSE 0)
  <2>1. Up(r) \in Words /\ Up(r)[i] \in Bit
    BY <1>1, UpBits DEF Words
  <2>2. CASE t = 1
    BY <1>2, <2>2 DEF ShiftBit, XorWords, Poly
  <2>3. CASE t = 0
    BY <1>2, <2>1, <2>3 DEF ShiftBit, Xor1, Bit
  <2>. QED  BY <1>1, <2>2, <2>3 DEF Bit
<1> HIDE DEF s
<1>4. ASSUME NEW i \in 0..15, NEW e \in {0, 5, 12}
      PROVE  Feed(d, k + 1, i, e) = IF i = e THEN t ELSE IF i = 0 THEN 0 ELSE Feed(d, k, i - 1, e)
  <2>1. CASE i = e
    <3>1. i >= e /\ i - e < k + 1 /\ 8 - (k + 1) + i - e = 7 - k
      BY <2>1
    <3>. QED  BY <2>1, <3>1 DEF Feed
  <2>2. CASE i < e
    BY <2>2 DEF Feed
  <2>3. CASE i > e
    <3>1. /\ i # 0 /\ i # e /\ (i - e < k + 1 <=> (i - 1) - e < k) /\ i >= e /\ i - 1 >= e
          /\ 8 - (k + 1) + i - e = 8 - k + (i - 1) - e
      BY <2>3
    <3>. QED  BY <3>1 DEF Feed
  <2>. QED  BY <2>1, <2>2, <2>3
<1>5. ASSUME NEW i \in 0..15 PROVE s[i] = Left(d, k + 1)[i]
  <2> DEFINE a(e) == IF i = 0 THEN 0 ELSE Feed(d, k, i - 1, e)
             n(e) == Feed(d, k + 1, i, e)
  <2>1. Up(r)[i] = Xor1(a(0), Xor1(a(5), a(12)))
    <3>1. i # 0 => i - 1 \in 0..15
      OBVIOUS
    <3>2. CASE i = 0
      BY <3>2 DEF Up, Xor1
    <3>3. CASE i # 0
      BY <3>1, <3>3 DEF Up, Left
    <3>. QED  BY <3>2, <3>3
  <2>2. a(0) \in Bit /\ a(5) \in Bit /\ a(12) \in Bit
    <3>1. i # 0 => i - 1 \in 0..15
      OBVIOUS
    <3>. QED  BY <1>1, <3>1, FeedBit DEF Bit
  <2>3. /\ n(0) = IF i = 0 THEN t ELSE a(0)
        /\ n(5) = IF i = 5 THEN t ELSE a(5)
        /\ n(12) = IF i = 12 THEN t ELSE a(12)
    BY <1>4
  <2>4. Left(d, k + 1)[i] = Xor1(n(0), Xor1(n(5), n(12)))
    BY DEF Left
  <2>5. (i = 0 => a(0) = 0) /\ (i = 5 => a(5) = 0) /\ (i = 12 => a(12) = 0)
    BY DEF Feed
  <2> HIDE DEF a, n
  <2>6. s[i] = Xor1(Xor1(a(0), Xor1(a(5), a(12))), IF i \in {0, 5, 12} THEN t ELSE 0)
    BY <1>3, <2>1
  <2>. QED  BY ONLY <1>1, <2>2, <2>3, <2>4, <2>5, <2>6 DEF Xor1, Bit
<1>6. s \in [0..15 -> Bit] /\ Left(d, k + 1) \in [0..15 -> Bit]
  <2>1. x[7 - k] \in Bit /\ k + 1 \in 0..8
    BY DEF Octets
  <2>. QED  BY <1>1, <2>1, ShiftInWord, LeftType DEF s, Words
<1>7. s = Left(d, k + 1)
  <2> HIDE DEF d
  <2>. QED  BY ONLY <1>5, <1>6
<1>. QED  BY <1>7 DEF s

\* The table holds what eight bits leave behind.
LEMMA TableWord ==
  ASSUME NEW x \in Octets
  PROVE  crc16tab[Octet(x) + 1] = Word(Left(Feedback(x), 8))
<1> DEFINE d == Feedback(x)
           f == Left(d, 8)
<1>p0. PICK x0 \in Bit : x[0] = x0
  BY OctetBits
<1>p1. PICK x1 \in Bit : x[1] = x1
  BY OctetBits
<1>p2. PICK x2 \in Bit : x[2] = x2
  BY OctetBits
<1>p3. PICK x3 \in Bit : x[3] = x3
  BY OctetBits
<1>p4. PICK x4 \in Bit : x[4] = x4
  BY OctetBits
<1>p5. PICK x5 \in Bit : x[5] = x5
  BY OctetBits
<1>p6. PICK x6 \in Bit : x[6] = x6
  BY OctetBits
<1>p7. PICK x7 \in Bit : x[7] = x7
  BY OctetBits
<1>1. /\ d[0] = Xor1(x0, x4)
      /\ d[1] = Xor1(x1, x5)
      /\ d[2] = Xor1(x2, x6)
      /\ d[3] = Xor1(x3, x7)
      /\ d[4] = x4
      /\ d[5] = x5
      /\ d[6] = x6
      /\ d[7] = x7
  BY <1>p0, <1>p1, <1>p2, <1>p3, <1>p4, <1>p5, <1>p6, <1>p7 DEF Feedback
<1>2. /\ f[0] = Xor1(d[0], Xor1(0, 0))
      /\ f[1] = Xor1(d[1], Xor1(0, 0))
      /\ f[2] = Xor1(d[2], Xor1(0, 0))
      /\ f[3] = Xor1(d[3], Xor1(0, 0))
      /\ f[4] = Xor1(d[4], Xor1(0, 0))
      /\ f[5] = Xor1(d[5], Xor1(d[0], 0))
      /\ f[6] = Xor1(d[6], Xor1(d[1], 0))
      /\ f[7] = Xor1(d[7], Xor1(d[2], 0))
      /\ f[8] = Xor1(0, Xor1(d[3], 0))
      /\ f[9] = Xor1(0, Xor1(d[4], 0))
      /\ f[10] = Xor1(0, Xor1(d[5], 0))
      /\ f[11] = Xor1(0, Xor1(d[6], 0))
      /\ f[12] = Xor1(0, Xor1(d[7], d[0]))
      /\ f[13] = Xor1(0, Xor1(0, d[1]))
      /\ f[14] = Xor1(0, Xor1(0, d[2]))
      /\ f[15] = Xor1(0, Xor1(0, d[3]))
  BY DEF Left, Feed
<1> HIDE DEF d, f
<1>3. Octet(Lower(f)) = f[0] + 2 * f[1] + 4 * f[2] + 8 * f[3] + 16 * f[4] + 32 * f[5] + 64 * f[6] + 128 * f[7]
  BY DEF Octet, Lower
<1>4. Octet(Upper(f)) = f[8] + 2 * f[9] + 4 * f[10] + 8 * f[11] + 16 * f[12] + 32 * f[13] + 64 * f[14] + 128 * f[15]
  BY DEF Octet, Upper
<1>5. Octet(x) = x0 + 2 * x1 + 4 * x2 + 8 * x3 + 16 * x4 + 32 * x5 + 64 * x6 + 128 * x7
  BY <1>p0, <1>p1, <1>p2, <1>p3, <1>p4, <1>p5, <1>p6, <1>p7 DEF Octet
<1>6. Word(f) = Xor1(x0, x4) + 2 * Xor1(x1, x5) + 4 * Xor1(x2, x6) + 8 * Xor1(x3, x7) + 16 * x4
               + 32 * Xor1(Xor1(x0, x4), x5) + 64 * Xor1(Xor1(x1, x5), x6) + 128 * Xor1(Xor1(x2, x6), x7)
               + 256 * Xor1(x3, x7) + 512 * x4 + 1024 * x5 + 2048 * x6 + 4096 * Xor1(Xor1(x0, x4), x7)
               + 8192 * Xor1(x1, x5) + 16384 * Xor1(x2, x6) + 32768 * Xor1(x3, x7)
  BY <1>1, <1>2, <1>3, <1>4 DEF Word, Xor1, Bit
<1>7. crc16tab[x0 + 2 * x1 + 4 * x2 + 8 * x3 + 16 * x4 + 32 * x5 + 64 * x6 + 128 * x7 + 1]
            = Xor1(x0, x4) + 2 * Xor1(x1, x5) + 4 * Xor1(x2, x6) + 8 * Xor1(x3, x7) + 16 * x4
               + 32 * Xor1(Xor1(x0, x4), x5) + 64 * Xor1(Xor1(x1, x5), x6) + 128 * Xor1(Xor1(x2, x6), x7)
               + 256 * Xor1(x3, x7) + 512 * x4 + 1024 * x5 + 2048 * x6 + 4096 * Xor1(Xor1(x0, x4), x7)
               + 8192 * Xor1(x1, x5) + 16384 * Xor1(x2, x6) + 32768 * Xor1(x3, x7)
  BY ONLY x0 \in Bit, x1 \in Bit, x2 \in Bit, x3 \in Bit,
          x4 \in Bit, x5 \in Bit, x6 \in Bit, x7 \in Bit, SMTT(120) DEF crc16tab, Xor1, Bit
<1>. QED  BY ONLY <1>5, <1>6, <1>7 DEF f, d

(* p shifted by k places; the high byte of p with the byte y; and the      *)
(* register after the k highest bits of y.                                 *)
Shifted(p, k) == [i \in 0..15 |-> IF i < k THEN 0 ELSE p[i - k]]
Mixed(p, y) == [i \in 0..7 |-> Xor1(Upper(p)[i], y[i])]
Register(p, y, k) == Word(XorWords(Shifted(p, k), Left(Feedback(Mixed(p, y)), k)))

LEMMA ShiftedFacts ==
  ASSUME NEW p \in Words, NEW k \in 0..8
  PROVE  /\ Shifted(p, k) \in Words
         /\ Shifted(p, k)[15] = p[15 - k]
         /\ Up(Shifted(p, k)) = Shifted(p, k + 1)
<1>1. \A i \in 0..15 : ~(i < k) => i - k \in 0..15
  OBVIOUS
<1>2. Shifted(p, k) \in Words
  <2>1. \A i \in 0..15 : (IF i < k THEN 0 ELSE p[i - k]) \in Bit
    BY <1>1 DEF Words, Bit
  <2>. QED  BY <2>1 DEF Shifted, Words
<1>3. Shifted(p, k)[15] = p[15 - k]
  BY DEF Shifted
<1>4. ASSUME NEW i \in 0..15
      PROVE  (IF i = 0 THEN 0 ELSE Shifted(p, k)[i - 1]) = IF i < k + 1 THEN 0 ELSE p[i - (k + 1)]
  <2>1. CASE i = 0
    BY <2>1
  <2>2. CASE i # 0
    <3>1. i - 1 \in 0..15 /\ (i < k + 1 <=> i - 1 < k) /\ (i - 1) - k = i - (k + 1)
      BY <2>2
    <3>2. Shifted(p, k)[i - 1] = IF i - 1 < k THEN 0 ELSE p[(i - 1) - k]
      BY <3>1 DEF Shifted
    <3>. QED  BY ONLY <2>2, <3>1, <3>2
  <2>. QED  BY <2>1, <2>2
<1>5. Up(Shifted(p, k)) = Shifted(p, k + 1)
  <2>1. Up(Shifted(p, k)) = [i \in 0..15 |-> IF i = 0 THEN 0 ELSE Shifted(p, k)[i - 1]]
    BY ONLY DEF Up
  <2>2. Shifted(p, k + 1) = [i \in 0..15 |-> IF i < k + 1 THEN 0 ELSE p[i - (k + 1)]]
    BY ONLY DEF Shifted
  <2>. QED  BY ONLY <1>4, <2>1, <2>2
<1>. QED  BY <1>2, <1>3, <1>5

LEMMA MixedOctet ==
  ASSUME NEW p \in Words, NEW y \in Octets
  PROVE  /\ Mixed(p, y) \in Octets
         /\ Xor8(Octet(Upper(p)), Octet(y)) = Octet(Mixed(p, y))
BY Halves, Xor8Octet DEF Mixed

\* One bit more of y.
LEMMA RegisterStep ==
  ASSUME NEW p \in Words, NEW y \in Octets, NEW k \in 0..7
  PROVE  ShiftIn(Register(p, y, k), y[7 - k]) = Register(p, y, k + 1)
<1> DEFINE x == Mixed(p, y)
           P == Shifted(p, k)
           F == Left(Feedback(x), k)
<1>0. k \in 0..8 /\ 7 - k \in 0..7 /\ 15 - k = (7 - k) + 8
  OBVIOUS
<1>1. x \in Octets /\ y[7 - k] \in Bit
  BY <1>0, MixedOctet DEF Octets
<1>2. P \in Words /\ F \in Words /\ Up(P) = Shifted(p, k + 1)
  BY <1>0, <1>1, ShiftedFacts, FeedbackOctet, LeftType
<1>3. Xor1(P[15], y[7 - k]) = x[7 - k]
  <2>1. P[15] = Upper(p)[7 - k]
    BY <1>0, ShiftedFacts DEF Upper
  <2>. QED  BY <1>0, <2>1 DEF Mixed
<1>4. ShiftBit(F, x[7 - k]) = Left(Feedback(x), k + 1)
  BY <1>1, LeftStep
<1> HIDE DEF x, P, F
<1>5. ShiftIn(Word(XorWords(P, F)), y[7 - k]) = Word(ShiftBit(XorWords(P, F), y[7 - k]))
  BY <1>1, <1>2, XorWordsType, ShiftInWord
<1>6. ShiftBit(XorWords(P, F), y[7 - k]) = XorWords(Up(P), ShiftBit(F, Xor1(P[15], y[7 - k])))
  BY ONLY <1>1, <1>2, ShiftLinear
<1>. QED  BY <1>2, <1>3, <1>4, <1>5, <1>6 DEF Register, x, P, F

\* No bit of y yet.
LEMMA RegisterFirst ==
  ASSUME NEW p \in Words, NEW y \in Octets
  PROVE  Register(p, y, 0) = Word(p)
<1> DEFINE F == Left(Feedback(Mixed(p, y)), 0)
<1>1. ASSUME NEW i \in 0..15 PROVE Xor1(Shifted(p, 0)[i], F[i]) = p[i]
  <2>1. F[i] = 0
    <3>1. /\ Feed(Feedback(Mixed(p, y)), 0, i, 0) = 0
          /\ Feed(Feedback(Mixed(p, y)), 0, i, 5) = 0
          /\ Feed(Feedback(Mixed(p, y)), 0, i, 12) = 0
      BY DEF Feed
    <3>. QED  BY <3>1 DEF Left, Xor1
  <2>2. Shifted(p, 0)[i] = p[i]
    BY DEF Shifted
  <2>3. p[i] \in Bit
    BY SMTT(30) DEF Words
  <2> HIDE DEF F
  <2>. QED  BY ONLY <2>1, <2>2, <2>3 DEF Xor1, Bit
<1>2. XorWords(Shifted(p, 0), F) = p
  <2>1. p = [i \in 0..15 |-> p[i]]
    BY DEF Words
  <2>. QED  BY <1>1, <2>1, Zenon DEF XorWords
<1>. QED  BY <1>2 DEF Register

\* All of y: the table entry, over what the shift leaves of the word.
LEMMA RegisterLast ==
  ASSUME NEW p \in Words, NEW y \in Octets
  PROVE  Register(p, y, 8) = CrcStep(Word(p), Octet(y))
<1> DEFINE x == Mixed(p, y)
           P == Shifted(p, 8)
           F == Left(Feedback(x), 8)
<1>1. x \in Octets /\ Xor8(Octet(Upper(p)), Octet(y)) = Octet(x)
  BY MixedOctet
<1>2. P \in Words /\ F \in Words
  BY <1>1, ShiftedFacts, FeedbackOctet, LeftType
<1>3. crc16tab[Octet(x) + 1] = Word(F)
  BY <1>1, TableWord
<1>4. /\ Word(p) \div 256 = Octet(Upper(p)) /\ Octet(Lower(p)) \in 0..255 /\ Octet(Upper(p)) \in 0..255
      /\ Word(p) = 256 * Octet(Upper(p)) + Octet(Lower(p))
  BY WordHalves DEF Word
<1>5. Word(P) = 256 * Octet(Lower(p))
  <2>1. Upper(P) = Lower(p)
    <3>1. ASSUME NEW i \in 0..7 PROVE P[i + 8] = p[i]
      BY DEF Shifted
    <3> HIDE DEF P
    <3>. QED  BY <3>1 DEF Upper, Lower
  <2>2. Octet(Lower(P)) = 0
    BY DEF Shifted, Octet, Lower
  <2>. QED  BY <1>4, <2>1, <2>2 DEF Word
<1>6. (Word(p) * 256) % 65536 = Word(P)
  <2>1. PICK h \in 0..255, l \in 0..255 : Octet(Upper(p)) = h /\ Octet(Lower(p)) = l
    BY <1>4, Zenon
  <2>2. ((256 * h + l) * 256) % 65536 = 256 * l
    BY ONLY h \in 0..255, l \in 0..255
  <2> HIDE DEF P
  <2>. QED  BY <1>4, <1>5, <2>1, <2>2, SMTT(30)
<1> HIDE DEF x, P, F
<1>7. CrcStep(Word(p), Octet(y)) = Xor16(Word(P), Word(F))
  BY <1>1, <1>3, <1>4, <1>6 DEF CrcStep
<1>. QED  BY <1>2, <1>7, Xor16Word DEF Register, x, P, F

\* Eight bits shifted in are one pass of the loop of nano_net_crc16.
LEMMA EightShifts ==
  ASSUME NEW w \in Word16, NEW y \in Octets, NEW s, s[0] = w,
         \A k \in 0..7 : s[k + 1] = ShiftIn(s[k], y[7 - k])
  PROVE  s[8] = CrcStep(w, Octet(y))
<1>1. PICK p \in Words : w = Word(p)
  BY WordOf
<1>2. \A k \in 0..7 : ShiftIn(Register(p, y, k), y[7 - k]) = Register(p, y, k + 1)
  BY RegisterStep
<1>3. s[0] = Register(p, y, 0)
  BY <1>1, RegisterFirst
<1> DEFINE S == {k \in Nat : k <= 8 => s[k] = Register(p, y, k)}
<1>4. 0 \in S
  BY <1>3
<1>5. ASSUME NEW k \in Nat, k \in S PROVE k + 1 \in S
  <2>1. SUFFICES ASSUME k + 1 <= 8 PROVE s[k + 1] = Register(p, y, k + 1)
    OBVIOUS
  <2>2. k \in 0..7 /\ s[k] = Register(p, y, k)
    BY <1>5, <2>1
  <2>. QED  BY <1>2, <2>2
<1> HIDE DEF S
<1>6. s[8] = Register(p, y, 8)
  <2>1. Nat \subseteq S
    BY <1>4, <1>5, Induct
  <2>. QED  BY <2>1 DEF S
<1>. QED  BY <1>1, <1>6, RegisterLast

-----------------------------------------------------------------------------
(* The bits of a whole message.                                            *)

\* Bit i of a message, the highest of its first byte first.
BitOf(buf, i) == (buf[(i - 1) \div 8 + 1] \div 2^(7 - ((i - 1) % 8))) % 2
\* The passes of Remainder over them.
BitPasses(buf) == [n \in 1..(8 * Len(buf)) |-> [v \in Word16 |-> ShiftIn(v, BitOf(buf, n))]]

LEMMA ShiftInType == ASSUME NEW v \in Word16, NEW c PROVE ShiftIn(v, c) \in Word16
<1>1. v \in Nat /\ (v * 2) % 65536 \in Nat /\ (v * 2) % 65536 <= 65535
  BY WordRange
<1>2. (v * 2) % 65536 \in Word16
  BY <1>1, WordRange
<1>3. Xor16((v * 2) % 65536, 4129) \in Word16
  BY <1>1, Xor16Type
<1>. QED  BY <1>2, <1>3 DEF ShiftIn

LEMMA TwoTo == ASSUME NEW m \in 0..7 PROVE 2^m \in {1, 2, 4, 8, 16, 32, 64, 128}
<1>1. CASE m = 0
  <2>1. 2^m = 1
    BY <1>1
  <2>. QED  BY <2>1
<1>2. CASE m = 1
  <2>1. 2^m = 2
    BY <1>2
  <2>. QED  BY <2>1
<1>3. CASE m = 2
  <2>1. 2^m = 4
    BY <1>3
  <2>. QED  BY <2>1
<1>4. CASE m = 3
  <2>1. 2^m = 8
    BY <1>4
  <2>. QED  BY <2>1
<1>5. CASE m = 4
  <2>1. 2^m = 16
    BY <1>5
  <2>. QED  BY <2>1
<1>6. CASE m = 5
  <2>1. 2^m = 32
    BY <1>6
  <2>. QED  BY <2>1
<1>7. CASE m = 6
  <2>1. 2^m = 64
    BY <1>7
  <2>. QED  BY <2>1
<1>8. CASE m = 7
  <2>1. 2^m = 128
    BY <1>8
  <2>. QED  BY <2>1
<1>. QED  BY <1>1, <1>2, <1>3, <1>4, <1>5, <1>6, <1>7, <1>8

\* A bit is one, and the pass it makes is the one of ShiftIn.
LEMMA BitPassesFacts ==
  ASSUME NEW buf \in Seq(Byte)
  PROVE  /\ 8 * Len(buf) \in Nat
         /\ \A n \in 1..(8 * Len(buf)) : \A v \in Word16 :
              /\ BitPasses(buf)[n][v] = ShiftIn(v, BitOf(buf, n))
              /\ ShiftPass[v][BitOf(buf, n)] = ShiftIn(v, BitOf(buf, n))
              /\ ShiftIn(v, BitOf(buf, n)) \in Word16
<1>1. Len(buf) \in Nat
  OBVIOUS
<1>2. \A n \in 1..(8 * Len(buf)) : BitOf(buf, n) \in 0..1
  <2>1. SUFFICES ASSUME NEW n \in 1..(8 * Len(buf)) PROVE BitOf(buf, n) \in 0..1
    OBVIOUS
  <2> DEFINE i == (n - 1) \div 8 + 1
             m == 7 - ((n - 1) % 8)
  <2>2. i \in 1..Len(buf) /\ m \in 0..7
    BY ONLY <1>1, n \in 1..(8 * Len(buf))
  <2>3. buf[i] \in Nat
    BY <2>2, ByteRange
  <2>4. 2^m \in {1, 2, 4, 8, 16, 32, 64, 128}
    BY ONLY <2>2, TwoTo
  <2>5. PICK q : q = buf[i] \div 2^m
    OBVIOUS
  <2>6. q \in Nat
    BY ONLY <2>3, <2>4, <2>5
  <2>7. q % 2 \in 0..1
    BY ONLY <2>6
  <2>. QED  BY ONLY <2>5, <2>7 DEF BitOf
<1>3. \A n \in 1..(8 * Len(buf)) : \A v \in Word16 :
        ShiftPass[v][BitOf(buf, n)] = ShiftIn(v, BitOf(buf, n))
  BY <1>2 DEF ShiftPass
<1>4. \A n \in 1..(8 * Len(buf)) : \A v \in Word16 :
        BitPasses(buf)[n][v] = ShiftIn(v, BitOf(buf, n)) /\ ShiftIn(v, BitOf(buf, n)) \in Word16
  BY ShiftInType DEF BitPasses
<1>. QED  BY <1>1, <1>3, <1>4

\* Remainder is that loop, and its register stays in 16 bits.
LEMMA RemainderLoops ==
  ASSUME NEW buf \in Seq(Byte)
  PROVE  \E f : /\ Loops(f, 8 * Len(buf), 0, BitPasses(buf))
                /\ Remainder(buf) = f[8 * Len(buf)]
                /\ \A n \in 0..(8 * Len(buf)) : f[n] \in Word16
<1> DEFINE N == 8 * Len(buf)
           BitAt(i) == (buf[(i - 1) \div 8 + 1] \div 2^(7 - ((i - 1) % 8))) % 2
           Unrolled(f) == f = [i \in 0..N |-> IF i = 0 THEN 0 ELSE ShiftPass[f[i - 1]][BitAt(i)]]
<1>0. \A i : BitAt(i) = BitOf(buf, i)
  BY DEF BitOf
<1>1. N \in Nat /\ 0 \in Word16 /\ N \in 0..N
  BY WordRange, BitPassesFacts
<1>2. \A n \in 1..N : \A v \in Word16 :
        BitPasses(buf)[n][v] = ShiftPass[v][BitAt(n)] /\ BitPasses(buf)[n][v] \in Word16
  BY <1>0, BitPassesFacts, SMTT(30)
<1>3. PICK g : Loops(g, N, 0, BitPasses(buf))
  BY <1>1, LoopsDefined
<1> HIDE DEF BitAt
<1>4. \A n \in 0..N : g[n] \in Word16
  BY <1>1, <1>2, <1>3, LoopsTyped DEF Keeps
<1>5. Unrolled(g)
  <2>1. ASSUME NEW n \in 0..N, n # 0 PROVE BitPasses(buf)[n][g[n - 1]] = ShiftPass[g[n - 1]][BitAt(n)]
    <3>1. n \in 1..N /\ n - 1 \in 0..N
      BY <1>1, <2>1
    <3>. QED  BY <1>2, <1>4, <3>1
  <2>2. [n \in 0..N |-> IF n = 0 THEN 0 ELSE BitPasses(buf)[n][g[n - 1]]]
        = [n \in 0..N |-> IF n = 0 THEN 0 ELSE ShiftPass[g[n - 1]][BitAt(n)]]
    BY ONLY <2>1
  <2>. QED  BY <1>3, <2>2, Zenon DEF Loops
<1> DEFINE f == CHOOSE h : Unrolled(h)
<1>6. Unrolled(f)
  BY <1>5, Zenon
<1>7. Remainder(buf) = f[N]
  BY Zenon DEF Remainder, BitAt
<1> HIDE DEF f
<1>8. /\ f = [n \in 0..N |-> f[n]] /\ f[0] = 0
      /\ \A n \in 1..N : f[n] = ShiftPass[f[n - 1]][BitAt(n)]
  BY <1>1, <1>6, SMTT(30)
<1>9. \A n \in 1..N : f[n - 1] \in Word16 => f[n] = BitPasses(buf)[n][f[n - 1]]
  BY <1>2, <1>8
<1>10. Loops(f, N, 0, BitPasses(buf)) /\ \A n \in 0..N : f[n] \in Word16
  <2>1. Keeps(BitPasses(buf), N, Word16)
    BY <1>2 DEF Keeps
  <2>2. Follows(f, N, BitPasses(buf), Word16)
    BY <1>8, <1>9 DEF Follows
  <2>3. N \in Nat /\ 0 \in Word16 /\ f[0] = 0
    BY <1>1, <1>8
  <2> HIDE DEF N
  <2>. QED  BY ONLY <2>1, <2>2, <2>3, LoopsMeet
<1>. QED  BY <1>7, <1>10

LEMMA ByteBits ==
  ASSUME NEW byte \in Byte
  PROVE  \E y \in Octets : byte = Octet(y)
<1>1. byte \in 0..255
  BY ByteRange
<1>. QED  BY <1>1, OctetOf

LEMMA ShiftedBitOf ==
  ASSUME NEW y \in Octets, NEW m \in 0..7
  PROVE  (Octet(y) \div 2^m) % 2 = y[m]
<1>1. PICK o : o = Octet(y)
  OBVIOUS
<1>2. /\ (o \div 1) % 2 = y[0] /\ (o \div 2) % 2 = y[1] /\ (o \div 4) % 2 = y[2]
      /\ (o \div 8) % 2 = y[3] /\ (o \div 16) % 2 = y[4] /\ (o \div 32) % 2 = y[5]
      /\ (o \div 64) % 2 = y[6] /\ (o \div 128) % 2 = y[7]
  BY <1>1, OctetDivs
<1>3. CASE m = 0
  <2>1. 2^m = 1
    BY <1>3
  <2>. QED  BY <1>1, <1>2, <1>3, <2>1
<1>4. CASE m = 1
  <2>1. 2^m = 2
    BY <1>4
  <2>. QED  BY <1>1, <1>2, <1>4, <2>1
<1>5. CASE m = 2
  <2>1. 2^m = 4
    BY <1>5
  <2>. QED  BY <1>1, <1>2, <1>5, <2>1
<1>6. CASE m = 3
  <2>1. 2^m = 8
    BY <1>6
  <2>. QED  BY <1>1, <1>2, <1>6, <2>1
<1>7. CASE m = 4
  <2>1. 2^m = 16
    BY <1>7
  <2>. QED  BY <1>1, <1>2, <1>7, <2>1
<1>8. CASE m = 5
  <2>1. 2^m = 32
    BY <1>8
  <2>. QED  BY <1>1, <1>2, <1>8, <2>1
<1>9. CASE m = 6
  <2>1. 2^m = 64
    BY <1>9
  <2>. QED  BY <1>1, <1>2, <1>9, <2>1
<1>10. CASE m = 7
  <2>1. 2^m = 128
    BY <1>10
  <2>. QED  BY <1>1, <1>2, <1>10, <2>1
<1>. QED  BY <1>3, <1>4, <1>5, <1>6, <1>7, <1>8, <1>9, <1>10

\* A byte more is eight bits more.
LEMMA BitOfAppend ==
  ASSUME NEW buf \in Seq(Byte), NEW byte \in Byte
  PROVE  /\ \A n \in 1..(8 * Len(buf)) : BitOf(Append(buf, byte), n) = BitOf(buf, n)
         /\ \A k \in 0..7 : BitOf(Append(buf, byte), 8 * Len(buf) + k + 1) = (byte \div 2^(7 - k)) % 2
<1> DEFINE b == Append(buf, byte)
           L == Len(buf)
<1>1. L \in Nat /\ b[L + 1] = byte /\ \A i \in 1..L : b[i] = buf[i]
  OBVIOUS
<1> HIDE DEF b, L
<1>2. ASSUME NEW n \in 1..(8 * L) PROVE BitOf(b, n) = BitOf(buf, n)
  <2>1. (n - 1) \div 8 + 1 \in 1..L
    BY <1>1
  <2>. QED  BY <1>1, <2>1 DEF BitOf
<1>3. ASSUME NEW k \in 0..7 PROVE BitOf(b, 8 * L + k + 1) = (byte \div 2^(7 - k)) % 2
  <2> DEFINE n == 8 * L + k + 1
  <2>1. (n - 1) \div 8 + 1 = L + 1 /\ (n - 1) % 8 = k
    BY <1>1
  <2> HIDE DEF n
  <2>2. BitOf(b, n) = (byte \div 2^(7 - k)) % 2
    BY ONLY <1>1, <2>1 DEF BitOf
  <2>. QED  BY <2>2 DEF n
<1>. QED  BY <1>2, <1>3 DEF b, L

\* Remainder takes a byte as nano_net_crc16 does.
LEMMA RemainderAppend ==
  ASSUME NEW buf \in Seq(Byte), NEW byte \in Byte
  PROVE  /\ Remainder(Append(buf, byte)) = CrcStep(Remainder(buf), byte)
         /\ Remainder(buf) \in Word16
<1> DEFINE b == Append(buf, byte)
           N == 8 * Len(buf)
<1>0. PICK y \in Octets : byte = Octet(y)
  BY ByteBits
<1>1. b \in Seq(Byte) /\ 8 * Len(b) = N + 8 /\ N \in Nat
  OBVIOUS
<1>b. /\ \A n \in 1..N : BitOf(b, n) = BitOf(buf, n)
      /\ \A k \in 0..7 : BitOf(b, N + k + 1) = y[7 - k]
  <2>1. \A k \in 0..7 : (byte \div 2^(7 - k)) % 2 = y[7 - k]
    <3>1. \A k \in 0..7 : 7 - k \in 0..7
      OBVIOUS
    <3>. QED  BY <1>0, <3>1, ShiftedBitOf
  <2>. QED  BY <2>1, BitOfAppend
<1> HIDE DEF b
<1>2. PICK f : /\ Loops(f, N, 0, BitPasses(buf)) /\ Remainder(buf) = f[N]
               /\ \A n \in 0..N : f[n] \in Word16
  BY RemainderLoops
<1>3. PICK g : /\ Loops(g, N + 8, 0, BitPasses(b)) /\ Remainder(b) = g[N + 8]
               /\ \A n \in 0..(N + 8) : g[n] \in Word16
  BY <1>1, RemainderLoops
<1> HIDE DEF N
<1>4. \A n \in 1..N : BitPasses(buf)[n] = BitPasses(b)[n]
  <2>1. \A n \in 1..N : n \in 1..(N + 8)
    BY <1>1
  <2>. QED  BY <1>1, <1>b, <2>1 DEF BitPasses, N
<1>5. f[N] = g[N]
  <2>1. N <= N + 8 /\ N + 8 \in Nat
    BY <1>1
  <2>. QED  BY ONLY <1>1, <1>2, <1>3, <1>4, <2>1, LoopsAgree
<1>6. ASSUME NEW k \in 0..7 PROVE g[N + k + 1] = ShiftIn(g[N + k], y[7 - k])
  <2>1. /\ N + 8 \in Nat /\ N + k + 1 \in 1..(N + 8) /\ N + k \in 0..(N + 8)
        /\ (N + k + 1) - 1 = N + k
    BY <1>1
  <2>2. g[N + k + 1] = BitPasses(b)[N + k + 1][g[(N + k + 1) - 1]]
    BY ONLY <1>3, <2>1, LoopsFacts
  <2>3. g[N + k] \in Word16
    BY <1>3, <2>1
  <2>4. BitPasses(b)[N + k + 1][g[N + k]] = ShiftIn(g[N + k], BitOf(b, N + k + 1))
    BY <1>1, <2>1, <2>3 DEF BitPasses
  <2>. QED  BY <1>b, <2>1, <2>2, <2>4
<1> DEFINE s == [k \in 0..8 |-> g[N + k]]
<1>7. s[0] = f[N] /\ s[8] = g[N + 8] /\ \A k \in 0..7 : s[k + 1] = ShiftIn(s[k], y[7 - k])
  <2>1. N + 0 = N
    BY <1>1
  <2>2. \A k \in 0..7 : k \in 0..8 /\ k + 1 \in 0..8 /\ N + (k + 1) = N + k + 1
    BY <1>1
  <2>. QED  BY <1>5, <1>6, <2>1, <2>2
<1>8. f[N] \in Word16
  BY <1>1, <1>2
<1> HIDE DEF s
<1>9. s[8] = CrcStep(f[N], Octet(y))
  BY ONLY <1>7, <1>8, <1>0, EightShifts
<1>. QED  BY <1>0, <1>2, <1>3, <1>7, <1>8, <1>9 DEF b

LEMMA RemainderEmpty == Remainder(<<>>) = 0
<1>1. <<>> \in Seq(Byte) /\ 8 * Len(<<>>) = 0
  OBVIOUS
<1>2. PICK f : Loops(f, 0, 0, BitPasses(<<>>)) /\ Remainder(<<>>) = f[0]
  BY <1>1, RemainderLoops
<1>. QED  BY <1>2, LoopsFacts

\* A prefix that is not empty is the one before it and a byte.
LEMMA Prefixes ==
  ASSUME NEW buf \in Seq(Byte)
  PROVE  /\ SubSeq(buf, 1, 0) = <<>> /\ SubSeq(buf, 1, Len(buf)) = buf
         /\ \A n \in 0..Len(buf) : SubSeq(buf, 1, n) \in Seq(Byte) /\ Len(SubSeq(buf, 1, n)) = n
         /\ \A n \in 1..Len(buf) : /\ buf[n] \in Byte
                                   /\ SubSeq(buf, 1, n) = Append(SubSeq(buf, 1, n - 1), buf[n])
<1>1. ASSUME NEW n \in 0..Len(buf)
      PROVE  /\ SubSeq(buf, 1, n) \in Seq(Byte) /\ Len(SubSeq(buf, 1, n)) = n
             /\ \A i \in 1..n : SubSeq(buf, 1, n)[i] = buf[i]
  <2>1. n \in Nat /\ \A i \in 1..n : i \in 1..Len(buf)
    OBVIOUS
  <2>2. \A i \in 1..n : buf[i] \in Byte
    BY <2>1
  <2>. QED  BY <2>1, <2>2, SubSeqProperties
<1>2. SubSeq(buf, 1, 0) = <<>> /\ SubSeq(buf, 1, Len(buf)) = buf
  <2> DEFINE e == SubSeq(buf, 1, 0)
             f == SubSeq(buf, 1, Len(buf))
  <2>1. 0 \in 0..Len(buf) /\ Len(buf) \in 0..Len(buf)
    OBVIOUS
  <2>2. e \in Seq(Byte) /\ Len(e) = 0
    BY <1>1, <2>1
  <2>3. f \in Seq(Byte) /\ Len(f) = Len(buf) /\ \A i \in 1..Len(buf) : f[i] = buf[i]
    BY <1>1, <2>1
  <2> HIDE DEF e, f
  <2>4. e = <<>>
    BY <2>2
  <2>5. f = buf
    BY <2>3
  <2>. QED  BY <2>4, <2>5 DEF e, f
<1>3. ASSUME NEW n \in 1..Len(buf)
      PROVE  buf[n] \in Byte /\ SubSeq(buf, 1, n) = Append(SubSeq(buf, 1, n - 1), buf[n])
  <2> DEFINE p == SubSeq(buf, 1, n - 1)
             q == SubSeq(buf, 1, n)
  <2>1. n - 1 \in 0..Len(buf) /\ n \in 0..Len(buf) /\ buf[n] \in Byte
    OBVIOUS
  <2>2. p \in Seq(Byte) /\ Len(p) = n - 1 /\ \A i \in 1..(n - 1) : p[i] = buf[i]
    BY <1>1, <2>1
  <2>3. q \in Seq(Byte) /\ Len(q) = n /\ \A i \in 1..n : q[i] = buf[i]
    BY <1>1, <2>1
  <2> HIDE DEF p, q
  <2>4. \A i \in 1..n : q[i] = Append(p, buf[n])[i]
    BY <2>1, <2>2, <2>3
  <2>5. q = Append(p, buf[n])
    BY <2>1, <2>2, <2>3, <2>4
  <2>. QED  BY <2>1, <2>5 DEF p, q
<1>. QED  BY <1>1, <1>2, <1>3

(* The table-driven loop computes, for every buffer, the remainder of the  *)
(* message times x^16 by x^16 + x^12 + x^5 + 1.                            *)
THEOREM CrcIsRemainder ==
  \A buf \in Seq(Byte) : nano_net_crc16(buf) = Remainder(buf)
<1> DEFINE S == {n \in Nat : \A buf \in Seq(Byte) :
                               Len(buf) = n => nano_net_crc16(buf) = Remainder(buf)}
<1>1. 0 \in S
  <2>1. \A buf \in Seq(Byte) : Len(buf) = 0 => buf = <<>>
    OBVIOUS
  <2>. QED  BY <2>1, CrcEmpty, RemainderEmpty
<1>2. ASSUME NEW n \in Nat, n \in S PROVE n + 1 \in S
  <2>1. SUFFICES ASSUME NEW buf \in Seq(Byte), Len(buf) = n + 1
                 PROVE  nano_net_crc16(buf) = Remainder(buf)
    OBVIOUS
  <2> DEFINE front == SubSeq(buf, 1, n)
             byte == buf[n + 1]
  <2>2. front \in Seq(Byte) /\ Len(front) = n /\ byte \in Byte /\ buf = Append(front, byte)
    <3>1. n + 1 \in 1..Len(buf) /\ n \in 0..Len(buf) /\ (n + 1) - 1 = n
      BY <2>1
    <3>2. SubSeq(buf, 1, n + 1) = Append(SubSeq(buf, 1, (n + 1) - 1), buf[n + 1])
      BY <3>1, Prefixes
    <3>. QED  BY <2>1, <3>1, <3>2, Prefixes
  <2> HIDE DEF front, byte
  <2>3. nano_net_crc16(front) = Remainder(front)
    BY <1>2, <2>2
  <2>. QED  BY <2>2, <2>3, CrcAppend, RemainderAppend
<1> HIDE DEF S
<1>3. Nat \subseteq S
  BY <1>1, <1>2, Induct
<1>. QED  BY <1>3 DEF S

\* The nine passes over "123456789".
LEMMA DigitSteps ==
  /\ CrcStep(0, 49) = 9842
  /\ CrcStep(9842, 50) = 8373
  /\ CrcStep(8373, 51) = 38738
  /\ CrcStep(38738, 52) = 55177
  /\ CrcStep(55177, 53) = 21612
  /\ CrcStep(21612, 54) = 8420
  /\ CrcStep(8420, 55) = 34518
  /\ CrcStep(34518, 56) = 36885
  /\ CrcStep(36885, 57) = 12739
<1>1. CrcStep(0, 49) = 9842
  <2>1. Xor8(0 \div 256, 49) = 49
    BY DEF Xor8, XorBit
  <2>2. crc16tab[50] = 9842
    BY DEF crc16tab
  <2>3. Xor16((0 * 256) % 65536, 9842) = 9842
    BY DEF Xor16, Xor8, XorBit
  <2>. QED  BY <2>1, <2>2, <2>3 DEF CrcStep
<1>2. CrcStep(9842, 50) = 8373
  <2>1. Xor8(9842 \div 256, 50) = 20
    BY DEF Xor8, XorBit
  <2>2. crc16tab[21] = 21173
    BY DEF crc16tab
  <2>3. Xor16((9842 * 256) % 65536, 21173) = 8373
    BY DEF Xor16, Xor8, XorBit
  <2>. QED  BY <2>1, <2>2, <2>3 DEF CrcStep
<1>3. CrcStep(8373, 51) = 38738
  <2>1. Xor8(8373 \div 256, 51) = 19
    BY DEF Xor8, XorBit
  <2>2. crc16tab[20] = 8786
    BY DEF crc16tab
  <2>3. Xor16((8373 * 256) % 65536, 8786) = 38738
    BY DEF Xor16, Xor8, XorBit
  <2>. QED  BY <2>1, <2>2, <2>3 DEF CrcStep
<1>4. CrcStep(38738, 52) = 55177
  <2>1. Xor8(38738 \div 256, 52) = 163
    BY DEF Xor8, XorBit
  <2>2. crc16tab[164] = 34185
    BY DEF crc16tab
  <2>3. Xor16((38738 * 256) % 65536, 34185) = 55177
    BY DEF Xor16, Xor8, XorBit
  <2>. QED  BY <2>1, <2>2, <2>3 DEF CrcStep
<1>5. CrcStep(55177, 53) = 21612
  <2>1. Xor8(55177 \div 256, 53) = 226
    BY DEF Xor8, XorBit
  <2>2. crc16tab[227] = 56684
    BY DEF crc16tab
  <2>3. Xor16((55177 * 256) % 65536, 56684) = 21612
    BY DEF Xor16, Xor8, XorBit
  <2>. QED  BY <2>1, <2>2, <2>3 DEF CrcStep
<1>6. CrcStep(21612, 54) = 8420
  <2>1. Xor8(21612 \div 256, 54) = 98
    BY DEF Xor8, XorBit
  <2>2. crc16tab[99] = 19684
    BY DEF crc16tab
  <2>3. Xor16((21612 * 256) % 65536, 19684) = 8420
    BY DEF Xor16, Xor8, XorBit
  <2>. QED  BY <2>1, <2>2, <2>3 DEF CrcStep
<1>7. CrcStep(8420, 55) = 34518
  <2>1. Xor8(8420 \div 256, 55) = 23
    BY DEF Xor8, XorBit
  <2>2. crc16tab[24] = 25302
    BY DEF crc16tab
  <2>3. Xor16((8420 * 256) % 65536, 25302) = 34518
    BY DEF Xor16, Xor8, XorBit
  <2>. QED  BY <2>1, <2>2, <2>3 DEF CrcStep
<1>8. CrcStep(34518, 56) = 36885
  <2>1. Xor8(34518 \div 256, 56) = 190
    BY DEF Xor8, XorBit
  <2>2. crc16tab[191] = 17941
    BY DEF crc16tab
  <2>3. Xor16((34518 * 256) % 65536, 17941) = 36885
    BY DEF Xor16, Xor8, XorBit
  <2>. QED  BY <2>1, <2>2, <2>3 DEF CrcStep
<1>9. CrcStep(36885, 57) = 12739
  <2>1. Xor8(36885 \div 256, 57) = 169
    BY DEF Xor8, XorBit
  <2>2. crc16tab[170] = 9411
    BY DEF crc16tab
  <2>3. Xor16((36885 * 256) % 65536, 9411) = 12739
    BY DEF Xor16, Xor8, XorBit
  <2>. QED  BY <2>1, <2>2, <2>3 DEF CrcStep
<1>. QED  BY <1>1, <1>2, <1>3, <1>4, <1>5, <1>6, <1>7, <1>8, <1>9

LEMMA DigitsChecksum == nano_net_crc16(Digits) = 12739
<1> DEFINE d == [n \in 0..9 |-> SubSeq(Digits, 1, n)]
<1>0. ASSUME NEW n \in 1..9
      PROVE  d[n - 1] \in Seq(Byte) /\ Digits[n] \in Byte /\ d[n] = Append(d[n - 1], Digits[n])
  <2>1. Len(Digits) = 9 /\ n - 1 \in 0..9 /\ n \in 0..9
    BY DEF Digits
  <2>. QED  BY <2>1, DigitsTyped, Prefixes
<1>1. d[0] = <<>> /\ d[9] = Digits
  <2>1. Len(Digits) = 9
    BY DEF Digits
  <2>. QED  BY <2>1, DigitsTyped, Prefixes
<1> HIDE DEF d
<1>2. ASSUME NEW n \in 1..9
      PROVE  nano_net_crc16(d[n]) = CrcStep(nano_net_crc16(d[n - 1]), 48 + n)
  <2>1. Digits[n] = 48 + n
    BY DEF Digits
  <2>. QED  BY <1>0, <2>1, CrcAppend
<1>3. nano_net_crc16(d[1]) = 9842
  <2>1. nano_net_crc16(d[1]) = CrcStep(nano_net_crc16(d[0]), 49)
    <3>1. nano_net_crc16(d[1]) = CrcStep(nano_net_crc16(d[1 - 1]), 48 + 1)
      BY <1>2
    <3>. QED  BY <3>1
  <2>. QED  BY <1>1, CrcEmpty, <2>1, DigitSteps
<1>4. nano_net_crc16(d[2]) = 8373
  <2>1. nano_net_crc16(d[2]) = CrcStep(nano_net_crc16(d[1]), 50)
    <3>1. nano_net_crc16(d[2]) = CrcStep(nano_net_crc16(d[2 - 1]), 48 + 2)
      BY <1>2
    <3>. QED  BY <3>1
  <2>. QED  BY <1>3, <2>1, DigitSteps
<1>5. nano_net_crc16(d[3]) = 38738
  <2>1. nano_net_crc16(d[3]) = CrcStep(nano_net_crc16(d[2]), 51)
    <3>1. nano_net_crc16(d[3]) = CrcStep(nano_net_crc16(d[3 - 1]), 48 + 3)
      BY <1>2
    <3>. QED  BY <3>1
  <2>. QED  BY <1>4, <2>1, DigitSteps
<1>6. nano_net_crc16(d[4]) = 55177
  <2>1. nano_net_crc16(d[4]) = CrcStep(nano_net_crc16(d[3]), 52)
    <3>1. nano_net_crc16(d[4]) = CrcStep(nano_net_crc16(d[4 - 1]), 48 + 4)
      BY <1>2
    <3>. QED  BY <3>1
  <2>. QED  BY <1>5, <2>1, DigitSteps
<1>7. nano_net_crc16(d[5]) = 21612
  <2>1. nano_net_crc16(d[5]) = CrcStep(nano_net_crc16(d[4]), 53)
    <3>1. nano_net_crc16(d[5]) = CrcStep(nano_net_crc16(d[5 - 1]), 48 + 5)
      BY <1>2
    <3>. QED  BY <3>1
  <2>. QED  BY <1>6, <2>1, DigitSteps
<1>8. nano_net_crc16(d[6]) = 8420
  <2>1. nano_net_crc16(d[6]) = CrcStep(nano_net_crc16(d[5]), 54)
    <3>1. nano_net_crc16(d[6]) = CrcStep(nano_net_crc16(d[6 - 1]), 48 + 6)
      BY <1>2
    <3>. QED  BY <3>1
  <2>. QED  BY <1>7, <2>1, DigitSteps
<1>9. nano_net_crc16(d[7]) = 34518
  <2>1. nano_net_crc16(d[7]) = CrcStep(nano_net_crc16(d[6]), 55)
    <3>1. nano_net_crc16(d[7]) = CrcStep(nano_net_crc16(d[7 - 1]), 48 + 7)
      BY <1>2
    <3>. QED  BY <3>1
  <2>. QED  BY <1>8, <2>1, DigitSteps
<1>10. nano_net_crc16(d[8]) = 36885
  <2>1. nano_net_crc16(d[8]) = CrcStep(nano_net_crc16(d[7]), 56)
    <3>1. nano_net_crc16(d[8]) = CrcStep(nano_net_crc16(d[8 - 1]), 48 + 8)
      BY <1>2
    <3>. QED  BY <3>1
  <2>. QED  BY <1>9, <2>1, DigitSteps
<1>11. nano_net_crc16(d[9]) = 12739
  <2>1. nano_net_crc16(d[9]) = CrcStep(nano_net_crc16(d[8]), 57)
    <3>1. nano_net_crc16(d[9]) = CrcStep(nano_net_crc16(d[9 - 1]), 48 + 9)
      BY <1>2
    <3>. QED  BY <3>1
  <2>. QED  BY <1>10, <2>1, DigitSteps
<1>. QED  BY <1>1, <1>11

(* nano_net_crc16 is CRC-16/XMODEM, and gives 31C3 for "123456789": what   *)
(* its header comment names.                                               *)
THEOREM CrcIsXmodem == CrcSpec => []XmodemChecksum
<1>1. CrcTyped => XmodemChecksum
  BY CrcIsRemainder, DigitsChecksum DEF CrcTyped, XmodemChecksum
<1>. QED  BY <1>1, CrcTypedInit, CrcTypedStep, PTL DEF CrcSpec

-----------------------------------------------------------------------------
(* pack(): what it writes for a package on its own, and in a batch.        *)

Body(pkg) == Header(pkg) \o PayloadOf(pkg)
Frame(pkg) == Body(pkg) \o CrcBytes(nano_net_crc16(Body(pkg)))

\* The fields of a package that may be packed.
LEMMA PackableFields ==
  ASSUME NEW pkg, Packable(pkg)
  PROVE  /\ pkg.sender_host_id \in Byte /\ pkg.target_host_id \in Byte
         /\ pkg.msg_id \in Word16 /\ pkg.data_len \in Word16 /\ pkg.seq \in Byte
         /\ pkg.need_ack \in 0..1 /\ pkg.is_ack \in 0..1 /\ pkg.forword_cnt \in 0..15
         /\ PayloadOf(pkg) \in Seq(Byte) /\ Len(PayloadOf(pkg)) \in {0, pkg.data_len}
         /\ Carried(pkg) =
              [sender_host_id |-> pkg.sender_host_id, target_host_id |-> pkg.target_host_id,
               msg_id |-> pkg.msg_id, data_len |-> pkg.data_len, seq |-> pkg.seq,
               need_ack |-> pkg.need_ack, is_ack |-> pkg.is_ack,
               forword_cnt |-> pkg.forword_cnt, data |-> PayloadOf(pkg)]
<1> DEFINE q == Carried(pkg)
           payload == PayloadOf(pkg)
<1>1. q \in Packages /\ Len(payload) \in {0, pkg.data_len}
  BY DEF Packable
<1>2. q = [pkg EXCEPT !.data = payload]
  BY DEF Carried
<1> HIDE DEF q, payload
<1>3. /\ q.sender_host_id \in Byte /\ q.target_host_id \in Byte
      /\ q.msg_id \in Word16 /\ q.data_len \in Word16 /\ q.seq \in Byte
      /\ q.need_ack \in 0..1 /\ q.is_ack \in 0..1 /\ q.forword_cnt \in 0..15
      /\ q.data \in Seq(Byte)
      /\ q = [sender_host_id |-> q.sender_host_id, target_host_id |-> q.target_host_id,
              msg_id |-> q.msg_id, data_len |-> q.data_len, seq |-> q.seq,
              need_ack |-> q.need_ack, is_ack |-> q.is_ack,
              forword_cnt |-> q.forword_cnt, data |-> q.data]
  BY ONLY <1>1 DEF Packages
<1>4. DOMAIN q = {"sender_host_id", "target_host_id", "msg_id", "data_len", "seq",
                  "need_ack", "is_ack", "forword_cnt", "data"}
  BY ONLY <1>3
<1>5. DOMAIN pkg = DOMAIN q
  BY ONLY <1>2
<1>6. /\ q.sender_host_id = pkg.sender_host_id /\ q.target_host_id = pkg.target_host_id
      /\ q.msg_id = pkg.msg_id /\ q.data_len = pkg.data_len /\ q.seq = pkg.seq
      /\ q.need_ack = pkg.need_ack /\ q.is_ack = pkg.is_ack
      /\ q.forword_cnt = pkg.forword_cnt /\ q.data = payload
  BY ONLY <1>2, <1>4, <1>5
<1>. QED  BY <1>1, <1>3, <1>6 DEF q, payload

\* The high and the low byte of a word are bytes, and make the word.
LEMMA WordBytes ==
  ASSUME NEW w \in Word16
  PROVE  w \div 256 \in Byte /\ w % 256 \in Byte /\ 256 * (w \div 256) + (w % 256) = w
<1>1. w \in Nat /\ w <= 65535
  BY WordRange
<1>2. /\ w \div 256 \in Nat /\ w \div 256 <= 255 /\ w % 256 \in Nat /\ w % 256 <= 255
      /\ 256 * (w \div 256) + (w % 256) = w
  BY ONLY <1>1
<1>. QED  BY <1>2, ByteRange

\* The flags and the number of forwards share a byte, and are read back from it.
LEMMA FlagBits ==
  ASSUME NEW a \in 0..1, NEW b \in 0..1, NEW c \in 0..15
  PROVE  /\ a + 2 * b + 4 * c \in Byte
         /\ (a + 2 * b + 4 * c) % 2 = a
         /\ ((a + 2 * b + 4 * c) \div 2) % 2 = b
         /\ ((a + 2 * b + 4 * c) \div 4) % 16 = c
<1>1. PICK x : x = a + 2 * b + 4 * c
  OBVIOUS
<1>2. x \in Nat /\ x <= 63
  BY ONLY <1>1
<1>3. x % 2 = a /\ x \div 2 = b + 2 * c /\ x \div 4 = c
  BY ONLY <1>1
<1>4. (b + 2 * c) % 2 = b /\ c % 16 = c
  OBVIOUS
<1>. QED  BY ONLY <1>1, <1>2, <1>3, <1>4, ByteRange

LEMMA HeaderBytes ==
  ASSUME NEW pkg, Packable(pkg)
  PROVE  Header(pkg) \in Seq(Byte) /\ Len(Header(pkg)) = 12
<1>1. /\ pkg.msg_id \div 256 \in Byte /\ pkg.msg_id % 256 \in Byte
      /\ pkg.data_len \div 256 \in Byte /\ pkg.data_len % 256 \in Byte
  BY PackableFields, WordBytes
<1>2. pkg.need_ack + 2 * pkg.is_ack + 4 * pkg.forword_cnt \in Byte
  BY PackableFields, FlagBits
<1>3. 0 \in Byte /\ MAGIC_1 \in Byte /\ MAGIC_2 \in Byte
  BY ByteRange DEF MAGIC_1, MAGIC_2
<1>4. pkg.sender_host_id \in Byte /\ pkg.target_host_id \in Byte /\ pkg.seq \in Byte
  BY PackableFields
<1>. QED  BY ONLY <1>1, <1>2, <1>3, <1>4 DEF Header

LEMMA BodyBytes ==
  ASSUME NEW pkg, Packable(pkg)
  PROVE  /\ Body(pkg) \in Seq(Byte) /\ Len(Body(pkg)) = 12 + Len(PayloadOf(pkg))
         /\ Len(PayloadOf(pkg)) \in Nat
         /\ \A i \in 1..12 : Body(pkg)[i] = Header(pkg)[i]
         /\ \A i \in 1..Len(PayloadOf(pkg)) : Body(pkg)[12 + i] = PayloadOf(pkg)[i]
<1> DEFINE h == Header(pkg)
           p == PayloadOf(pkg)
<1>1. h \in Seq(Byte) /\ Len(h) = 12 /\ p \in Seq(Byte) /\ Len(p) \in Nat
  BY HeaderBytes, PackableFields
<1> HIDE DEF h, p
<1>2. /\ h \o p \in Seq(Byte) /\ Len(h \o p) = 12 + Len(p)
      /\ \A i \in 1..12 : (h \o p)[i] = h[i]
      /\ \A i \in 1..Len(p) : (h \o p)[12 + i] = p[i]
  <2>1. /\ h \o p \in Seq(Byte) /\ Len(h \o p) = 12 + Len(p)
        /\ \A i \in 1..(12 + Len(p)) : (h \o p)[i] = IF i <= 12 THEN h[i] ELSE p[i - 12]
    <3>1. /\ h \o p \in Seq(Byte) /\ Len(h \o p) = Len(h) + Len(p)
          /\ \A i \in 1..Len(h) + Len(p) :
               (h \o p)[i] = IF i <= Len(h) THEN h[i] ELSE p[i - Len(h)]
      BY ONLY <1>1, ConcatProperties
    <3>. QED  BY ONLY <1>1, <3>1
  <2>2. ASSUME NEW i \in 1..Len(p) PROVE (h \o p)[12 + i] = p[i]
    <3>1. 12 + i \in 1..(12 + Len(p)) /\ ~(12 + i <= 12) /\ (12 + i) - 12 = i
      BY ONLY <1>1, <2>2
    <3>. QED  BY ONLY <2>1, <3>1
  <2>3. ASSUME NEW i \in 1..12 PROVE (h \o p)[i] = h[i]
    <3>1. i \in 1..(12 + Len(p)) /\ i <= 12
      BY ONLY <1>1, <2>3
    <3>. QED  BY ONLY <2>1, <3>1
  <2>. QED  BY ONLY <2>1, <2>2, <2>3
<1>. QED  BY <1>1, <1>2 DEF Body, h, p

\* A frame: what comes first, what comes last.
LEMMA FrameBytes ==
  ASSUME NEW pkg, Packable(pkg)
  PROVE  /\ Frame(pkg) \in Seq(Byte) /\ Len(Frame(pkg)) = 14 + Len(PayloadOf(pkg))
         /\ nano_net_crc16(Frame(pkg)) = 0
         /\ SubSeq(Frame(pkg), 1, 12 + Len(PayloadOf(pkg))) = Body(pkg)
         /\ \A i \in 1..Len(Body(pkg)) : Frame(pkg)[i] = Body(pkg)[i]
         /\ 256 * Frame(pkg)[13 + Len(PayloadOf(pkg))] + Frame(pkg)[14 + Len(PayloadOf(pkg))]
              = nano_net_crc16(Body(pkg))
<1> DEFINE b == Body(pkg)
           crc == nano_net_crc16(b)
           n == Len(PayloadOf(pkg))
<1>1. b \in Seq(Byte) /\ Len(b) = 12 + n /\ n \in Nat
  BY BodyBytes
<1>2. crc \in Word16
  BY <1>1, CrcLoops
<1>3. PICK hi, lo : hi = crc \div 256 /\ lo = crc % 256
  OBVIOUS
<1>4. hi \in Byte /\ lo \in Byte /\ 256 * hi + lo = crc
  BY <1>2, <1>3, WordBytes
<1>5. CrcBytes(crc) = <<hi, lo>>
  BY <1>3 DEF CrcBytes
<1>6. nano_net_crc16(b \o CrcBytes(crc)) = 0
  BY <1>1, PacketResidue
<1>7. Frame(pkg) = b \o <<hi, lo>>
  BY <1>5 DEF Frame
<1> HIDE DEF b, crc, n
<1>8. /\ b \o <<hi, lo>> \in Seq(Byte) /\ Len(b \o <<hi, lo>>) = 14 + n
      /\ \A i \in 1..(12 + n) : (b \o <<hi, lo>>)[i] = b[i]
      /\ (b \o <<hi, lo>>)[13 + n] = hi /\ (b \o <<hi, lo>>)[14 + n] = lo
  BY ONLY <1>1, <1>4
<1>9. SubSeq(b \o <<hi, lo>>, 1, 12 + n) = b
  <2>1. PICK f : f = b \o <<hi, lo>>
    OBVIOUS
  <2>2. /\ f \in Seq(Byte) /\ Len(f) = 14 + n /\ \A i \in 1..(12 + n) : f[i] = b[i]
    BY ONLY <1>8, <2>1
  <2>3. /\ SubSeq(f, 1, 12 + n) \in Seq(Byte) /\ Len(SubSeq(f, 1, 12 + n)) = 12 + n
        /\ \A i \in 1..(12 + n) : SubSeq(f, 1, 12 + n)[i] = f[i]
    BY ONLY <1>1, <2>2
  <2>. QED  BY ONLY <1>1, <2>1, <2>2, <2>3
<1>. QED  BY <1>1, <1>4, <1>5, <1>6, <1>7, <1>8, <1>9 DEF b, crc, n

\* What is packed for a package is a frame, and the frame carries it.
LEMMA FrameCarries ==
  ASSUME NEW pkg, Packable(pkg), Whole(pkg)
  PROVE  IsFrame(Frame(pkg)) /\ FramePkg(Frame(pkg)) = Carried(pkg)
<1> DEFINE p == PayloadOf(pkg)
<1>1. PICK f, n : f = Frame(pkg) /\ n = pkg.data_len
  OBVIOUS
<1>2. Len(p) = n /\ n \in Nat /\ p \in Seq(Byte)
  BY <1>1, PackableFields, WordRange DEF Whole
<1>3. /\ f \in Seq(Byte) /\ Len(f) = 14 + n /\ SubSeq(f, 1, 12 + n) = Body(pkg)
      /\ 256 * f[13 + n] + f[14 + n] = nano_net_crc16(Body(pkg))
  BY <1>1, <1>2, FrameBytes, SMTT(30)
<1>4. \A i \in 1..12 : f[i] = Header(pkg)[i]
  <2>1. SUFFICES ASSUME NEW i \in 1..12 PROVE f[i] = Header(pkg)[i]
    OBVIOUS
  <2>2. i \in 1..Len(Body(pkg))
    BY <1>2, BodyBytes
  <2>. QED  BY <1>1, <2>2, FrameBytes, BodyBytes
<1>5. SubSeq(f, 13, 12 + n) = p
  <2>1. ASSUME NEW i \in 1..n PROVE f[12 + i] = p[i]
    <3>1. 12 + i \in 1..Len(Body(pkg))
      BY <1>2, BodyBytes
    <3>2. Body(pkg)[12 + i] = p[i]
      BY <1>2, BodyBytes
    <3>. QED  BY <1>1, <3>1, <3>2, FrameBytes
  <2> HIDE DEF p
  <2>2. /\ SubSeq(f, 13, 12 + n) \in Seq(Byte) /\ Len(SubSeq(f, 13, 12 + n)) = n
        /\ \A i \in 1..n : SubSeq(f, 13, 12 + n)[i] = f[12 + i]
    BY ONLY <1>2, <1>3
  <2>. QED  BY ONLY <1>2, <2>1, <2>2
<1> HIDE DEF p
<1>6. /\ f[1] = MAGIC_1 /\ f[2] = MAGIC_2 /\ f[3] = pkg.sender_host_id /\ f[4] = pkg.target_host_id
      /\ f[5] = pkg.msg_id \div 256 /\ f[6] = pkg.msg_id % 256
      /\ f[7] = pkg.data_len \div 256 /\ f[8] = pkg.data_len % 256 /\ f[9] = pkg.seq
      /\ f[10] = pkg.need_ack + 2 * pkg.is_ack + 4 * pkg.forword_cnt
  BY ONLY <1>4 DEF Header
<1>7. 256 * f[5] + f[6] = pkg.msg_id /\ 256 * f[7] + f[8] = n
  BY ONLY <1>1, <1>6, WordBytes, PackableFields, Packable(pkg)
<1>8. /\ f[10] % 2 = pkg.need_ack /\ (f[10] \div 2) % 2 = pkg.is_ack
      /\ (f[10] \div 4) % 16 = pkg.forword_cnt
  <2>1. PICK a \in 0..1, b \in 0..1, c \in 0..15 :
          a = pkg.need_ack /\ b = pkg.is_ack /\ c = pkg.forword_cnt
    BY PackableFields
  <2>2. f[10] = a + 2 * b + 4 * c
    BY ONLY <1>6, <2>1
  <2>3. /\ (a + 2 * b + 4 * c) % 2 = a /\ ((a + 2 * b + 4 * c) \div 2) % 2 = b
        /\ ((a + 2 * b + 4 * c) \div 4) % 16 = c
    BY FlagBits
  <2>. QED  BY ONLY <2>1, <2>2, <2>3
<1>9. 12 + 256 * f[7] + f[8] = 12 + n
  <2>1. f[7] \in Nat /\ f[8] \in Nat
    <3>1. 7 \in 1..Len(f) /\ 8 \in 1..Len(f)
      BY ONLY <1>2, <1>3
    <3>2. f[7] \in Byte /\ f[8] \in Byte
      BY ONLY <1>3, <3>1
    <3>. QED  BY <3>2, ByteRange
  <2>. QED  BY ONLY <1>2, <1>7, <2>1, SMTT(30)
<1>10. IsFrame(f)
  <2>1. /\ Len(f) >= 14 /\ Len(f) = 14 + n /\ Len(f) - 1 = 13 + n /\ Len(f) - 2 = 12 + n
    BY ONLY <1>2, <1>3
  <2>3. 12 + 256 * f[7] + f[8] + 2 = 14 + n
    BY ONLY <1>2, <1>9
  <2>4. 256 * f[Len(f) - 1] + f[Len(f)] = nano_net_crc16(SubSeq(f, 1, Len(f) - 2))
    BY ONLY <1>3, <2>1
  <2>. QED  BY ONLY <1>6, <2>1, <2>3, <2>4 DEF IsFrame, HeaderSize, CrcSize
<1>11. FramePkg(f) = Carried(pkg)
  <2>1. Carried(pkg) =
          [sender_host_id |-> pkg.sender_host_id, target_host_id |-> pkg.target_host_id,
           msg_id |-> pkg.msg_id, data_len |-> pkg.data_len, seq |-> pkg.seq,
           need_ack |-> pkg.need_ack, is_ack |-> pkg.is_ack,
           forword_cnt |-> pkg.forword_cnt, data |-> p]
    BY PackableFields DEF p
  <2>2. SubSeq(f, 13, 12 + 256 * f[7] + f[8]) = p
    BY ONLY <1>5, <1>9
  <2>3. 256 * f[7] + f[8] = pkg.data_len
    BY ONLY <1>1, <1>7
  <2>. QED  BY ONLY <1>6, <1>7, <1>8, <2>1, <2>2, <2>3, Zenon DEF FramePkg
<1>. QED  BY <1>1, <1>10, <1>11


-----------------------------------------------------------------------------
(* Batches: packet after packet, the checksum starts again from 0.         *)

\* Bytes that leave the accumulator at 0, such as packets.
Clean == {v \in Seq(Byte) : nano_net_crc16(v) = 0}

\* After such bytes the checksum is that of what follows.
LEMMA CleanThen ==
  ASSUME NEW v \in Clean, NEW s \in Seq(Byte)
  PROVE  v \o s \in Seq(Byte) /\ nano_net_crc16(v \o s) = nano_net_crc16(s)
<1> DEFINE S == {n \in Nat : \A t \in Seq(Byte) :
                               Len(t) = n => nano_net_crc16(v \o t) = nano_net_crc16(t)}
<1>0. v \in Seq(Byte) /\ nano_net_crc16(v) = 0
  BY DEF Clean
<1>1. 0 \in S
  <2>1. SUFFICES ASSUME NEW t \in Seq(Byte), Len(t) = 0
                 PROVE  nano_net_crc16(v \o t) = nano_net_crc16(t)
    OBVIOUS
  <2>2. t = <<>>
    BY <2>1
  <2>3. v \o <<>> = v
    BY <1>0, ConcatEmptySeq
  <2>. QED  BY <1>0, <2>2, <2>3, CrcEmpty
<1>2. ASSUME NEW n \in Nat, n \in S PROVE n + 1 \in S
  <2>1. SUFFICES ASSUME NEW t \in Seq(Byte), Len(t) = n + 1
                 PROVE  nano_net_crc16(v \o t) = nano_net_crc16(t)
    OBVIOUS
  <2> DEFINE front == SubSeq(t, 1, n)
             byte == t[n + 1]
  <2>2. front \in Seq(Byte) /\ Len(front) = n /\ byte \in Byte /\ t = Append(front, byte)
    <3>1. n + 1 \in 1..Len(t) /\ n \in 0..Len(t) /\ (n + 1) - 1 = n
      BY <2>1
    <3>2. SubSeq(t, 1, n + 1) = Append(SubSeq(t, 1, (n + 1) - 1), t[n + 1])
      BY <3>1, Prefixes
    <3>. QED  BY <2>1, <3>1, <3>2, Prefixes
  <2>3. nano_net_crc16(v \o front) = nano_net_crc16(front)
    BY <1>2, <2>2
  <2> HIDE DEF front, byte
  <2>4. v \o front \in Seq(Byte)
    BY <1>0, <2>2, ConcatProperties
  <2>5. v \o Append(front, byte) = Append(v \o front, byte)
    BY <1>0, <2>2, <2>4
  <2>. QED  BY <2>2, <2>3, <2>4, <2>5, CrcAppend
<1> HIDE DEF S
<1>3. Nat \subseteq S
  BY <1>1, <1>2, Induct
<1>4. Len(s) \in Nat
  OBVIOUS
<1>5. v \o s \in Seq(Byte)
  BY <1>0, ConcatProperties
<1>. QED  BY <1>3, <1>4, <1>5 DEF S

(* Whatever follows a packet with its checksum has its own checksum: what  *)
(* pack() computes over a batch is what unpack compares for the last       *)
(* packet of it.                                                           *)
THEOREM CrcBatches ==
  \A buf, s \in Seq(Byte) :
    nano_net_crc16((buf \o CrcBytes(nano_net_crc16(buf))) \o s) = nano_net_crc16(s)
<1> SUFFICES ASSUME NEW buf \in Seq(Byte), NEW s \in Seq(Byte)
             PROVE  nano_net_crc16((buf \o CrcBytes(nano_net_crc16(buf))) \o s)
                      = nano_net_crc16(s)
  OBVIOUS
<1>1. buf \o CrcBytes(nano_net_crc16(buf)) \in Clean
  BY PacketResidue DEF Clean
<1>. QED  BY ONLY <1>1, CleanThen

\* One pass of the loop of pack(): the checksum over the batch so far is the
\* checksum of the package's own bytes.
LEMMA PackPass ==
  ASSUME NEW v \in Clean, NEW pkg, Packable(pkg)
  PROVE  /\ (LET body == v \o Header(pkg) \o PayloadOf(pkg)
             IN  body \o CrcBytes(nano_net_crc16(body))) = v \o Frame(pkg)
         /\ v \o Frame(pkg) \in Clean
         /\ Len(v \o Frame(pkg)) = Len(v) + 14 + Len(PayloadOf(pkg))
<1> DEFINE h == Header(pkg)
           p == PayloadOf(pkg)
           b == Body(pkg)
           c == CrcBytes(nano_net_crc16(b))
<1>1. v \in Seq(Byte) /\ h \in Seq(Byte) /\ p \in Seq(Byte) /\ b \in Seq(Byte) /\ Len(p) \in Nat
  BY HeaderBytes, BodyBytes, PackableFields DEF Clean
<1>2. c \in Seq(Byte)
  <2>1. nano_net_crc16(b) \in Word16
    BY <1>1, CrcLoops
  <2>2. nano_net_crc16(b) \div 256 \in Byte /\ nano_net_crc16(b) % 256 \in Byte
    BY <2>1, WordBytes
  <2> HIDE DEF b
  <2>. QED  BY <2>2 DEF CrcBytes
<1>3. b = h \o p /\ Frame(pkg) = b \o c
  BY DEF Body, Frame
<1>4. Frame(pkg) \in Seq(Byte) /\ Len(Frame(pkg)) = 14 + Len(p) /\ nano_net_crc16(Frame(pkg)) = 0
  BY FrameBytes
<1> HIDE DEF h, p, b
<1>5. (v \o h) \o p = v \o b
  <2>1. v \in Seq(Byte) /\ h \in Seq(Byte) /\ p \in Seq(Byte)
    BY <1>1
  <2>2. (v \o h) \o p = v \o (h \o p)
    BY ONLY <2>1, ConcatAssociative, SMTT(30)
  <2>. QED  BY ONLY <1>3, <2>2
<1>6. nano_net_crc16(v \o b) = nano_net_crc16(b)
  BY <1>1, CleanThen
<1> HIDE DEF c
<1>7. (v \o b) \o c = v \o Frame(pkg)
  <2>1. v \in Seq(Byte) /\ b \in Seq(Byte) /\ c \in Seq(Byte)
    BY <1>1, <1>2
  <2>2. (v \o b) \o c = v \o (b \o c)
    BY ONLY <2>1, ConcatAssociative, SMTT(30)
  <2>. QED  BY ONLY <1>3, <2>2
<1>8. v \o Frame(pkg) \in Clean
  BY <1>4, CleanThen DEF Clean
<1>9. Len(v \o Frame(pkg)) = Len(v) + 14 + Len(p)
  <2>1. Len(v \o Frame(pkg)) = Len(v) + Len(Frame(pkg)) /\ Len(v) \in Nat
    <3>1. PICK f : f = Frame(pkg)
      OBVIOUS
    <3>2. Len(v \o f) = Len(v) + Len(f) /\ Len(v) \in Nat
      BY ONLY <1>1, <1>4, <3>1, ConcatProperties
    <3>. QED  BY ONLY <3>1, <3>2
  <2>. QED  BY ONLY <1>1, <1>4, <2>1
<1>. QED  BY <1>5, <1>6, <1>7, <1>8, <1>9 DEF h, p, c

\* The passes of pack() over a batch: what it writes, the room it asks for.
Packs(batch) == [n \in 1..Len(batch) |-> [v \in Clean |-> v \o Frame(batch[n])]]
Sizes(batch) == [n \in 1..Len(batch) |-> [v \in Nat |-> v + 14 + batch[n].data_len]]

LEMMA BatchPackable ==
  ASSUME NEW batch \in Seq(Pkgs)
  PROVE  /\ Len(batch) \in Nat
         /\ \A n \in 1..Len(batch) : Packable(batch[n]) /\ batch[n].data_len \in Nat
<1>1. Len(batch) \in Nat /\ \A n \in 1..Len(batch) : batch[n] \in Pkgs
  OBVIOUS
<1>2. ASSUME NEW n \in 1..Len(batch) PROVE Packable(batch[n]) /\ batch[n].data_len \in Nat
  <2>1. Packable(batch[n])
    BY <1>1, PkgsAssumption
  <2>2. batch[n].data_len \in Word16
    BY <2>1, PackableFields
  <2>. QED  BY <2>1, <2>2, WordRange
<1>. QED  BY <1>1, <1>2

\* The bytes written are that loop.
LEMMA PackedLoops ==
  ASSUME NEW batch \in Seq(Pkgs)
  PROVE  \E f : /\ Loops(f, Len(batch), <<>>, Packs(batch))
                /\ PackedBytes(batch) = f[Len(batch)]
                /\ f[Len(batch)] \in Clean
<1> DEFINE N == Len(batch)
           Pass(v, n) == LET body == v \o Header(batch[n]) \o PayloadOf(batch[n])
                         IN  body \o CrcBytes(nano_net_crc16(body))
           Unrolled(f) ==
             f = [n \in 0..N |->
                    IF n = 0 THEN <<>>
                    ELSE LET body == f[n - 1] \o Header(batch[n]) \o PayloadOf(batch[n])
                         IN  body \o CrcBytes(nano_net_crc16(body))]
<1>1. N \in Nat /\ <<>> \in Clean /\ N \in 0..N
  BY CrcEmpty DEF Clean
<1>2. \A n \in 1..N : \A v \in Clean :
        Packs(batch)[n][v] = Pass(v, n) /\ Packs(batch)[n][v] \in Clean
  <2>1. SUFFICES ASSUME NEW n \in 1..N, NEW v \in Clean
                 PROVE  Packs(batch)[n][v] = Pass(v, n) /\ Packs(batch)[n][v] \in Clean
    BY Zenon
  <2>2. Packs(batch)[n][v] = v \o Frame(batch[n])
    BY DEF Packs
  <2>3. Packable(batch[n])
    BY BatchPackable
  <2>. QED  BY <2>2, <2>3, PackPass
<1>3. PICK g : Loops(g, N, <<>>, Packs(batch))
  BY <1>1, LoopsDefined
<1>4. \A n \in 0..N : g[n] \in Clean
  <2>1. Keeps(Packs(batch), N, Clean)
    BY <1>2 DEF Keeps
  <2>. QED  BY <1>1, <1>3, <2>1, LoopsTyped
<1>5. Unrolled(g)
  <2>1. ASSUME NEW n \in 0..N, n # 0 PROVE Packs(batch)[n][g[n - 1]] = Pass(g[n - 1], n)
    <3>1. n \in 1..N /\ n - 1 \in 0..N
      BY <1>1, <2>1
    <3>2. g[n - 1] \in Clean
      BY <1>4, <3>1
    <3> HIDE DEF Pass
    <3>. QED  BY <1>2, <3>1, <3>2
  <2> HIDE DEF Pass
  <2>2. [n \in 0..N |-> IF n = 0 THEN <<>> ELSE Packs(batch)[n][g[n - 1]]]
        = [n \in 0..N |-> IF n = 0 THEN <<>> ELSE Pass(g[n - 1], n)]
    BY ONLY <2>1
  <2>3. g = [n \in 0..N |-> IF n = 0 THEN <<>> ELSE Packs(batch)[n][g[n - 1]]]
    BY <1>3 DEF Loops
  <2>4. g = [n \in 0..N |-> IF n = 0 THEN <<>> ELSE Pass(g[n - 1], n)]
    BY ONLY <2>2, <2>3
  <2>. QED  BY ONLY <2>4 DEF Pass
<1> DEFINE f == CHOOSE h : Unrolled(h)
<1>6. Unrolled(f)
  <2> HIDE DEF Unrolled
  <2>. QED  BY <1>5
<1>7. PackedBytes(batch) = f[N]
  BY Zenon DEF PackedBytes
<1>8. f = [n \in 0..N |-> IF n = 0 THEN <<>> ELSE Pass(f[n - 1], n)]
  <2> HIDE DEF f
  <2>. QED  BY ONLY <1>6 DEF Unrolled, Pass
<1> HIDE DEF f, Pass
<1>9. /\ f = [n \in 0..N |-> f[n]] /\ f[0] = <<>>
      /\ \A n \in 1..N : f[n] = Pass(f[n - 1], n)
  BY ONLY <1>1, <1>8
<1>10. \A n \in 1..N : f[n - 1] \in Clean => f[n] = Packs(batch)[n][f[n - 1]]
  BY ONLY <1>2, <1>9
<1>11. Loops(f, N, <<>>, Packs(batch)) /\ \A n \in 0..N : f[n] \in Clean
  <2>1. Keeps(Packs(batch), N, Clean)
    BY <1>2 DEF Keeps
  <2>2. Follows(f, N, Packs(batch), Clean)
    BY <1>9, <1>10 DEF Follows
  <2>3. N \in Nat /\ <<>> \in Clean /\ f[0] = <<>>
    BY <1>1, <1>9
  <2> HIDE DEF N
  <2>. QED  BY ONLY <2>1, <2>2, <2>3, LoopsMeet
<1>. QED  BY <1>1, <1>7, <1>11

\* The room asked for is the loop over data_len.
LEMMA SizeLoops ==
  ASSUME NEW batch \in Seq(Pkgs)
  PROVE  \E f : /\ Loops(f, Len(batch), 0, Sizes(batch))
                /\ PackedSize(batch) = f[Len(batch)]
                /\ f[Len(batch)] \in Nat
<1> DEFINE N == Len(batch)
           Unrolled(f) ==
             f = [n \in 0..N |->
                    IF n = 0 THEN 0
                    ELSE f[n - 1] + HeaderSize + CrcSize + batch[n].data_len]
<1>1. N \in Nat /\ N \in 0..N /\ \A n \in 1..N : batch[n].data_len \in Nat
  BY BatchPackable
<1>2. \A n \in 1..N : \A v \in Nat :
        /\ Sizes(batch)[n][v] = v + HeaderSize + CrcSize + batch[n].data_len
        /\ Sizes(batch)[n][v] \in Nat
  BY <1>1 DEF Sizes, HeaderSize, CrcSize
<1>3. PICK g : Loops(g, N, 0, Sizes(batch))
  BY <1>1, LoopsDefined
<1>4. \A n \in 0..N : g[n] \in Nat
  <2>1. Keeps(Sizes(batch), N, Nat)
    BY <1>2 DEF Keeps
  <2>. QED  BY <1>1, <1>3, <2>1, LoopsTyped
<1>5. Unrolled(g)
  <2>1. ASSUME NEW n \in 0..N, n # 0
        PROVE  Sizes(batch)[n][g[n - 1]] = g[n - 1] + HeaderSize + CrcSize + batch[n].data_len
    <3>1. n \in 1..N /\ n - 1 \in 0..N
      BY <1>1, <2>1
    <3>2. g[n - 1] \in Nat
      BY <1>4, <3>1
    <3>. QED  BY <1>2, <3>1, <3>2
  <2>2. [n \in 0..N |-> IF n = 0 THEN 0 ELSE Sizes(batch)[n][g[n - 1]]]
        = [n \in 0..N |-> IF n = 0 THEN 0
                          ELSE g[n - 1] + HeaderSize + CrcSize + batch[n].data_len]
    BY ONLY <2>1
  <2>3. g = [n \in 0..N |-> IF n = 0 THEN 0 ELSE Sizes(batch)[n][g[n - 1]]]
    BY <1>3 DEF Loops
  <2>. QED  BY ONLY <2>2, <2>3
<1> DEFINE f == CHOOSE h : Unrolled(h)
<1>6. Unrolled(f)
  <2> HIDE DEF Unrolled
  <2>. QED  BY <1>5
<1>7. PackedSize(batch) = f[N]
  BY Zenon DEF PackedSize
<1> HIDE DEF f
<1>8. /\ f = [n \in 0..N |-> f[n]] /\ f[0] = 0
      /\ \A n \in 1..N : f[n] = f[n - 1] + HeaderSize + CrcSize + batch[n].data_len
  BY ONLY <1>1, <1>6
<1>9. \A n \in 1..N : f[n - 1] \in Nat => f[n] = Sizes(batch)[n][f[n - 1]]
  BY ONLY <1>2, <1>8
<1>10. Loops(f, N, 0, Sizes(batch)) /\ \A n \in 0..N : f[n] \in Nat
  <2>1. Keeps(Sizes(batch), N, Nat)
    BY <1>2 DEF Keeps
  <2>2. Follows(f, N, Sizes(batch), Nat)
    BY <1>8, <1>9 DEF Follows
  <2>3. N \in Nat /\ 0 \in Nat /\ f[0] = 0
    BY <1>1, <1>8
  <2> HIDE DEF N
  <2>. QED  BY ONLY <2>1, <2>2, <2>3, LoopsMeet
<1>. QED  BY <1>1, <1>7, <1>10

\* A batch without packages.
LEMMA NothingPacked == PackedBytes(<<>>) = <<>> /\ PackedSize(<<>>) = 0
<1>1. <<>> \in Seq(Pkgs) /\ Len(<<>>) = 0
  OBVIOUS
<1>2. PICK f : Loops(f, 0, <<>>, Packs(<<>>)) /\ PackedBytes(<<>>) = f[0]
  BY <1>1, PackedLoops
<1>3. PICK g : Loops(g, 0, 0, Sizes(<<>>)) /\ PackedSize(<<>>) = g[0]
  BY <1>1, SizeLoops
<1>. QED  BY <1>2, <1>3, LoopsFacts

\* One package more is one frame more.
LEMMA PackedAppend ==
  ASSUME NEW batch \in Seq(Pkgs), NEW pkg \in Pkgs
  PROVE  /\ PackedBytes(batch) \in Clean
         /\ PackedBytes(Append(batch, pkg)) = PackedBytes(batch) \o Frame(pkg)
<1> DEFINE b == Append(batch, pkg)
           N == Len(batch)
<1>1. b \in Seq(Pkgs) /\ Len(b) = N + 1 /\ N \in Nat /\ b[N + 1] = pkg
      /\ \A n \in 1..N : b[n] = batch[n]
  OBVIOUS
<1> HIDE DEF b
<1>2. PICK f : Loops(f, N, <<>>, Packs(batch)) /\ PackedBytes(batch) = f[N] /\ f[N] \in Clean
  BY PackedLoops
<1>3. PICK g : Loops(g, N + 1, <<>>, Packs(b)) /\ PackedBytes(b) = g[N + 1]
  BY <1>1, PackedLoops
<1>4. \A n \in 1..N : Packs(batch)[n] = Packs(b)[n]
  <2>1. \A n \in 1..N : n \in 1..(N + 1)
    BY <1>1
  <2>. QED  BY <1>1, <2>1 DEF Packs
<1>5. f[N] = g[N]
  <2>1. N <= N + 1 /\ N + 1 \in Nat
    BY <1>1
  <2>. QED  BY <1>1, <1>2, <1>3, <1>4, <2>1, LoopsAgree
<1>6. g[N + 1] = Packs(b)[N + 1][g[N]]
  <2>1. N + 1 \in Nat /\ N + 1 \in 1..(N + 1) /\ (N + 1) - 1 = N
    BY <1>1
  <2>2. g[N + 1] = Packs(b)[N + 1][g[(N + 1) - 1]]
    BY ONLY <1>3, <2>1, LoopsFacts
  <2>. QED  BY <2>1, <2>2
<1>7. Packs(b)[N + 1][g[N]] = g[N] \o Frame(pkg)
  <2>1. N + 1 \in 1..Len(b) /\ g[N] \in Clean
    BY <1>1, <1>2, <1>5
  <2>. QED  BY <1>1, <2>1 DEF Packs
<1>. QED  BY <1>2, <1>3, <1>5, <1>6, <1>7 DEF b

\* One package more asks for its header, checksum and data_len.
LEMMA SizeAppend ==
  ASSUME NEW batch \in Seq(Pkgs), NEW pkg \in Pkgs
  PROVE  /\ PackedSize(batch) \in Nat
         /\ PackedSize(Append(batch, pkg)) = PackedSize(batch) + 14 + pkg.data_len
<1> DEFINE b == Append(batch, pkg)
           N == Len(batch)
<1>1. b \in Seq(Pkgs) /\ Len(b) = N + 1 /\ N \in Nat /\ b[N + 1] = pkg
      /\ \A n \in 1..N : b[n] = batch[n]
  OBVIOUS
<1> HIDE DEF b
<1>2. PICK f : Loops(f, N, 0, Sizes(batch)) /\ PackedSize(batch) = f[N] /\ f[N] \in Nat
  BY SizeLoops
<1>3. PICK g : Loops(g, N + 1, 0, Sizes(b)) /\ PackedSize(b) = g[N + 1]
  BY <1>1, SizeLoops
<1>4. \A n \in 1..N : Sizes(batch)[n] = Sizes(b)[n]
  <2>1. \A n \in 1..N : n \in 1..(N + 1)
    BY <1>1
  <2>. QED  BY <1>1, <2>1 DEF Sizes
<1>5. f[N] = g[N]
  <2>1. N <= N + 1 /\ N + 1 \in Nat /\ 0 \in Nat
    BY <1>1
  <2>. QED  BY <1>1, <1>2, <1>3, <1>4, <2>1, LoopsAgree
<1>6. g[N + 1] = Sizes(b)[N + 1][g[N]]
  <2>1. N + 1 \in Nat /\ N + 1 \in 1..(N + 1) /\ (N + 1) - 1 = N
    BY <1>1
  <2>2. g[N + 1] = Sizes(b)[N + 1][g[(N + 1) - 1]]
    BY ONLY <1>3, <2>1, LoopsFacts
  <2>. QED  BY <2>1, <2>2
<1>7. Sizes(b)[N + 1][g[N]] = g[N] + 14 + pkg.data_len
  <2>1. N + 1 \in 1..Len(b) /\ g[N] \in Nat
    BY <1>1, <1>2, <1>5
  <2>. QED  BY <1>1, <2>1 DEF Sizes
<1>. QED  BY <1>2, <1>3, <1>5, <1>6, <1>7 DEF b

-----------------------------------------------------------------------------
(* The batches of PackBatch.                                               *)

BatchTyped == pkgs \in Seq(Pkgs)

\* What is written needs no more room than was asked for.
BatchFits ==
  /\ BatchTyped
  /\ PackedBytes(pkgs) \in Clean
  /\ PackedSize(pkgs) \in Nat
  /\ Len(PackedBytes(pkgs)) <= PackedSize(pkgs)

LEMMA FillFits ==
  ASSUME NEW batch \in Seq(Pkgs), NEW pkg \in Pkgs,
         Len(PackedBytes(batch)) <= PackedSize(batch)
  PROVE  /\ Append(batch, pkg) \in Seq(Pkgs)
         /\ PackedBytes(Append(batch, pkg)) \in Clean
         /\ PackedSize(Append(batch, pkg)) \in Nat
         /\ Len(PackedBytes(Append(batch, pkg))) <= PackedSize(Append(batch, pkg))
<1>1. Packable(pkg)
  BY PkgsAssumption
<1>2. Len(PayloadOf(pkg)) \in {0, pkg.data_len} /\ pkg.data_len \in Nat
  BY <1>1, PackableFields, WordRange
<1>3. PICK v : v = PackedBytes(batch)
  OBVIOUS
<1>4. v \in Clean /\ PackedBytes(Append(batch, pkg)) = v \o Frame(pkg)
  BY <1>3, PackedAppend
<1>5. v \o Frame(pkg) \in Clean /\ Len(v \o Frame(pkg)) = Len(v) + 14 + Len(PayloadOf(pkg))
  BY <1>1, <1>4, PackPass
<1>6. Len(v) \in Nat
  BY <1>4 DEF Clean
<1>7. /\ PackedSize(batch) \in Nat
      /\ PackedSize(Append(batch, pkg)) = PackedSize(batch) + 14 + pkg.data_len
  BY SizeAppend
<1>8. Append(batch, pkg) \in Seq(Pkgs)
  OBVIOUS
<1>. QED  BY <1>2, <1>3, <1>4, <1>5, <1>6, <1>7, <1>8

(* pack() never writes behind the pack buffer, whatever the packages and   *)
(* however large the buffer: the room it asks for is enough.               *)
THEOREM PackStaysInRoom == PackSpec => []StaysInRoom
<1>1. PackInit => BatchFits
  <2>1. <<>> \in Seq(Pkgs) /\ <<>> \in Clean /\ Len(<<>>) = 0
    BY CrcEmpty DEF Clean
  <2>. QED  BY <2>1, NothingPacked DEF PackInit, BatchFits, BatchTyped
<1>2. BatchFits /\ [PackNext]_pkgs => BatchFits'
  <2> SUFFICES ASSUME BatchFits, [PackNext]_pkgs PROVE BatchFits'
    OBVIOUS
  <2>1. CASE Fill
    <3>1. PICK pkg \in Pkgs : pkgs' = Append(pkgs, pkg)
      BY <2>1 DEF Fill
    <3>. QED  BY <3>1, FillFits DEF BatchFits, BatchTyped
  <2>2. CASE Forward
    <3>1. PICK pkg \in Pkgs : pkgs' = <<pkg>>
      BY <2>2 DEF Forward
    <3>2. pkgs' = Append(pkgs, pkg)
      BY <2>2, <3>1 DEF Forward
    <3>. QED  BY <3>2, FillFits DEF BatchFits, BatchTyped
  <2>3. CASE UNCHANGED pkgs
    BY <2>3 DEF BatchFits, BatchTyped
  <2>. QED  BY <2>1, <2>2, <2>3 DEF PackNext
<1>3. BatchFits => StaysInRoom
  <2> SUFFICES ASSUME BatchFits, NEW room \in Rooms PROVE Len(pack(pkgs, room)) <= room
    BY DEF StaysInRoom
  <2>1. room \in Nat /\ Len(PackedBytes(pkgs)) \in Nat
    BY RoomsAssumption DEF BatchFits, Clean
  <2>2. Len(<<>>) = 0
    OBVIOUS
  <2>3. CASE room < PackedSize(pkgs)
    BY <2>1, <2>2, <2>3 DEF pack
  <2>4. CASE ~(room < PackedSize(pkgs))
    <3>1. Len(PackedBytes(pkgs)) <= room
      BY <2>1, <2>4 DEF BatchFits
    <3>. QED  BY <2>4, <3>1 DEF pack
  <2>. QED  BY <2>3, <2>4
<1>. QED  BY <1>1, <1>2, <1>3, PTL DEF PackSpec

\* Where the package k of a batch ends in what was written.
Through(batch, k) == Len(PackedBytes(SubSeq(batch, 1, k)))

\* What was written for each package is its frame, behind those before it.
FramesOf(batch) ==
  \A k \in 1..Len(batch) :
    /\ batch[k] \in Pkgs
    /\ Through(batch, k - 1) \in Nat /\ Through(batch, k) \in Nat
    /\ Through(batch, k - 1) + 1 <= Through(batch, k)
    /\ Through(batch, k) <= Len(PackedBytes(batch))
    /\ SubSeq(PackedBytes(batch), Through(batch, k - 1) + 1, Through(batch, k)) = Frame(batch[k])

\* The first packages of a batch are not changed by one more.
LEMMA FrontOfAppend ==
  ASSUME NEW batch \in Seq(Pkgs), NEW pkg \in Pkgs
  PROVE  /\ \A k \in 0..Len(batch) : SubSeq(Append(batch, pkg), 1, k) = SubSeq(batch, 1, k)
         /\ SubSeq(Append(batch, pkg), 1, Len(batch) + 1) = Append(batch, pkg)
         /\ SubSeq(batch, 1, Len(batch)) = batch
<1>1. PICK b : b = Append(batch, pkg)
  OBVIOUS
<1>2. /\ b \in Seq(Pkgs) /\ Len(b) = Len(batch) + 1 /\ Len(batch) \in Nat
      /\ \A i \in 1..Len(batch) : b[i] = batch[i]
  BY <1>1
<1>3. ASSUME NEW s \in Seq(Pkgs), NEW k \in 0..Len(s)
      PROVE  /\ SubSeq(s, 1, k) \in Seq(Pkgs) /\ Len(SubSeq(s, 1, k)) = k
             /\ \A i \in 1..k : SubSeq(s, 1, k)[i] = s[i]
  <2>1. k \in Nat /\ \A i \in 1..k : i \in 1..Len(s)
    BY <1>3
  <2>2. \A i \in 1..k : s[i] \in Pkgs
    BY ONLY <1>3, <2>1
  <2>. QED  BY ONLY <1>3, <2>1, <2>2, SubSeqProperties
<1>4. ASSUME NEW s \in Seq(Pkgs) PROVE SubSeq(s, 1, Len(s)) = s
  <2> DEFINE t == SubSeq(s, 1, Len(s))
  <2>1. Len(s) \in 0..Len(s)
    BY <1>4
  <2>2. t \in Seq(Pkgs) /\ Len(t) = Len(s) /\ \A i \in 1..Len(s) : t[i] = s[i]
    BY <1>3, <2>1
  <2> HIDE DEF t
  <2>3. t = s
    BY ONLY <1>4, <2>2
  <2>. QED  BY <2>3 DEF t
<1>5. ASSUME NEW k \in 0..Len(batch) PROVE SubSeq(b, 1, k) = SubSeq(batch, 1, k)
  <2> DEFINE t == SubSeq(b, 1, k)
             u == SubSeq(batch, 1, k)
  <2>1. k \in 0..Len(b) /\ k \in Nat /\ \A i \in 1..k : i \in 1..Len(batch)
    BY <1>2
  <2>2. t \in Seq(Pkgs) /\ Len(t) = k /\ \A i \in 1..k : t[i] = b[i]
    BY <1>2, <1>3, <2>1
  <2>3. u \in Seq(Pkgs) /\ Len(u) = k /\ \A i \in 1..k : u[i] = batch[i]
    BY <1>3
  <2> HIDE DEF t, u
  <2>4. \A i \in 1..k : t[i] = u[i]
    BY ONLY <1>2, <2>1, <2>2, <2>3
  <2>5. t = u
    BY ONLY <2>2, <2>3, <2>4
  <2>. QED  BY <2>5 DEF t, u
<1>6. SubSeq(b, 1, Len(b)) = b /\ SubSeq(batch, 1, Len(batch)) = batch
  BY <1>2, <1>4
<1>. QED  BY <1>1, <1>2, <1>5, <1>6

\* Stretches of what stands before, and what is appended.
LEMMA StretchOfConcat ==
  ASSUME NEW v \in Seq(Byte), NEW f \in Seq(Byte)
  PROVE  /\ \A m, n \in Nat : m + 1 <= n /\ n <= Len(v) =>
              SubSeq(v \o f, m + 1, n) = SubSeq(v, m + 1, n)
         /\ Len(f) > 0 => SubSeq(v \o f, Len(v) + 1, Len(v) + Len(f)) = f
<1>1. ASSUME NEW m \in Nat, NEW n \in Nat, m + 1 <= n, n <= Len(v)
      PROVE  SubSeq(v \o f, m + 1, n) = SubSeq(v, m + 1, n)
  <2>1. m + 1 \in 1..Len(v) /\ n \in 1..Len(v)
    BY <1>1
  <2>. QED  BY <2>1, SubSeqOfConcat1
<1>2. ASSUME Len(f) > 0
      PROVE  SubSeq(v \o f, Len(v) + 1, Len(v) + Len(f)) = f
  <2>1. /\ Len(v) + 1 \in Len(v) + 1 .. Len(v) + Len(f)
        /\ Len(v) + Len(f) \in Len(v) + 1 .. Len(v) + Len(f)
        /\ (Len(v) + 1) - Len(v) = 1 /\ (Len(v) + Len(f)) - Len(v) = Len(f)
    BY <1>2
  <2>2. SubSeq(v \o f, Len(v) + 1, Len(v) + Len(f))
        = SubSeq(f, (Len(v) + 1) - Len(v), (Len(v) + Len(f)) - Len(v))
    BY ONLY <2>1, SubSeqOfConcat2, v \in Seq(Byte), f \in Seq(Byte)
  <2>3. SubSeq(f, 1, Len(f)) = f
    BY Prefixes
  <2>. QED  BY <2>1, <2>2, <2>3
<1>. QED  BY <1>1, <1>2

LEMMA FillFrames ==
  ASSUME NEW batch \in Seq(Pkgs), NEW pkg \in Pkgs, FramesOf(batch)
  PROVE  FramesOf(Append(batch, pkg))
<1>1. PICK b, N : b = Append(batch, pkg) /\ N = Len(batch)
  OBVIOUS
<1>2. /\ b \in Seq(Pkgs) /\ Len(b) = N + 1 /\ N \in Nat /\ b[N + 1] = pkg
      /\ \A n \in 1..N : b[n] = batch[n]
  BY <1>1
<1>3. PICK v, f : v = PackedBytes(batch) /\ f = Frame(pkg)
  OBVIOUS
<1>4. Packable(pkg)
  BY PkgsAssumption
<1>5. v \in Clean /\ v \in Seq(Byte) /\ PackedBytes(b) = v \o f
  BY <1>1, <1>3, PackedAppend DEF Clean
<1>6. f \in Seq(Byte) /\ Len(f) > 0
  <2>1. f \in Seq(Byte) /\ Len(f) = 14 + Len(PayloadOf(pkg)) /\ Len(PayloadOf(pkg)) \in Nat
    BY <1>3, <1>4, FrameBytes, BodyBytes
  <2>. QED  BY ONLY <2>1
<1>7. Len(v \o f) = Len(v) + Len(f) /\ Len(v) \in Nat /\ Len(f) \in Nat
  BY ONLY <1>5, <1>6, ConcatProperties
<1>8. /\ \A k \in 0..N : Through(b, k) = Through(batch, k)
      /\ Through(b, N + 1) = Len(v) + Len(f) /\ Through(b, N) = Len(v)
  <2>1. /\ \A k \in 0..N : SubSeq(b, 1, k) = SubSeq(batch, 1, k)
        /\ SubSeq(b, 1, N + 1) = b /\ SubSeq(batch, 1, N) = batch
    BY <1>1, FrontOfAppend
  <2>2. N \in 0..N
    BY <1>2
  <2>. QED  BY <1>3, <1>5, <1>7, <2>1, <2>2 DEF Through
<1>9. ASSUME NEW k \in 1..N
      PROVE  /\ b[k] \in Pkgs
             /\ Through(b, k - 1) \in Nat /\ Through(b, k) \in Nat
             /\ Through(b, k - 1) + 1 <= Through(b, k)
             /\ Through(b, k) <= Len(v \o f)
             /\ SubSeq(v \o f, Through(b, k - 1) + 1, Through(b, k)) = Frame(b[k])
  <2>1. k - 1 \in 0..N /\ k \in 0..N
    BY <1>2
  <2>2. PICK m, n : m = Through(batch, k - 1) /\ n = Through(batch, k)
    OBVIOUS
  <2>3. /\ batch[k] \in Pkgs /\ m \in Nat /\ n \in Nat /\ m + 1 <= n /\ n <= Len(v)
        /\ SubSeq(v, m + 1, n) = Frame(batch[k])
    BY <1>1, <1>3, <2>2 DEF FramesOf
  <2>4. SubSeq(v \o f, m + 1, n) = Frame(batch[k])
    <3>1. SubSeq(v \o f, m + 1, n) = SubSeq(v, m + 1, n)
      BY ONLY <1>5, <1>6, <2>3, StretchOfConcat
    <3>. QED  BY ONLY <2>3, <3>1
  <2>5. Through(b, k - 1) = m /\ Through(b, k) = n /\ b[k] = batch[k]
    BY <1>2, <1>8, <2>1, <2>2
  <2>6. n <= Len(v \o f)
    BY ONLY <1>7, <2>3
  <2>. QED  BY ONLY <2>3, <2>4, <2>5, <2>6
<1>10. /\ b[N + 1] \in Pkgs
       /\ Through(b, N) \in Nat /\ Through(b, N + 1) \in Nat
       /\ Through(b, N) + 1 <= Through(b, N + 1)
       /\ Through(b, N + 1) <= Len(v \o f)
       /\ SubSeq(v \o f, Through(b, N) + 1, Through(b, N + 1)) = Frame(b[N + 1])
  <2>1. SubSeq(v \o f, Len(v) + 1, Len(v) + Len(f)) = f
    BY ONLY <1>5, <1>6, StretchOfConcat
  <2>2. /\ Through(b, N) \in Nat /\ Through(b, N + 1) \in Nat
        /\ Through(b, N) + 1 <= Through(b, N + 1) /\ Through(b, N + 1) <= Len(v \o f)
    BY ONLY <1>6, <1>7, <1>8
  <2>. QED  BY <1>2, <1>3, <1>8, <2>1, <2>2
<1>11. FramesOf(b)
  <2>1. \A k \in 1..Len(b) : k \in 1..N \/ k = N + 1
    BY <1>2
  <2>2. (N + 1) - 1 = N
    BY <1>2
  <2>. QED  BY ONLY <1>5, <1>9, <1>10, <2>1, <2>2 DEF FramesOf
<1>. QED  BY <1>1, <1>11

LEMMA FramesHold == PackSpec => [](BatchTyped /\ FramesOf(pkgs))
<1> DEFINE Inv == BatchTyped /\ FramesOf(pkgs)
<1>1. PackInit => Inv
  <2>1. <<>> \in Seq(Pkgs) /\ Len(<<>>) = 0 /\ 1..0 = {}
    OBVIOUS
  <2>. QED  BY <2>1 DEF PackInit, BatchTyped, FramesOf
<1>2. Inv /\ [PackNext]_pkgs => Inv'
  <2> SUFFICES ASSUME Inv, [PackNext]_pkgs PROVE Inv'
    OBVIOUS
  <2>1. CASE Fill
    <3>1. PICK pkg \in Pkgs : pkgs' = Append(pkgs, pkg)
      BY <2>1 DEF Fill
    <3>2. FramesOf(Append(pkgs, pkg)) /\ Append(pkgs, pkg) \in Seq(Pkgs)
      BY FillFrames DEF BatchTyped
    <3>. QED  BY <3>1, <3>2 DEF BatchTyped
  <2>2. CASE Forward
    <3>1. PICK pkg \in Pkgs : pkgs' = <<pkg>>
      BY <2>2 DEF Forward
    <3>2. pkgs' = Append(pkgs, pkg)
      BY <2>2, <3>1 DEF Forward
    <3>3. FramesOf(Append(pkgs, pkg)) /\ Append(pkgs, pkg) \in Seq(Pkgs)
      BY FillFrames DEF BatchTyped
    <3>. QED  BY <3>2, <3>3 DEF BatchTyped
  <2>3. CASE UNCHANGED pkgs
    BY <2>3 DEF BatchTyped
  <2>. QED  BY <2>1, <2>2, <2>3 DEF PackNext
<1>. QED  BY <1>1, <1>2, PTL DEF PackSpec

LEMMA FramesAt ==
  ASSUME BatchTyped, FramesOf(pkgs), NEW k \in DOMAIN pkgs
  PROVE  Packable(pkgs[k]) /\ FrameAt(k) = Frame(pkgs[k])
<1>1. k \in 1..Len(pkgs)
  BY DEF BatchTyped
<1>. QED  BY <1>1, PkgsAssumption DEF FramesOf, Through, FrameAt

(* Every package of a batch is packed as a frame that carries it, at its   *)
(* place behind the earlier ones, although each checksum was computed over *)
(* everything packed so far: a receiver checks it over the frame alone.    *)
THEOREM PackFramesIntact == PackSpec => []PackedAreFrames
<1>1. BatchTyped /\ FramesOf(pkgs) => PackedAreFrames
  <2> SUFFICES ASSUME BatchTyped, FramesOf(pkgs), NEW k \in DOMAIN pkgs, Whole(pkgs[k])
               PROVE  IsFrame(FrameAt(k)) /\ FramePkg(FrameAt(k)) = Carried(pkgs[k])
    BY Zenon DEF PackedAreFrames
  <2>. QED  BY FramesAt, FrameCarries
<1>. QED  BY <1>1, FramesHold, PTL

-----------------------------------------------------------------------------
(* Damage: no step of the checksum loses anything, so that buffers that    *)
(* differ in one byte have different checksums.                            *)

\* Passes that lose nothing of V.
Lossless(F, n, V) == \A v, w \in V : F[n][v] = F[n][w] => v = w
Stays(f, N, V) == \A n \in 0..N : f[n] \in V
\* The passes from k + 1 on are the same, and lose nothing.
Resumes(F, G, k, N, V) == \A n \in k + 1 .. N : F[n] = G[n] /\ Lossless(F, n, V)

\* Loops that end alike were alike before their last, lossless passes.
LEMMA LoopsApart ==
  ASSUME NEW N \in Nat, NEW k \in 0..N, NEW V, NEW z, NEW F, NEW G, NEW f, NEW g,
         Loops(f, N, z, F), Loops(g, N, z, G),
         Stays(f, N, V), Stays(g, N, V), Resumes(F, G, k, N, V),
         f[N] = g[N]
  PROVE  f[k] = g[k]
<1> DEFINE S == {j \in Nat : j <= N - k => f[N - j] = g[N - j]}
<1>1. /\ \A n \in 1..N : f[n] = F[n][f[n - 1]]
      /\ \A n \in 1..N : g[n] = G[n][g[n - 1]]
  BY LoopsFacts
<1>2. 0 \in S
  OBVIOUS
<1>3. ASSUME NEW j \in Nat, j \in S PROVE j + 1 \in S
  <2>1. SUFFICES ASSUME j + 1 <= N - k PROVE f[N - (j + 1)] = g[N - (j + 1)]
    OBVIOUS
  <2>2. PICK n : n = N - j
    OBVIOUS
  <2>3. n \in 1..N /\ n \in k + 1 .. N /\ n - 1 \in 0..N /\ N - (j + 1) = n - 1 /\ f[n] = g[n]
    BY <1>3, <2>1, <2>2
  <2>4. F[n][f[n - 1]] = F[n][g[n - 1]]
    BY <1>1, <2>3 DEF Resumes
  <2>5. Lossless(F, n, V) /\ f[n - 1] \in V /\ g[n - 1] \in V
    BY <2>3 DEF Resumes, Stays
  <2>6. f[n - 1] = g[n - 1]
    BY ONLY <2>4, <2>5 DEF Lossless
  <2>. QED  BY ONLY <2>3, <2>6
<1> HIDE DEF S
<1>4. Nat \subseteq S
  BY <1>2, <1>3, Induct
<1>5. N - k \in Nat /\ N - k <= N - k /\ N - (N - k) = k
  OBVIOUS
<1>. QED  BY <1>4, <1>5 DEF S

\* A number has one form as bits.
LEMMA OctetOnce ==
  ASSUME NEW a \in Octets, NEW b \in Octets, Octet(a) = Octet(b)
  PROVE  a = b
<1>1. PICK o : o = Octet(a) /\ o = Octet(b)
  OBVIOUS
<1>2. /\ a[0] = b[0] /\ a[1] = b[1] /\ a[2] = b[2] /\ a[3] = b[3]
      /\ a[4] = b[4] /\ a[5] = b[5] /\ a[6] = b[6] /\ a[7] = b[7]
  <2>1. /\ (o \div 1) % 2 = a[0] /\ (o \div 2) % 2 = a[1] /\ (o \div 4) % 2 = a[2]
        /\ (o \div 8) % 2 = a[3] /\ (o \div 16) % 2 = a[4] /\ (o \div 32) % 2 = a[5]
        /\ (o \div 64) % 2 = a[6] /\ (o \div 128) % 2 = a[7]
    BY <1>1, OctetDivs
  <2>2. /\ (o \div 1) % 2 = b[0] /\ (o \div 2) % 2 = b[1] /\ (o \div 4) % 2 = b[2]
        /\ (o \div 8) % 2 = b[3] /\ (o \div 16) % 2 = b[4] /\ (o \div 32) % 2 = b[5]
        /\ (o \div 64) % 2 = b[6] /\ (o \div 128) % 2 = b[7]
    BY <1>1, OctetDivs
  <2>. QED  BY ONLY <2>1, <2>2
<1>3. \A i \in 0..7 : a[i] = b[i]
  BY ONLY <1>2
<1>. QED  BY <1>3 DEF Octets

LEMMA WordOnce ==
  ASSUME NEW a \in Words, NEW b \in Words, Word(a) = Word(b)
  PROVE  a = b
<1>1. Octet(Upper(a)) = Octet(Upper(b)) /\ Octet(Lower(a)) = Octet(Lower(b))
  BY WordHalves
<1>2. Upper(a) = Upper(b) /\ Lower(a) = Lower(b)
  BY <1>1, Halves, OctetOnce
<1>3. ASSUME NEW i \in 0..15 PROVE a[i] = b[i]
  <2>1. CASE i \in 0..7
    <3>1. Lower(a)[i] = a[i] /\ Lower(b)[i] = b[i]
      BY <2>1 DEF Lower
    <3>. QED  BY <1>2, <3>1
  <2>2. CASE i \in 8..15
    <3>1. i - 8 \in 0..7 /\ (i - 8) + 8 = i
      BY <2>2
    <3>2. Upper(a)[i - 8] = a[i] /\ Upper(b)[i - 8] = b[i]
      BY <3>1 DEF Upper
    <3>. QED  BY <1>2, <3>2
  <2>. QED  BY <2>1, <2>2
<1>. QED  BY <1>3 DEF Words

\* The lowest bit of the register tells what came out at the top.
LEMMA ShiftBack ==
  ASSUME NEW r \in Words, NEW s \in Words, NEW c \in Bit, ShiftBit(r, c) = ShiftBit(s, c)
  PROVE  r = s
<1>1. ASSUME NEW t \in Words
      PROVE  /\ ShiftBit(t, c)[0] = Xor1(t[15], c)
             /\ \A i \in 1..15 : ShiftBit(t, c)[i] =
                                   IF Xor1(t[15], c) = 1 THEN Xor1(t[i - 1], Poly[i]) ELSE t[i - 1]
  <2>1. Xor1(t[15], c) \in Bit
    BY Xor1Type DEF Words
  <2>2. /\ Up(t)[0] = 0 /\ XorWords(Up(t), Poly)[0] = 1
        /\ \A i \in 1..15 : /\ Up(t)[i] = t[i - 1]
                            /\ XorWords(Up(t), Poly)[i] = Xor1(t[i - 1], Poly[i])
    <3>1. \A i \in 1..15 : i \in 0..15 /\ i # 0
      OBVIOUS
    <3>2. Up(t)[0] = 0 /\ \A i \in 1..15 : Up(t)[i] = t[i - 1]
      BY <3>1 DEF Up
    <3>3. XorWords(Up(t), Poly)[0] = 1
      BY <3>2 DEF XorWords, Poly, Xor1
    <3>4. \A i \in 1..15 : XorWords(Up(t), Poly)[i] = Xor1(t[i - 1], Poly[i])
      <4>1. ASSUME NEW i \in 1..15 PROVE XorWords(Up(t), Poly)[i] = Xor1(t[i - 1], Poly[i])
        <5>1. XorWords(Up(t), Poly)[i] = Xor1(Up(t)[i], Poly[i])
          BY <3>1 DEF XorWords
        <5>. QED  BY ONLY <3>2, <5>1
      <4>. QED  BY <4>1
    <3>. QED  BY <3>2, <3>3, <3>4
  <2>3. CASE Xor1(t[15], c) = 1
    BY <2>2, <2>3 DEF ShiftBit
  <2>4. CASE Xor1(t[15], c) = 0
    BY <2>2, <2>4 DEF ShiftBit
  <2>. QED  BY <2>1, <2>3, <2>4 DEF Bit
<1>2. Xor1(r[15], c) = Xor1(s[15], c)
  BY <1>1
<1>3. \A x, y, z \in Bit : Xor1(x, z) = Xor1(y, z) => x = y
  BY DEF Xor1, Bit
<1>4. r[15] = s[15]
  BY <1>2, <1>3 DEF Words
<1>5. ASSUME NEW i \in 1..15 PROVE r[i - 1] = s[i - 1]
  <2>1. i - 1 \in 0..15 /\ i \in 0..15
    OBVIOUS
  <2>2. r[i - 1] \in Bit /\ s[i - 1] \in Bit /\ Poly[i] \in Bit
    BY <2>1, PolyWord DEF Words
  <2>3. CASE Xor1(r[15], c) = 1
    <3>1. Xor1(r[i - 1], Poly[i]) = Xor1(s[i - 1], Poly[i])
      BY <1>1, <1>2, <2>3
    <3>. QED  BY <1>3, <2>2, <3>1
  <2>4. CASE Xor1(r[15], c) # 1
    BY <1>1, <1>2, <2>4
  <2>. QED  BY <2>3, <2>4
<1>6. ASSUME NEW i \in 0..15 PROVE r[i] = s[i]
  <2>1. CASE i = 15
    BY <1>4, <2>1
  <2>2. CASE i # 15
    <3>1. i + 1 \in 1..15 /\ (i + 1) - 1 = i
      BY <2>2
    <3>2. r[(i + 1) - 1] = s[(i + 1) - 1]
      BY ONLY <1>5, <3>1
    <3>. QED  BY <3>1, <3>2
  <2>. QED  BY <2>1, <2>2
<1>. QED  BY <1>6 DEF Words

LEMMA ShiftInBack ==
  ASSUME NEW v \in Word16, NEW w \in Word16, NEW c \in Bit, ShiftIn(v, c) = ShiftIn(w, c)
  PROVE  v = w
<1>1. PICK r \in Words : v = Word(r)
  BY WordOf
<1>2. PICK s \in Words : w = Word(s)
  BY WordOf
<1>3. Word(ShiftBit(r, c)) = Word(ShiftBit(s, c)) /\ ShiftBit(r, c) \in Words /\ ShiftBit(s, c) \in Words
  BY <1>1, <1>2, ShiftInWord
<1>4. ShiftBit(r, c) = ShiftBit(s, c)
  BY <1>3, WordOnce
<1>. QED  BY <1>1, <1>2, <1>4, ShiftBack

\* A byte fed to the register: the register before it is recovered ...
LEMMA StepBack ==
  ASSUME NEW v \in Word16, NEW w \in Word16, NEW byte \in Byte,
         CrcStep(v, byte) = CrcStep(w, byte)
  PROVE  v = w
<1>1. PICK y \in Octets : byte = Octet(y)
  BY OctetOf DEF Byte
<1> DEFINE F == [n \in 1..8 |-> [x \in Word16 |-> ShiftIn(x, y[8 - n])]]
<1>2. ASSUME NEW n \in 1..8 PROVE 8 - n \in 0..7 /\ y[8 - n] \in Bit
  <2>1. 8 - n \in 0..7
    OBVIOUS
  <2>. QED  BY <2>1 DEF Octets
<1>3. \A n \in 1..8 : \A x \in Word16 : F[n][x] = ShiftIn(x, y[8 - n]) /\ F[n][x] \in Word16
  BY ShiftInType
<1>4. ASSUME NEW n \in 1..8 PROVE Lossless(F, n, Word16)
  <2>1. ASSUME NEW a \in Word16, NEW b \in Word16, F[n][a] = F[n][b] PROVE a = b
    <3>1. ShiftIn(a, y[8 - n]) = ShiftIn(b, y[8 - n])
      BY <1>3, <2>1
    <3>. QED  BY <1>2, <3>1, ShiftInBack
  <2> HIDE DEF F
  <2>. QED  BY <2>1 DEF Lossless
<1> HIDE DEF F
<1>5. Keeps(F, 8, Word16)
  BY <1>3 DEF Keeps
<1>6. ASSUME NEW u \in Word16
      PROVE  \E s : s[0] = u /\ s[8] = CrcStep(u, byte) /\ Follows(s, 8, F, Word16)
                    /\ \A n \in 0..8 : s[n] \in Word16
  <2>1. PICK s : Loops(s, 8, u, F)
    BY LoopsDefined
  <2>2. \A n \in 0..8 : s[n] \in Word16
    BY <1>5, <2>1, LoopsTyped
  <2>3. s[0] = u /\ \A n \in 1..8 : s[n] = F[n][s[n - 1]]
    BY <2>1, LoopsFacts
  <2>4. s = [n \in 0..8 |-> s[n]]
    <3>1. s = [n \in 0..8 |-> IF n = 0 THEN u ELSE F[n][s[n - 1]]]
      BY <2>1 DEF Loops
    <3>. QED  BY ONLY <3>1
  <2>5. \A k \in 0..7 : s[k + 1] = ShiftIn(s[k], y[7 - k])
    <3>1. SUFFICES ASSUME NEW k \in 0..7 PROVE s[k + 1] = ShiftIn(s[k], y[7 - k])
      OBVIOUS
    <3>2. k + 1 \in 1..8 /\ (k + 1) - 1 = k /\ 8 - (k + 1) = 7 - k /\ k \in 0..8
      OBVIOUS
    <3>3. s[k + 1] = F[k + 1][s[k]]
      BY <2>3, <3>2
    <3>4. s[k] \in Word16
      BY <2>2, <3>2
    <3>5. F[k + 1][s[k]] = ShiftIn(s[k], y[8 - (k + 1)])
      BY ONLY <1>3, <3>2, <3>4
    <3>. QED  BY ONLY <3>2, <3>3, <3>5
  <2>6. s[8] = CrcStep(u, byte)
    BY <1>1, <2>3, <2>5, EightShifts
  <2>7. Follows(s, 8, F, Word16)
    BY ONLY <2>3, <2>4 DEF Follows
  <2>. QED  BY <2>2, <2>3, <2>6, <2>7
<1>7. PICK s : /\ s[0] = v /\ s[8] = CrcStep(v, byte) /\ Follows(s, 8, F, Word16)
               /\ \A n \in 0..8 : s[n] \in Word16
  BY <1>6
<1>8. PICK t : /\ t[0] = w /\ t[8] = CrcStep(w, byte) /\ Follows(t, 8, F, Word16)
               /\ \A n \in 0..8 : t[n] \in Word16
  BY <1>6
<1>9. ASSUME NEW n \in 1..8, s[n] = t[n] PROVE s[n - 1] = t[n - 1]
  <2>1. n - 1 \in 0..8
    OBVIOUS
  <2>2. s[n - 1] \in Word16 /\ t[n - 1] \in Word16
    BY <1>7, <1>8, <2>1
  <2>3. F[n][s[n - 1]] = F[n][t[n - 1]]
    BY <1>7, <1>8, <1>9, <2>2 DEF Follows
  <2>. QED  BY <1>4, <2>2, <2>3 DEF Lossless
<1>10. s[8] = t[8]
  BY <1>7, <1>8
<1>11. s[7] = t[7] /\ s[6] = t[6] /\ s[5] = t[5] /\ s[4] = t[4]
  <2>1. s[8 - 1] = t[8 - 1]
    <3>1. 8 \in 1..8
      OBVIOUS
    <3>. QED  BY ONLY <1>9, <1>10, <3>1
  <2>2. s[7 - 1] = t[7 - 1]  BY <1>9, <2>1
  <2>3. s[6 - 1] = t[6 - 1]  BY <1>9, <2>2
  <2>4. s[5 - 1] = t[5 - 1]  BY <1>9, <2>3
  <2>. QED  BY <2>1, <2>2, <2>3, <2>4
<1>12. s[0] = t[0]
  <2>1. s[4 - 1] = t[4 - 1]  BY <1>9, <1>11
  <2>2. s[3 - 1] = t[3 - 1]  BY <1>9, <2>1
  <2>3. s[2 - 1] = t[2 - 1]  BY <1>9, <2>2
  <2>4. s[1 - 1] = t[1 - 1]  BY <1>9, <2>3
  <2>. QED  BY <2>4
<1>. QED  BY <1>7, <1>8, <1>12

\* ... and so is the byte.
LEMMA ByteBack ==
  ASSUME NEW w \in Word16, NEW x \in Byte, NEW y \in Byte, CrcStep(w, x) = CrcStep(w, y)
  PROVE  x = y
<1>1. PICK hi, lo : hi = w \div 256 /\ lo = w % 256
  OBVIOUS
<1>2. hi \in 0..255 /\ lo \in 0..255 /\ w = 256 * hi + lo
  <2>1. w \in Nat /\ w <= 65535
    BY WordRange
  <2>. QED  BY ONLY <1>1, <2>1
<1>3. ASSUME NEW z \in Byte
      PROVE  /\ 256 * Xor8(hi, z) + lo \in Word16 /\ Xor8(hi, z) \in 0..255
             /\ CrcStep(256 * Xor8(hi, z) + lo, 0) = CrcStep(w, z)
  <2>1. PICK m : m = Xor8(hi, z)
    OBVIOUS
  <2>2. m \in 0..255
    <3>1. hi \in Nat /\ z \in Nat
      BY <1>2, ByteRange
    <3>. QED  BY <2>1, <3>1, Xor8Type
  <2>3. /\ 256 * m + lo \in Nat /\ 256 * m + lo <= 65535 /\ (256 * m + lo) \div 256 = m
        /\ ((256 * m + lo) * 256) % 65536 = 256 * lo
        /\ ((256 * hi + lo) * 256) % 65536 = 256 * lo
    BY ONLY <1>2, <2>2
  <2>4. Xor8(m, 0) = m
    BY <2>2, Xor8Zero
  <2>5. CrcStep(256 * m + lo, 0) = Xor16(256 * lo, crc16tab[m + 1])
    BY ONLY <2>3, <2>4 DEF CrcStep
  <2>6. CrcStep(w, z) = Xor16(256 * lo, crc16tab[m + 1])
    BY ONLY <1>1, <1>2, <2>1, <2>3 DEF CrcStep
  <2>7. 256 * m + lo \in Word16
    BY <2>3, WordRange
  <2>. QED  BY ONLY <2>1, <2>2, <2>5, <2>6, <2>7
<1>4. Xor8(hi, x) = Xor8(hi, y)
  <2>1. PICK m, n : m = Xor8(hi, x) /\ n = Xor8(hi, y)
    OBVIOUS
  <2>2. /\ 256 * m + lo \in Word16 /\ 256 * n + lo \in Word16 /\ m \in 0..255 /\ n \in 0..255
        /\ CrcStep(256 * m + lo, 0) = CrcStep(256 * n + lo, 0)
    BY <1>3, <2>1
  <2>3. 0 \in Byte
    BY ByteRange
  <2>4. 256 * m + lo = 256 * n + lo
    BY ONLY <2>2, <2>3, StepBack
  <2>5. m = n
    BY ONLY <1>2, <2>2, <2>4
  <2>. QED  BY <2>1, <2>5
<1>5. PICK a \in Octets : hi = Octet(a)
  BY <1>2, OctetOf
<1>6. PICK b \in Octets : x = Octet(b)
  BY OctetOf DEF Byte
<1>7. PICK c \in Octets : y = Octet(c)
  BY OctetOf DEF Byte
<1> DEFINE d == [i \in 0..7 |-> Xor1(a[i], b[i])]
           e == [i \in 0..7 |-> Xor1(a[i], c[i])]
<1>8. /\ d \in Octets /\ Octet(d) = Xor8(hi, x)
      /\ e \in Octets /\ Octet(e) = Xor8(hi, y)
  BY <1>5, <1>6, <1>7, Xor8Octet
<1>9. d = e
  <2> HIDE DEF d, e
  <2>. QED  BY <1>4, <1>8, OctetOnce
<1>10. \A p, q, r \in Bit : Xor1(p, q) = Xor1(p, r) => q = r
  BY DEF Xor1, Bit
<1>11. ASSUME NEW i \in 0..7 PROVE b[i] = c[i]
  <2>1. d[i] = Xor1(a[i], b[i]) /\ e[i] = Xor1(a[i], c[i])
    OBVIOUS
  <2>2. a[i] \in Bit /\ b[i] \in Bit /\ c[i] \in Bit
    BY DEF Octets
  <2> HIDE DEF d, e
  <2>. QED  BY <1>9, <1>10, <2>1, <2>2
<1>12. b = c
  BY <1>11 DEF Octets
<1>. QED  BY <1>6, <1>7, <1>12

(* Buffers of one length that differ in one byte have different checksums. *)
THEOREM OneByteCounts ==
  ASSUME NEW buf \in Seq(Byte), NEW i \in 1..Len(buf), NEW byte \in Byte, byte # buf[i]
  PROVE  nano_net_crc16([buf EXCEPT ![i] = byte]) # nano_net_crc16(buf)
<1> DEFINE d == [buf EXCEPT ![i] = byte]
           N == Len(buf)
<1>1. /\ d \in Seq(Byte) /\ Len(d) = N /\ N \in Nat /\ d[i] = byte /\ buf[i] \in Byte
      /\ \A n \in 1..N : n # i => d[n] = buf[n]
  OBVIOUS
<1> HIDE DEF d
<1>2. PICK f : Loops(f, N, 0, Passes(buf)) /\ nano_net_crc16(buf) = f[N]
  BY CrcLoops
<1>3. PICK g : Loops(g, N, 0, Passes(d)) /\ nano_net_crc16(d) = g[N]
  BY <1>1, CrcLoops
<1>4. \A n \in 1..N : /\ Keeps(Passes(buf), N, Word16) /\ Keeps(Passes(d), N, Word16)
                      /\ n # i => Passes(d)[n] = Passes(buf)[n]
  <2>1. Keeps(Passes(buf), N, Word16)
    BY PassesFacts DEF Keeps
  <2>2. Keeps(Passes(d), N, Word16)
    <3>1. Keeps(Passes(d), Len(d), Word16)
      BY <1>1, PassesFacts DEF Keeps
    <3>. QED  BY <1>1, <3>1
  <2>3. \A n \in 1..N : n # i => Passes(d)[n] = Passes(buf)[n]
    BY <1>1 DEF Passes
  <2>. QED  BY <2>1, <2>2, <2>3
<1>5. \A n \in 0..N : f[n] \in Word16 /\ g[n] \in Word16
  <2>1. 0 \in Word16
    BY WordRange
  <2>2. \A n \in 0..N : f[n] \in Word16
    BY <1>1, <1>2, <1>4, <2>1, LoopsTyped
  <2>3. \A n \in 0..N : g[n] \in Word16
    BY <1>1, <1>3, <1>4, <2>1, LoopsTyped
  <2>. QED  BY <2>2, <2>3
<1>6. f[i - 1] = g[i - 1]
  <2>1. PICK M : M = i - 1
    OBVIOUS
  <2>2. M \in Nat /\ M <= N /\ \A n \in 1..M : n \in 1..N /\ n # i
    BY <1>1, <2>1
  <2>3. PICK h : Loops(h, M, 0, Passes(buf))
    BY <2>2, LoopsDefined
  <2>4. h[M] = f[M]
    BY <1>1, <1>2, <2>2, <2>3, LoopsAgree
  <2>5. \A n \in 1..M : Passes(buf)[n] = Passes(d)[n]
    BY <1>4, <2>2
  <2>6. h[M] = g[M]
    BY <1>1, <1>3, <2>2, <2>3, <2>5, LoopsAgree
  <2>. QED  BY <2>1, <2>4, <2>6
<1>7. f[i] # g[i]
  <2>1. i - 1 \in 0..N /\ i \in 1..Len(d)
    BY <1>1
  <2>2. f[i] = Passes(buf)[i][f[i - 1]] /\ g[i] = Passes(d)[i][g[i - 1]]
    BY <1>1, <1>2, <1>3, LoopsFacts
  <2>3. f[i - 1] \in Word16
    BY <1>5, <2>1
  <2>4. f[i] = CrcStep(f[i - 1], buf[i])
    BY <2>2, <2>3, PassesFacts
  <2>5. g[i] = CrcStep(f[i - 1], byte)
    BY <1>1, <1>6, <2>1, <2>2, <2>3, PassesFacts
  <2>. QED  BY <1>1, <2>3, <2>4, <2>5, ByteBack
<1>8. \A n \in i + 1 .. N : Passes(buf)[n] = Passes(d)[n] /\ Lossless(Passes(buf), n, Word16)
  <2>1. SUFFICES ASSUME NEW n \in i + 1 .. N
                 PROVE  Passes(buf)[n] = Passes(d)[n] /\ Lossless(Passes(buf), n, Word16)
    BY Zenon
  <2>2. n \in 1..N /\ n # i
    OBVIOUS
  <2>3. buf[n] \in Byte /\ \A v \in Word16 : Passes(buf)[n][v] = CrcStep(v, buf[n])
    BY <2>2, PassesFacts
  <2>4. Lossless(Passes(buf), n, Word16)
    BY ONLY <2>3, StepBack DEF Lossless
  <2>. QED  BY <1>4, <2>2, <2>4
<1>9. f[N] # g[N]
  <2>1. SUFFICES ASSUME f[N] = g[N] PROVE FALSE
    OBVIOUS
  <2>2. i \in 0..N
    OBVIOUS
  <2>3. f[i] = g[i]
    <3>1. Stays(f, N, Word16) /\ Stays(g, N, Word16)
      BY <1>5 DEF Stays
    <3>2. Resumes(Passes(buf), Passes(d), i, N, Word16)
      BY <1>8 DEF Resumes
    <3> HIDE DEF N
    <3>. QED  BY ONLY <1>1, <1>2, <1>3, <2>1, <2>2, <3>1, <3>2, LoopsApart
  <2>. QED  BY <1>7, <2>3
<1>. QED  BY <1>2, <1>3, <1>9 DEF d

\* A frame leaves the accumulator at 0.
LEMMA FrameResidue ==
  ASSUME NEW f \in Seq(Byte), IsFrame(f)
  PROVE  nano_net_crc16(f) = 0
<1> DEFINE b == SubSeq(f, 1, Len(f) - 2)
<1>1. PICK N : N = Len(f) - 2
  OBVIOUS
<1>2. PICK hi, lo : hi = f[N + 1] /\ lo = f[N + 2]
  OBVIOUS
<1>3. Len(f) >= 14 /\ 256 * f[Len(f) - 1] + f[Len(f)] = nano_net_crc16(b)
  BY DEF IsFrame, HeaderSize, CrcSize
<1>4. N \in Nat /\ Len(f) = N + 2 /\ Len(f) - 1 = N + 1 /\ Len(f) - 2 = N
  BY <1>1, <1>3
<1>5. N + 1 \in 1..Len(f) /\ N + 2 \in 1..Len(f) /\ N \in 0..Len(f)
  BY <1>4
<1>6. hi \in Byte /\ lo \in Byte /\ b \in Seq(Byte) /\ Len(b) = N
  BY <1>2, <1>4, <1>5, Prefixes
<1>7. 256 * hi + lo = nano_net_crc16(b)
  BY <1>2, <1>3, <1>4
<1>8. CrcBytes(nano_net_crc16(b)) = <<hi, lo>>
  <2>1. /\ hi \in Nat /\ hi <= 255 /\ lo \in Nat /\ lo <= 255
    BY <1>6, ByteRange
  <2>2. (256 * hi + lo) \div 256 = hi /\ (256 * hi + lo) % 256 = lo
    BY ONLY <2>1
  <2> HIDE DEF b
  <2>. QED  BY ONLY <1>7, <2>2 DEF CrcBytes
<1>9. f = b \o <<hi, lo>>
  <2>1. SubSeq(f, 1, N + 1) = Append(SubSeq(f, 1, N), hi)
    <3>1. (N + 1) - 1 = N
      BY <1>4
    <3>2. SubSeq(f, 1, N + 1) = Append(SubSeq(f, 1, (N + 1) - 1), f[N + 1])
      BY <1>5, Prefixes
    <3>. QED  BY ONLY <1>2, <3>1, <3>2
  <2>2. SubSeq(f, 1, N + 2) = Append(SubSeq(f, 1, N + 1), lo)
    <3>1. (N + 2) - 1 = N + 1
      BY <1>4
    <3>2. SubSeq(f, 1, N + 2) = Append(SubSeq(f, 1, (N + 2) - 1), f[N + 2])
      BY <1>5, Prefixes
    <3>. QED  BY ONLY <1>2, <3>1, <3>2
  <2>3. SubSeq(f, 1, N + 2) = f /\ SubSeq(f, 1, N) = b
    BY <1>4, Prefixes
  <2>4. f = Append(Append(b, hi), lo)
    BY ONLY <2>1, <2>2, <2>3
  <2> HIDE DEF b
  <2>5. b \o <<hi, lo>> = Append(Append(b, hi), lo)
    BY ONLY <1>6
  <2>. QED  BY ONLY <2>4, <2>5
<1> HIDE DEF b
<1>. QED  BY <1>6, <1>8, <1>9, PacketResidue

(* A frame of a batch in which one byte was damaged on the line is never   *)
(* taken for a frame, whichever byte it is and whatever it reads then.     *)
THEOREM PackDamageShows == PackSpec => []DamageShows
<1> DEFINE Inv == BatchTyped /\ FramesOf(pkgs)
<1>1. PackSpec => []Inv
  BY FramesHold
<1>2. Inv => DamageShows
  <2> SUFFICES ASSUME Inv, NEW k \in DOMAIN pkgs, Whole(pkgs[k]),
                      NEW i \in DOMAIN FrameAt(k), NEW byte \in Noise \ {FrameAt(k)[i]},
                      IsFrame([FrameAt(k) EXCEPT ![i] = byte])
               PROVE  FALSE
    BY Zenon DEF DamageShows
  <2>1. Packable(pkgs[k]) /\ FrameAt(k) = Frame(pkgs[k])
    BY FramesAt
  <2>2. PICK f : f = FrameAt(k)
    OBVIOUS
  <2>3. f \in Seq(Byte) /\ nano_net_crc16(f) = 0
    BY <2>1, <2>2, FrameBytes
  <2>4. i \in 1..Len(f) /\ byte \in Byte /\ byte # f[i]
    BY <2>2, <2>3, NoiseAssumption
  <2>5. [f EXCEPT ![i] = byte] \in Seq(Byte)
    BY ONLY <2>3, <2>4
  <2>6. nano_net_crc16([f EXCEPT ![i] = byte]) # 0
    BY ONLY <2>3, <2>4, OneByteCounts
  <2>. QED  BY <2>2, <2>5, <2>6, FrameResidue
<1>. QED  BY <1>1, <1>2, PTL
=============================================================================
