----------------------------- MODULE PartsProofs -----------------------------
(***************************************************************************)
(* The port loop, a port's read loop, the ring buffer and the pool, for    *)
(* every list, clock, limit, size, alignment and sequence of requests.     *)
(***************************************************************************)
EXTENDS RunLoop, Port, RingBuf, Heap, SequenceTheorems, TLAPS

-----------------------------------------------------------------------------
(* nano_net_run: no port is starved, however deep handlers run the host    *)
(* and whatever ports they add.                                            *)

\* What a run in progress has not unpacked is still before the iterator.
Covered(l) == 1..l.due \subseteq l.seen \cup 1..iterator

\* The innermost run ends only where the shared iterator does.
LoopInv ==
  /\ list_head \in Nat /\ runs \in Nat
  /\ iterator \in 0..list_head
  /\ loops \in Seq(Loop)
  /\ \A i \in DOMAIN loops : loops[i].due <= list_head /\ Covered(loops[i])
  /\ loops # <<>> /\ loops[Len(loops)].at = 0 => iterator = 0

LEMMA FollowingFacts ==
  ASSUME NEW n \in Nat
  PROVE  /\ Following(n) \in 0..n
         /\ n = 0 => Following(n) = 0
         /\ 1..n = Unpacked(n) \cup 1..Following(n)
         /\ Unpacked(n) \subseteq Nat
BY DEF Following, Unpacked

LEMMA WitnessedFacts ==
  ASSUME loops \in Seq(Loop), NEW n \in Nat
  PROVE  /\ Witnessed(n) \in Seq(Loop)
         /\ Len(Witnessed(n)) = Len(loops)
         /\ \A i \in 1..Len(loops) :
              /\ Witnessed(n)[i].at = loops[i].at
              /\ Witnessed(n)[i].due = loops[i].due
              /\ Witnessed(n)[i].seen = loops[i].seen \cup Unpacked(n)
<1> DEFINE e(i) == [loops[i] EXCEPT !.seen = @ \cup Unpacked(n)]
           w == [i \in 1..Len(loops) |-> e(i)]
<1>1. Witnessed(n) = w
  BY DEF Witnessed
<1>2. Unpacked(n) \subseteq Nat
  BY FollowingFacts
<1>3. ASSUME NEW i \in 1..Len(loops)
      PROVE  /\ e(i) \in Loop /\ e(i).at = loops[i].at /\ e(i).due = loops[i].due
             /\ e(i).seen = loops[i].seen \cup Unpacked(n)
  <2>1. loops[i] \in Loop
    OBVIOUS
  <2>. QED  BY <1>2, <2>1 DEF Loop
<1> HIDE DEF e
<1>4. w \in Seq(Loop) /\ Len(w) = Len(loops) /\ \A i \in 1..Len(loops) : w[i] = e(i)
  BY <1>3
<1>. QED  BY <1>1, <1>3, <1>4

\* The iterator goes on from n, which all runs in progress have unpacked.
LEMMA CoveredBeyond ==
  ASSUME NEW n \in Nat, NEW l \in Loop, NEW seen,
         iterator' = Following(n), seen = l.seen \cup Unpacked(n),
         1..l.due \subseteq l.seen \cup 1..n
  PROVE  1..l.due \subseteq seen \cup 1..iterator'
BY FollowingFacts

LEMMA LoopBegins == LoopInv /\ RunBegins => LoopInv'
<1> SUFFICES ASSUME LoopInv, RunBegins PROVE LoopInv'
  OBVIOUS
<1> DEFINE w == Witnessed(list_head)
           new == [at |-> list_head, due |-> list_head, seen |-> Unpacked(list_head)]
<1>1. /\ list_head \in Nat /\ runs \in Nat /\ loops \in Seq(Loop)
      /\ loops' = Append(w, new) /\ iterator' = Following(list_head)
      /\ list_head' = list_head /\ runs' = runs + 1
  BY DEF LoopInv, RunBegins
<1>2. /\ iterator' \in 0..list_head /\ (list_head = 0 => iterator' = 0)
      /\ 1..list_head = Unpacked(list_head) \cup 1..iterator'
      /\ Unpacked(list_head) \subseteq Nat
  BY <1>1, FollowingFacts
<1>3. new \in Loop /\ new.at = list_head /\ new.due = list_head /\ new.seen = Unpacked(list_head)
  BY <1>1, <1>2 DEF Loop
<1>4. /\ w \in Seq(Loop) /\ Len(w) = Len(loops)
      /\ \A i \in 1..Len(loops) : /\ w[i].due = loops[i].due
                                  /\ w[i].seen = loops[i].seen \cup Unpacked(list_head)
  BY <1>1, WitnessedFacts
<1> HIDE DEF w, new
<1>5. /\ loops' \in Seq(Loop) /\ Len(loops') = Len(loops) + 1
      /\ loops'[Len(loops) + 1] = new /\ \A i \in 1..Len(loops) : loops'[i] = w[i]
  BY <1>1, <1>3, <1>4
<1>6. ASSUME NEW i \in 1..(Len(loops) + 1)
      PROVE  loops'[i].due <= list_head /\ 1..loops'[i].due \subseteq loops'[i].seen \cup 1..iterator'
  <2>1. CASE i = Len(loops) + 1
    <3>1. loops'[i].due = list_head /\ loops'[i].seen = Unpacked(list_head)
      BY <1>3, <1>5, <2>1
    <3>. QED  BY <1>1, <1>2, <3>1, SMTT(30)
  <2>2. CASE i \in 1..Len(loops)
    <3>1. /\ loops[i] \in Loop /\ loops[i].due <= list_head
      BY <1>1, <2>2 DEF LoopInv
    <3>2. 1..loops[i].due \subseteq 1..list_head
      BY <1>1, <3>1 DEF Loop
    <3>. QED  BY <1>2, <1>4, <1>5, <2>2, <3>1, <3>2
  <2>3. Len(loops) \in Nat
    BY <1>1
  <2>4. i = Len(loops) + 1 \/ i \in 1..Len(loops)
    BY <2>3
  <2>. QED  BY <2>1, <2>2, <2>4
<1>7. (\A i \in DOMAIN loops : loops[i].due <= list_head /\ Covered(loops[i]))'
  BY <1>1, <1>5, <1>6 DEF Covered
<1>8. (loops # <<>> /\ loops[Len(loops)].at = 0 => iterator = 0)'
  BY <1>1, <1>2, <1>3, <1>5
<1>. QED  BY <1>1, <1>2, <1>5, <1>7, <1>8 DEF LoopInv

LEMMA LoopContinues == LoopInv /\ RunContinues => LoopInv'
<1> SUFFICES ASSUME LoopInv, RunContinues PROVE LoopInv'
  OBVIOUS
<1> DEFINE w == Witnessed(iterator)
           n == Len(loops)
           g == [w EXCEPT ![n].at = iterator]
<1>1. /\ list_head \in Nat /\ iterator \in 0..list_head /\ loops \in Seq(Loop)
      /\ n \in Nat \ {0}
      /\ loops' = g /\ iterator' = Following(iterator)
      /\ list_head' = list_head /\ runs' = runs
  BY DEF LoopInv, RunContinues
<1>2. /\ iterator' \in 0..iterator /\ (iterator = 0 => iterator' = 0)
      /\ 1..iterator = Unpacked(iterator) \cup 1..iterator'
  BY <1>1, FollowingFacts
<1>3. /\ w \in Seq(Loop) /\ Len(w) = n
      /\ \A i \in 1..n : /\ w[i].due = loops[i].due
                         /\ w[i].seen = loops[i].seen \cup Unpacked(iterator)
  BY <1>1, WitnessedFacts
<1> HIDE DEF w
<1>4. /\ g \in Seq(Loop) /\ Len(g) = n /\ g[n].at = iterator
      /\ \A i \in 1..n : g[i].due = w[i].due /\ g[i].seen = w[i].seen
  <2>1. \A i \in 1..n : w[i] \in Loop
    BY <1>3
  <2>2. w \in [1..n -> Loop] /\ iterator \in Nat
    BY <1>1, <1>3
  <2>3. g \in [1..n -> Loop]
    BY <1>1, <2>1, <2>2 DEF Loop
  <2>4. g \in Seq(Loop) /\ Len(g) = n
    <3> HIDE DEF g, n
    <3>. QED  BY <1>1, <2>3
  <2>5. g[n].at = iterator /\ \A i \in 1..n : g[i].due = w[i].due /\ g[i].seen = w[i].seen
    BY <1>1, <2>1, <2>2 DEF Loop
  <2>. QED  BY <2>4, <2>5
<1> HIDE DEF g
<1>5. ASSUME NEW i \in 1..n
      PROVE  loops'[i].due <= list_head /\ 1..loops'[i].due \subseteq loops'[i].seen \cup 1..iterator'
  <2>1. loops[i].due <= list_head /\ 1..loops[i].due \subseteq loops[i].seen \cup 1..iterator
    BY <1>1 DEF LoopInv, Covered
  <2>2. loops'[i].due = loops[i].due /\ loops'[i].seen = loops[i].seen \cup Unpacked(iterator)
    BY <1>1, <1>3, <1>4
  <2>. QED  BY <1>2, <2>1, <2>2
<1>6. (\A i \in DOMAIN loops : loops[i].due <= list_head /\ Covered(loops[i]))'
  BY <1>1, <1>4, <1>5 DEF Covered
<1>7. (loops # <<>> /\ loops[Len(loops)].at = 0 => iterator = 0)'
  BY <1>1, <1>2, <1>4
<1>. QED  BY <1>1, <1>2, <1>4, <1>6, <1>7 DEF LoopInv

LEMMA LoopReturns == LoopInv /\ RunReturns => LoopInv' /\ iterator = 0
<1> SUFFICES ASSUME LoopInv, RunReturns PROVE LoopInv' /\ iterator = 0
  OBVIOUS
<1>1. /\ loops \in Seq(Loop) /\ Len(loops) \in Nat \ {0} /\ iterator = 0
      /\ loops' = SubSeq(loops, 1, Len(loops) - 1)
      /\ UNCHANGED <<list_head, iterator, runs>>
  BY DEF LoopInv, RunReturns
<1>2. /\ loops' \in Seq(Loop) /\ Len(loops') = Len(loops) - 1
      /\ \A i \in 1..(Len(loops) - 1) : loops'[i] = loops[i]
  <2> DEFINE last == Len(loops) - 1
             s == SubSeq(loops, 1, last)
  <2>1. last \in Nat /\ last \in Int /\ 1 \in Int
    BY <1>1
  <2>2. \A i \in 1..last : loops[i] \in Loop
    BY <1>1
  <2> HIDE DEF last
  <2>3. /\ s \in Seq(Loop) /\ Len(s) = IF 1 <= last THEN last - 1 + 1 ELSE 0
        /\ \A i \in 1..(last - 1 + 1) : s[i] = loops[1 + i - 1]
    BY <2>1, <2>2, SubSeqProperties
  <2> HIDE DEF s
  <2>4. Len(s) = last /\ \A i \in 1..last : s[i] = loops[i]
    BY <2>1, <2>3
  <2>. QED  BY <1>1, <2>3, <2>4 DEF s, last
<1>. QED  BY <1>1, <1>2 DEF LoopInv, Covered

LEMMA LoopStep == LoopInv /\ [LoopNext]_runVars => LoopInv'
<1> SUFFICES ASSUME LoopInv, [LoopNext]_runVars PROVE LoopInv'
  OBVIOUS
<1>1. CASE AddPort
  <2>1. list_head' = list_head + 1 /\ UNCHANGED <<iterator, loops, runs>>
    BY <1>1 DEF AddPort
  <2>2. \A i \in DOMAIN loops : loops[i].due \in Nat /\ loops[i].due <= list_head /\ Covered(loops[i])
    <3>1. \A i \in DOMAIN loops : loops[i] \in Loop
      BY DEF LoopInv
    <3>. QED  BY <3>1 DEF LoopInv, Loop
  <2>3. (\A i \in DOMAIN loops : loops[i].due <= list_head /\ Covered(loops[i]))'
    BY <2>1, <2>2 DEF LoopInv, Covered
  <2>. QED  BY <2>1, <2>3 DEF LoopInv
<1>2. CASE UNCHANGED runVars
  BY <1>2 DEF runVars, LoopInv, Covered
<1>. QED  BY <1>1, <1>2, LoopBegins, LoopContinues, LoopReturns DEF LoopNext

LEMMA LoopInvariant == LoopSpec => []LoopInv
<1>1. LoopInit => LoopInv
  BY RunAssumption DEF LoopInit, LoopInv
<1>. QED  BY <1>1, LoopStep, PTL DEF LoopSpec

(* Types, and an iterator inside its list.                                 *)
THEOREM LoopTypes == LoopSpec => []LoopTypeOK
<1>1. LoopInv => LoopTypeOK
  BY DEF LoopInv, LoopTypeOK
<1>. QED  BY <1>1, LoopInvariant, PTL

(* A run that returns leaves no port of its beginning unserved.            *)
THEOREM LoopStarvesNoPort == LoopSpec => NoPortStarved
<1> DEFINE AllServed ==
      RunReturns => 1..loops[Len(loops)].due \subseteq loops[Len(loops)].seen
<1>1. LoopInv => AllServed
  <2> SUFFICES ASSUME LoopInv, RunReturns
               PROVE  1..loops[Len(loops)].due \subseteq loops[Len(loops)].seen
    OBVIOUS
  <2>1. Len(loops) \in DOMAIN loops /\ iterator = 0
    BY LoopReturns DEF LoopInv, RunReturns
  <2>2. Covered(loops[Len(loops)])
    BY <2>1 DEF LoopInv
  <2>. QED  BY <2>1, <2>2 DEF Covered
<1>2. NoPortStarved <=> [][AllServed]_runVars
  BY PTL DEF NoPortStarved
<1>. QED  BY <1>1, <1>2, LoopInvariant, PTL

-----------------------------------------------------------------------------
(* nano_net_port_unpack: a run of a port.                                  *)

(* ReadsBounded needs to know where the loop is: while a chunk is being    *)
(* unpacked its read is not counted yet.  Outside that nothing of read_buf *)
(* is left, so that a run may forget the length of the last read.          *)
PortInv ==
  /\ TypeOK
  /\ pc \in {"read", "unpack"} => read_cnt <= MaxPoll + 1
  /\ read_cnt <= MaxPoll + 2
  /\ pc # "unpack" => chunk = 0

LEMMA ModRange ==
  ASSUME NEW n \in Int, NEW m \in Nat \ {0}
  PROVE  n % m \in 0..(m - 1)
OBVIOUS

LEMMA PortStarts == Init => PortInv
BY PortAssumption DEF Init, PortInv, TypeOK

LEMMA PortStep == PortInv /\ [Next]_vars => PortInv'
<1> SUFFICES ASSUME PortInv, [Next]_vars PROVE PortInv'
  OBVIOUS
<1> USE PortAssumption
<1>1. CASE Run
  BY <1>1 DEF Run, PortInv, TypeOK
<1>2. CASE Read
  <2>1. read_len' \in 0..OnceSize /\ rx' \in 0..RxSize
    BY <1>2 DEF Read, PortInv, TypeOK
  <2>. QED  BY <1>2, <2>1 DEF Read, PortInv, TypeOK
<1>3. CASE Unpack
  BY <1>3 DEF Unpack, PortInv, TypeOK
<1>4. CASE EndOfChunk
  <2>1. read_cnt + 1 <= 255 /\ (read_cnt + 1) % 256 = read_cnt + 1
    BY <1>4 DEF EndOfChunk, PortInv, TypeOK
  <2>. QED  BY <1>4, <2>1 DEF EndOfChunk, PortInv, TypeOK
<1>5. CASE CheckSilence
  BY <1>5 DEF CheckSilence, PortInv, TypeOK
<1>6. CASE Arrive
  BY <1>6 DEF Arrive, loopVars, PortInv, TypeOK
<1>7. CASE Tick
  <2>1. (now + 1) % TimeMod \in 0..(TimeMod - 1)
    BY ModRange DEF PortInv, TypeOK
  <2>. QED  BY <1>7, <2>1 DEF Tick, loopVars, PortInv, TypeOK
<1>8. CASE UNCHANGED vars
  BY <1>8 DEF vars, loopVars, PortInv, TypeOK
<1>. QED  BY <1>1, <1>2, <1>3, <1>4, <1>5, <1>6, <1>7, <1>8 DEF Next, Running

(* Only bytes that were read reach the decoder, and a run makes at most    *)
(* MaxPoll + 2 reads that bring something: the loop of nano_net_port_unpack *)
(* at any limit its 8-bit counter can reach.                               *)
THEOREM PortSafe == Spec => [](TypeOK /\ ReadsBounded)
<1>1. Spec => []PortInv
  BY PortStarts, PortStep, PTL DEF Spec
<1>2. PortInv => TypeOK /\ ReadsBounded
  BY DEF PortInv, ReadsBounded
<1>. QED  BY <1>1, <1>2, PTL

(* Types: the 8-bit count of reads and the clock do not leave their range. *)
THEOREM PortTypes == Spec => []TypeOK
BY PortSafe, PTL

-----------------------------------------------------------------------------
(* The ring buffer.                                                        *)

\* x modulo Size, for the sums of two positions.
At(x) == IF x < Size THEN x ELSE x - Size

LEMMA Wrap == ASSUME NEW x \in 0..(2 * Size - 1) PROVE x % Size = At(x) /\ At(x) \in Index
<1>1. Size \in Nat \ {0}
  BY RingAssumption
<1> DEFINE q == x \div Size
           r == x % Size
<1>2. q \in Int /\ r \in 0..(Size - 1) /\ x = (Size * q) + r
  BY <1>1
<1> HIDE DEF q, r
<1>3. q >= 0
  BY <1>1, <1>2
<1>4. q <= 1
  BY <1>1, <1>2
<1>5. q = 0 \/ q = 1
  BY <1>2, <1>3, <1>4
<1>. QED  BY <1>1, <1>2, <1>5 DEF At, Index, r

LEMMA Small ==
  ASSUME NEW x \in Nat, NEW m \in Nat \ {0}, x < m PROVE x % m = x
<1> DEFINE q == x \div m
           r == x % m
<1>1. q \in Int /\ r \in 0..(m - 1) /\ x = (m * q) + r
  OBVIOUS
<1> HIDE DEF q, r
<1>2. q >= 0
  BY <1>1
<1>3. q <= 0
  BY <1>1
<1>4. q = 0
  BY <1>1, <1>2, <1>3
<1>. QED  BY <1>1, <1>4 DEF r


\* Available and Content for a buffer b with head h and tail t.
Between(h, t) == IF h >= t THEN h - t ELSE h + Size - t
Held(b, h, t) == [k \in 1..Between(h, t) |-> b[At(t + k - 1)]]

\* Where head and tail are, and what lies in the buffer.
RingInv ==
  /\ buffer \in [Index -> RingByte]
  /\ head \in Index /\ tail \in Index
  /\ got \in Seq(RingByte)

LEMMA BetweenFacts ==
  ASSUME NEW h \in Index, NEW t \in Index
  PROVE  /\ (h + Size - t) % Size = Between(h, t)
         /\ (t + Size - h - 1) % Size = Size - 1 - Between(h, t)
         /\ Between(h, t) \in Index
         /\ \A k \in 1..Between(h, t) :
              (t + k - 1) % Size = At(t + k - 1) /\ At(t + k - 1) \in Index
<1>1. Size \in Nat \ {0} /\ h \in 0..(Size - 1) /\ t \in 0..(Size - 1)
  BY RingAssumption DEF Index
<1>2. h + Size - t \in 0..(2 * Size - 1) /\ t + Size - h - 1 \in 0..(2 * Size - 1)
  BY <1>1
<1>3. (h + Size - t) % Size = At(h + Size - t) /\ (t + Size - h - 1) % Size = At(t + Size - h - 1)
  BY <1>2, Wrap
<1>4. At(h + Size - t) = Between(h, t) /\ At(t + Size - h - 1) = Size - 1 - Between(h, t)
  BY <1>1 DEF At, Between
<1>5. Between(h, t) \in 0..(Size - 1)
  BY <1>1 DEF Between
<1>6. ASSUME NEW k \in 1..Between(h, t)
      PROVE  (t + k - 1) % Size = At(t + k - 1) /\ At(t + k - 1) \in Index
  <2>1. t + k - 1 \in 0..(2 * Size - 1)
    BY <1>1, <1>5
  <2>. QED  BY <2>1, Wrap DEF Index
<1>. QED  BY <1>3, <1>4, <1>5, <1>6 DEF Index

LEMMA HeldFacts ==
  ASSUME NEW b \in [Index -> RingByte], NEW h \in Index, NEW t \in Index
  PROVE  /\ Held(b, h, t) \in Seq(RingByte) /\ Len(Held(b, h, t)) = Between(h, t)
         /\ \A k \in 1..Between(h, t) : Held(b, h, t)[k] = b[At(t + k - 1)]
<1>1. Between(h, t) \in Nat
  BY BetweenFacts DEF Index
<1>2. \A k \in 1..Between(h, t) : b[At(t + k - 1)] \in RingByte
  BY BetweenFacts
<1>. QED  BY <1>1, <1>2 DEF Held


LEMMA Unrolled ==
  ASSUME NEW b \in [Index -> RingByte], NEW h \in Index, NEW t \in Index
  PROVE  [k \in 1..((h + Size - t) % Size) |-> b[(t + k - 1) % Size]] = Held(b, h, t)
BY BetweenFacts DEF Held

\* What the module's own definitions come to.
LEMMA Meaning ==
  ASSUME RingInv
  PROVE  /\ Available = Between(head, tail)
         /\ Size <= SpaceMod => FreeSpace = Size - 1 - Between(head, tail)
         /\ Content = Held(buffer, head, tail)
<1>1. /\ (head + Size - tail) % Size = Between(head, tail)
      /\ (tail + Size - head - 1) % Size = Size - 1 - Between(head, tail)
      /\ Between(head, tail) \in 0..(Size - 1)
  BY BetweenFacts DEF RingInv, Index
<1> DEFINE x == Size - 1 - Between(head, tail)
<1>2. x \in Nat /\ SpaceMod \in Nat \ {0} /\ (Size <= SpaceMod => x < SpaceMod)
  BY <1>1, RingAssumption
<1>3. Size <= SpaceMod => x % SpaceMod = x
  BY <1>2, Small
<1>4. Content = Held(buffer, head, tail)
  BY Unrolled DEF RingInv, Content, Available
<1>. QED  BY <1>1, <1>3, <1>4 DEF FreeSpace, Available

LEMMA ContentAfter ==
  ASSUME RingInv' PROVE Content' = Held(buffer', head', tail')
BY Unrolled DEF RingInv, Content, Available

-----------------------------------------------------------------------------
\* The buffer after n bytes have been stored from h on.
Filled(b, h, data, n) ==
  [i \in Index |-> IF h <= i /\ i < h + n THEN data[i - h + 1]
                   ELSE IF h + n > Size /\ i < n - (Size - h) THEN data[Size - h + i + 1]
                   ELSE b[i]]

\* A write of n bytes puts them behind the others.
LEMMA Put ==
  ASSUME NEW b \in [Index -> RingByte], NEW h \in Index, NEW t \in Index,
         NEW data \in Seq(RingByte), NEW n \in 0..Len(data), n <= Size - 1 - Between(h, t)
  PROVE  /\ Filled(b, h, data, n) \in [Index -> RingByte]
         /\ At(h + n) \in Index /\ (h + n) % Size = At(h + n)
         /\ Held(Filled(b, h, data, n), At(h + n), t) = Held(b, h, t) \o SubSeq(data, 1, n)
<1> DEFINE e(i) == IF h <= i /\ i < h + n THEN data[i - h + 1]
                   ELSE IF h + n > Size /\ i < n - (Size - h) THEN data[Size - h + i + 1]
                   ELSE b[i]
           a == Between(h, t)
           g == At(h + n)
           c == Filled(b, h, data, n)
<1>1. /\ Size \in Nat \ {0} /\ h \in 0..(Size - 1) /\ t \in 0..(Size - 1)
      /\ Len(data) \in Nat /\ n \in Nat /\ n <= Len(data) /\ a \in 0..(Size - 1)
      /\ a + n <= Size - 1 /\ a = (IF h >= t THEN h - t ELSE h + Size - t)
  BY RingAssumption, BetweenFacts DEF Index, Between
<1>2. g \in Index /\ (h + n) % Size = g
  <2>1. h + n \in 0..(2 * Size - 1)
    BY <1>1
  <2>. QED  BY <2>1, Wrap
<1>3. Between(g, t) = a + n
  BY <1>1 DEF At, Between
<1>4. ASSUME NEW i \in Index PROVE e(i) \in RingByte
  <2>1. i \in 0..(Size - 1) /\ b[i] \in RingByte
    BY DEF Index
  <2>2. h <= i /\ i < h + n => i - h + 1 \in 1..Len(data)
    BY <1>1, <2>1
  <2>3. h + n > Size /\ i < n - (Size - h) => Size - h + i + 1 \in 1..Len(data)
    BY <1>1, <2>1
  <2>4. \A j \in 1..Len(data) : data[j] \in RingByte
    OBVIOUS
  <2>. QED  BY <2>1, <2>2, <2>3, <2>4
<1>5. c = [i \in Index |-> e(i)]
  BY DEF Filled
<1>6. ASSUME NEW k \in 1..a PROVE e(At(t + k - 1)) = b[At(t + k - 1)]
  BY <1>1 DEF At
<1>7. ASSUME NEW j \in 1..n PROVE e(At(t + a + j - 1)) = data[j]
  <2>1. CASE h + j - 1 < Size
    <3>1. At(t + a + j - 1) = h + j - 1
      BY <1>1, <2>1 DEF At
    <3>2. h <= h + j - 1 /\ h + j - 1 < h + n /\ (h + j - 1) - h + 1 = j
      BY <1>1
    <3>. QED  BY <3>1, <3>2
  <2>2. CASE h + j - 1 >= Size
    <3>1. At(t + a + j - 1) = h + j - 1 - Size
      BY <1>1, <2>2 DEF At
    <3>2. /\ ~(h <= h + j - 1 - Size) /\ h + n > Size
          /\ h + j - 1 - Size < n - (Size - h) /\ Size - h + (h + j - 1 - Size) + 1 = j
      BY <1>1, <2>2
    <3>. QED  BY <3>1, <3>2
  <2>. QED  BY <1>1, <2>1, <2>2
<1> HIDE DEF e, c
<1>8. c \in [Index -> RingByte] /\ \A i \in Index : c[i] = e(i)
  BY <1>4, <1>5
<1> DEFINE new == Held(c, g, t)
           old == Held(b, h, t)
           d == SubSeq(data, 1, n)
           all == old \o d
<1>9. /\ new \in Seq(RingByte) /\ Len(new) = a + n
      /\ \A k \in 1..(a + n) : new[k] = c[At(t + k - 1)] /\ At(t + k - 1) \in Index
  <2> HIDE DEF g, new, a
  <2>1. /\ Held(c, g, t) \in Seq(RingByte) /\ Len(Held(c, g, t)) = Between(g, t)
        /\ \A k \in 1..Between(g, t) : Held(c, g, t)[k] = c[At(t + k - 1)]
    BY <1>2, <1>8, HeldFacts
  <2>2. \A k \in 1..Between(g, t) : At(t + k - 1) \in Index
    BY <1>2, BetweenFacts
  <2>. QED  BY <1>3, <2>1, <2>2 DEF new
<1>10. /\ old \in Seq(RingByte) /\ Len(old) = a
       /\ \A k \in 1..a : old[k] = b[At(t + k - 1)]
  BY HeldFacts
<1>11. d \in Seq(RingByte) /\ Len(d) = n /\ \A j \in 1..n : d[j] = data[j]
  BY <1>1
<1> HIDE DEF g, a, new, old, d
<1>12. /\ all \in Seq(RingByte) /\ Len(all) = a + n
       /\ \A k \in 1..(a + n) : all[k] = IF k <= a THEN old[k] ELSE d[k - a]
  BY <1>10, <1>11, ConcatProperties
<1> HIDE DEF all
<1>13. ASSUME NEW k \in 1..(a + n) PROVE new[k] = all[k]
  <2>1. new[k] = e(At(t + k - 1))
    BY <1>8, <1>9
  <2>2. CASE k <= a
    <3>1. k \in 1..a
      BY <1>1, <2>2
    <3>. QED  BY <1>6, <1>10, <1>12, <2>1, <2>2, <3>1
  <2>3. CASE ~(k <= a)
    <3> DEFINE j == k - a
    <3>1. j \in 1..n /\ t + a + j - 1 = t + k - 1
      BY <1>1, <2>3
    <3> HIDE DEF j
    <3>2. e(At(t + k - 1)) = data[j]
      BY <1>7, <3>1
    <3>3. all[k] = d[j]
      BY <1>12, <2>3 DEF j
    <3>. QED  BY <1>11, <2>1, <3>1, <3>2, <3>3
  <2>. QED  BY <2>2, <2>3
<1>14. new = all
  <2>1. Len(new) = Len(all) /\ \A k \in 1..Len(new) : new[k] = all[k]
    BY <1>9, <1>12, <1>13
  <2>. QED  BY <1>9, <1>12, <2>1, SeqEqual
<1>. QED  BY <1>2, <1>8, <1>14 DEF c, g, new, all, old, d

\* A read of n bytes takes the oldest.
LEMMA Get ==
  ASSUME NEW b \in [Index -> RingByte], NEW h \in Index, NEW t \in Index,
         NEW n \in 0..Between(h, t)
  PROVE  /\ At(t + n) \in Index /\ (t + n) % Size = At(t + n)
         /\ [k \in 1..n |-> IF k <= Size - t THEN b[t + k - 1] ELSE b[k - (Size - t) - 1]]
              = SubSeq(Held(b, h, t), 1, n)
         /\ Held(b, h, At(t + n)) = SubSeq(Held(b, h, t), n + 1, Len(Held(b, h, t)))
         /\ SubSeq(Held(b, h, t), 1, n) \in Seq(RingByte)
<1> DEFINE a == Between(h, t)
           g == At(t + n)
           old == Held(b, h, t)
<1>1. /\ Size \in Nat \ {0} /\ h \in 0..(Size - 1) /\ t \in 0..(Size - 1)
      /\ a \in 0..(Size - 1) /\ n \in Nat /\ n <= a
      /\ a = (IF h >= t THEN h - t ELSE h + Size - t)
  BY RingAssumption, BetweenFacts DEF Index, Between
<1>2. g \in Index /\ (t + n) % Size = g
  <2>1. t + n \in 0..(2 * Size - 1)
    BY <1>1
  <2>. QED  BY <2>1, Wrap
<1>3. Between(h, g) = a - n
  BY <1>1 DEF At, Between
<1>4. \A k \in 1..(a - n) : At(g + k - 1) = At(t + (n + k) - 1)
  BY <1>1 DEF At
<1>5. \A k \in 1..n : (IF k <= Size - t THEN b[t + k - 1] ELSE b[k - (Size - t) - 1])
                         = b[At(t + k - 1)]
  BY <1>1 DEF At
<1>6. /\ old \in Seq(RingByte) /\ Len(old) = a
      /\ \A k \in 1..a : old[k] = b[At(t + k - 1)]
  BY HeldFacts
<1>7. Held(b, h, g) = [k \in 1..(a - n) |-> b[At(g + k - 1)]]
  BY <1>3 DEF Held
<1> HIDE DEF g, a, old
<1>8. SubSeq(old, 1, n) = [k \in 1..n |-> old[k]] /\ SubSeq(old, 1, n) \in Seq(RingByte)
  BY <1>1, <1>6
<1>9. SubSeq(old, n + 1, a) = [k \in 1..(a - n) |-> old[n + k]]
  BY <1>1, <1>6
<1>10. [k \in 1..n |-> IF k <= Size - t THEN b[t + k - 1] ELSE b[k - (Size - t) - 1]]
         = SubSeq(old, 1, n)
  <2> DEFINE s(k) == IF k <= Size - t THEN b[t + k - 1] ELSE b[k - (Size - t) - 1]
  <2>1. \A k \in 1..n : s(k) = old[k]
    BY <1>1, <1>5, <1>6
  <2> HIDE DEF s
  <2>2. [k \in 1..n |-> s(k)] = [k \in 1..n |-> old[k]]
    BY <2>1
  <2>. QED  BY <1>8, <2>2 DEF s
<1>11. Held(b, h, g) = SubSeq(old, n + 1, a)
  <2>1. \A k \in 1..(a - n) : old[n + k] = b[At(g + k - 1)]
    BY <1>1, <1>4, <1>6
  <2>. QED  BY <1>7, <1>9, <2>1
<1>. QED  BY <1>2, <1>6, <1>8, <1>10, <1>11 DEF g, old

-----------------------------------------------------------------------------
LEMMA WriteStep ==
  ASSUME RingInv, Size <= SpaceMod, NEW data \in Seq(RingByte), RingWrite(data)
  PROVE  RingInv' /\ Queue!Write(data)
<1> DEFINE n == Least(Len(data), FreeSpace)
           a == Between(head, tail)
<1>1. FreeSpace = Size - 1 - a /\ Content = Held(buffer, head, tail)
  BY Meaning
<1>2. a \in 0..(Size - 1) /\ Size \in Nat /\ Len(data) \in Nat
  <2>1. a \in Index
    BY BetweenFacts DEF RingInv
  <2>2. Len(data) \in Nat
    OBVIOUS
  <2>. QED  BY <2>1, <2>2, RingAssumption DEF Index
<1> HIDE DEF a
<1>3. /\ n \in 0..Len(data) /\ n <= Size - 1 - a
      /\ n = Queue!Least(Len(data), (Size - 1) - a)
  BY <1>1, <1>2 DEF Least, Queue!Least
<1> HIDE DEF n
<1>4. arg' = data /\ buffer' = Stored(data, n) /\ head' = (head + n) % Size
      /\ tail' = tail /\ got' = got
  BY DEF RingWrite, n
<1>5. /\ buffer' \in [Index -> RingByte] /\ head' \in Index
      /\ Held(buffer', head', tail) = Held(buffer, head, tail) \o SubSeq(data, 1, n)
  <2>1. buffer \in [Index -> RingByte] /\ head \in Index /\ tail \in Index
    BY DEF RingInv
  <2>2. n <= Size - 1 - Between(head, tail)
    BY <1>3 DEF a
  <2>3. Stored(data, n) = Filled(buffer, head, data, n)
    BY DEF Stored, Filled
  <2>4. /\ Stored(data, n) \in [Index -> RingByte]
        /\ At(head + n) \in Index /\ (head + n) % Size = At(head + n)
        /\ Held(Stored(data, n), At(head + n), tail)
             = Held(buffer, head, tail) \o SubSeq(data, 1, n)
    BY <1>3, <2>1, <2>2, <2>3, Put
  <2>. QED  BY <1>4, <2>4
<1>6. RingInv'
  BY <1>4, <1>5 DEF RingInv, Index
<1>7. Content' = Content \o SubSeq(data, 1, n)
  BY <1>1, <1>4, <1>5, <1>6, ContentAfter
<1>8. Len(Content) = a
  BY <1>1, HeldFacts DEF RingInv, a
<1>. QED  BY <1>3, <1>4, <1>6, <1>7, <1>8 DEF Queue!Write

LEMMA ReadStep ==
  ASSUME RingInv, NEW len \in Nat, RingRead(len)
  PROVE  RingInv' /\ Queue!Read(len)
<1> DEFINE n == Least(len, Available)
           a == Between(head, tail)
           held == Held(buffer, head, tail)
<1>1. Available = a /\ Content = held
  BY Meaning
<1>2. a \in Nat /\ Len(held) = a
  <2>1. buffer \in [Index -> RingByte] /\ head \in Index /\ tail \in Index
    BY DEF RingInv
  <2>2. a \in Index /\ Len(held) = a
    BY <2>1, BetweenFacts, HeldFacts
  <2>. QED  BY <2>2, RingAssumption DEF Index
<1>3. n \in 0..a /\ n = Queue!Least(len, Len(Content))
  BY <1>1, <1>2 DEF Least, Queue!Least
<1>4. /\ arg' = <<len>> /\ got' = Copied(n) /\ tail' = (tail + n) % Size
      /\ buffer' = buffer /\ head' = head
  BY DEF RingRead
<1> HIDE DEF n
<1>5. /\ tail' \in Index /\ Copied(n) = SubSeq(held, 1, n) /\ Copied(n) \in Seq(RingByte)
      /\ Held(buffer, head, tail') = SubSeq(held, n + 1, Len(held))
  <2>1. /\ At(tail + n) \in Index /\ (tail + n) % Size = At(tail + n)
        /\ Copied(n) = SubSeq(held, 1, n) /\ SubSeq(held, 1, n) \in Seq(RingByte)
        /\ Held(buffer, head, At(tail + n)) = SubSeq(held, n + 1, Len(held))
    BY <1>3, Get DEF RingInv, Copied
  <2>. QED  BY <1>4, <2>1
<1> HIDE DEF held, a
<1>6. RingInv'
  BY <1>4, <1>5 DEF RingInv, Index
<1>7. Content' = SubSeq(Content, n + 1, Len(Content))
  BY <1>1, <1>4, <1>5, <1>6, ContentAfter
<1>8. got' = SubSeq(Content, 1, n)
  BY <1>1, <1>4, <1>5
<1>. QED  BY <1>3, <1>4, <1>6, <1>7, <1>8 DEF Queue!Read

\* With head = tail = 0 nothing is held.
LEMMA NothingHeld ==
  ASSUME NEW b PROVE 0 \in Index /\ Held(b, 0, 0) = <<>>
<1>1. 0 \in Index /\ Between(0, 0) = 0
  BY RingAssumption DEF Between, Index
<1>. QED  BY <1>1 DEF Held

LEMMA ClearStep == ASSUME RingInv, RingClear PROVE RingInv' /\ Queue!Clear
<1>1. RingInv'
  BY NothingHeld DEF RingInv, RingClear, Index
<1>2. Content' = <<>>
  BY <1>1, ContentAfter, NothingHeld DEF RingClear
<1>. QED  BY <1>1, <1>2 DEF RingClear, Queue!Clear

LEMMA RingStarts == RingInit => RingInv /\ Queue!Init
<1> SUFFICES ASSUME RingInit PROVE RingInv /\ Queue!Init
  OBVIOUS
<1>1. RingInv
  BY NothingHeld DEF RingInit, RingInv
<1>2. Content = <<>>
  BY <1>1, Meaning, NothingHeld DEF RingInit
<1>. QED  BY <1>1, <1>2 DEF RingInit, Queue!Init

LEMMA RingStep ==
  ASSUME Size <= SpaceMod, RingInv, [RingNext]_ringVars
  PROVE  RingInv' /\ [Queue!Next]_<<Content, arg, got>>
<1>1. ASSUME NEW n \in 1..MaxLen, NEW data \in [1..n -> RingByte], RingWrite(data)
      PROVE  RingInv' /\ Queue!Next
  <2>1. data \in Seq(RingByte)
    BY <1>1, RingAssumption
  <2>. QED  BY <1>1, <2>1, WriteStep DEF Queue!Next
<1>2. ASSUME NEW len \in 1..MaxLen, RingRead(len) PROVE RingInv' /\ Queue!Next
  <2>1. len \in Nat
    BY <1>2, RingAssumption
  <2>. QED  BY <1>2, <2>1, ReadStep DEF Queue!Next
<1>3. CASE RingClear
  BY <1>3, ClearStep DEF Queue!Next
<1>4. CASE UNCHANGED ringVars
  BY <1>4 DEF ringVars, RingInv, Index, Content, Available
<1>. QED  BY <1>1, <1>2, <1>3, <1>4 DEF RingNext

(* A ring of any size up to that of its uint16_t is a queue of one byte    *)
(* less, wherever head and tail stand.                                     *)
THEOREM RingIsFifo == ASSUME Size <= SpaceMod PROVE RingSpec => ImplementsFifo
<1>1. RingInv /\ [RingNext]_ringVars => RingInv' /\ [Queue!Next]_<<Content, arg, got>>
  BY RingStep
<1>. QED  BY <1>1, RingStarts, PTL DEF RingSpec, ImplementsFifo, Queue!Spec, Queue!vars

(* The two tests of such a ring tell what a call can do.                   *)
THEOREM RingTests == ASSUME Size <= SpaceMod PROVE RingSpec => []EmptyAndFull
<1>1. RingInv => EmptyAndFull
  <2> SUFFICES ASSUME RingInv PROVE EmptyAndFull
    OBVIOUS
  <2> DEFINE a == Between(head, tail)
  <2>1. /\ Available = a /\ FreeSpace = Size - 1 - a
        /\ Size \in Nat \ {0} /\ head \in 0..(Size - 1) /\ tail \in 0..(Size - 1)
    BY Meaning, RingAssumption DEF RingInv, Index
  <2>2. (head + 1) % Size = At(head + 1)
    <3>1. head + 1 \in 0..(2 * Size - 1)
      BY <2>1
    <3>. QED  BY <3>1, Wrap
  <2>3. /\ head = tail <=> a = 0
        /\ At(head + 1) = tail <=> Size - 1 - a = 0
        /\ Size > 1 => ~(head = tail /\ At(head + 1) = tail)
    BY <2>1 DEF Between, At
  <2>. QED  BY <2>1, <2>2, <2>3 DEF EmptyAndFull, IsEmpty, IsFull
<1>2. RingInv /\ [RingNext]_ringVars => RingInv'
  BY RingStep
<1>. QED  BY <1>1, <1>2, RingStarts, PTL DEF RingSpec

(* Its positions stay inside the buffer and reads return bytes, for such a *)
(* ring.                                                                   *)
THEOREM RingTypes == ASSUME Size <= SpaceMod PROVE RingSpec => []RingTypeOK
<1> DEFINE ArgTyped == arg \in Seq(RingByte \cup Nat)
<1>1. RingInit => ArgTyped
  BY DEF RingInit
<1>2. ArgTyped /\ [RingNext]_ringVars => ArgTyped'
  <2> SUFFICES ASSUME ArgTyped, [RingNext]_ringVars PROVE ArgTyped'
    OBVIOUS
  <2>1. ASSUME NEW n \in 1..MaxLen, NEW data \in [1..n -> RingByte], RingWrite(data)
        PROVE  ArgTyped'
    <3>1. data \in Seq(RingByte \cup Nat)
      BY RingAssumption
    <3>. QED  BY <2>1, <3>1 DEF RingWrite
  <2>2. ASSUME NEW len \in 1..MaxLen, RingRead(len) PROVE ArgTyped'
    <3>1. len \in RingByte \cup Nat
      BY RingAssumption
    <3>. QED  BY <2>2, <3>1 DEF RingRead
  <2>3. CASE RingClear
    BY <2>3 DEF RingClear
  <2>4. CASE UNCHANGED ringVars
    BY <2>4 DEF ringVars
  <2>. QED  BY <2>1, <2>2, <2>3, <2>4 DEF RingNext
<1>3. RingInv /\ ArgTyped => RingTypeOK
  BY DEF RingInv, RingTypeOK
<1>4. RingInv /\ [RingNext]_ringVars => RingInv'
  BY RingStep
<1> HIDE DEF ArgTyped
<1>. QED  BY <1>1, <1>2, <1>3, <1>4, RingStarts, PTL DEF RingSpec

-----------------------------------------------------------------------------
(* The pool: what it guarantees as long as its pointer does not wrap       *)
(* around.                                                                 *)

\* used_ptr stays below AddrMod for as long as gone is bounded by MaxUsed.
NoWrap ==
  \A b \in Buffers : /\ b.buff + b.align < AddrMod
                     /\ \A s \in Requests : b.buff + MaxUsed + s + b.align < AddrMod

-----------------------------------------------------------------------------
(* Alignment.                                                              *)

LEMMA Quotient ==
  ASSUME NEW n \in Nat, NEW a \in Nat \ {0}
  PROVE  /\ n = a * (n \div a) + (n % a)
         /\ n \div a \in Nat /\ n % a \in 0..(a - 1)
OBVIOUS

LEMMA MultipleMod ==
  ASSUME NEW q \in Nat, NEW a \in Nat \ {0}
  PROVE  (a * q) % a = 0
OBVIOUS

LEMMA GapAligns ==
  ASSUME NEW n \in Nat, NEW a \in Nat
  PROVE  /\ Gap(n, a) \in 0..a
         /\ a # 0 => (n + Gap(n, a)) % a = 0
<1>1. CASE a = 0 \/ n % a = 0
  BY <1>1 DEF Gap
<1>2. CASE a # 0 /\ n % a # 0
  <2> DEFINE q == n \div a
             r == n % a
  <2>1. n = a * q + r /\ q \in Nat /\ r \in 0..(a - 1)
    BY <1>2, Quotient
  <2>2. Gap(n, a) = a - r
    BY <1>2 DEF Gap
  <2> HIDE DEF q, r
  <2>3. a * q + a = a * (q + 1)
    BY <2>1
  <2>4. n + Gap(n, a) = a * (q + 1)
    BY <2>1, <2>2, <2>3
  <2>5. (a * (q + 1)) % a = 0
    BY <1>2, <2>1, MultipleMod
  <2>. QED  BY <2>1, <2>2, <2>4, <2>5
<1>. QED  BY <1>1, <1>2

LEMMA Distribute ==
  ASSUME NEW a \in Nat, NEW x \in Nat, NEW y \in Nat
  PROVE  a * x + a * y = a * (x + y)
OBVIOUS

\* The sum of a multiple of a and a number filled up to one is a multiple.
LEMMA FillUp ==
  ASSUME NEW n \in Nat, NEW s \in Nat, NEW a \in Nat \ {0}, n % a = 0,
         NEW fill, fill = (a - (s % a)) % a
  PROVE  fill \in 0..a /\ (n + (s + fill)) % a = 0
<1> DEFINE q == n \div a
           p == s \div a
           r == s % a
<1>1. n = a * q /\ q \in Nat
  BY Quotient
<1>2. s = a * p + r /\ p \in Nat /\ r \in 0..(a - 1)
  BY Quotient
<1>3. fill = (a - r) % a
  OBVIOUS
<1> HIDE DEF q, p, r
<1>4. n + a * p = a * (q + p)
  BY <1>1, <1>2, Distribute
<1>5. CASE r = 0
  <2>1. fill = 0
    BY <1>3, <1>5
  <2>2. n + (s + fill) = a * (q + p)
    BY ONLY <1>1, <1>2, <1>4, <1>5, <2>1, n \in Nat, s \in Nat
  <2>3. (a * (q + p)) % a = 0
    BY <1>1, <1>2, MultipleMod
  <2>. QED  BY <2>1, <2>2, <2>3
<1>6. CASE r # 0
  <2>1. fill = a - r
    BY <1>2, <1>3, <1>6
  <2>2. a * (q + p) + a * 1 = a * ((q + p) + 1)
    BY <1>1, <1>2, Distribute
  <2>3. n + (s + fill) = (n + a * p) + a
    BY <1>1, <1>2, <2>1
  <2>4. n + (s + fill) = a * ((q + p) + 1)
    BY <1>4, <2>2, <2>3
  <2>5. (a * ((q + p) + 1)) % a = 0
    BY <1>1, <1>2, MultipleMod
  <2>. QED  BY <1>2, <1>6, <2>1, <2>4, <2>5
<1>. QED  BY <1>5, <1>6

LEMMA PaddingAligns ==
  ASSUME NEW n \in Nat, NEW s \in Nat, mem_pool.align \in Nat,
         mem_pool.align # 0 => n % mem_pool.align = 0
  PROVE  /\ Padding(s) \in 0..mem_pool.align
         /\ mem_pool.align # 0 => (n + Footprint(s)) % mem_pool.align = 0
<1>1. CASE mem_pool.align = 0
  BY <1>1 DEF Padding
<1>2. CASE mem_pool.align # 0
  <2>1. Padding(s) = (mem_pool.align - (s % mem_pool.align)) % mem_pool.align
    BY <1>2 DEF Padding
  <2>. QED  BY <1>2, <2>1, FillUp DEF Footprint
<1>. QED  BY <1>1, <1>2

LEMMA NoMod ==
  ASSUME NEW n \in Nat, NEW m \in Nat \ {0}, n < m
  PROVE  n % m = n
OBVIOUS

-----------------------------------------------------------------------------
(* The invariant: the pool is as buffer b made it, and the blocks lie one  *)
(* behind the other below used_ptr.                                        *)

Block == [at : Nat, size : Nat]

\* The pool of buffer b, used up to its gone-th address.
PoolOf(b, n) ==
  [buff |-> b.buff, size |-> b.size, used_ptr |-> b.buff + n, align |-> b.align]

BlockIn(b, n, k) ==
  /\ b.buff <= k.at /\ k.at <= b.buff + b.size
  /\ k.at + k.size <= b.buff + n
  /\ b.align # 0 => k.at % b.align = 0

UsedFrom(b) ==
  /\ mem_pool = PoolOf(b, gone)
  /\ gone \in Nat
  /\ b.align # 0 => (b.buff + gone) % b.align = 0
  /\ \A i \in DOMAIN blocks : BlockIn(b, gone, blocks[i])
  /\ refused => gone > b.size

Unset == mem_pool = NoPool /\ blocks = <<>> /\ refused = FALSE /\ gone = 0

HeapInv ==
  /\ blocks \in Seq(Block)
  /\ refused \in BOOLEAN
  /\ BlocksApart
  /\ Unset \/ \E b \in Buffers : UsedFrom(b)

\* The parts of a buffer, and that its pointer does not wrap.
LEMMA BufferParts ==
  ASSUME NoWrap, NEW b \in Buffers
  PROVE  /\ b.buff \in Nat \ {0} /\ b.size \in Nat /\ b.align \in Nat
         /\ b.buff + b.align < AddrMod
         /\ \A s \in Requests : b.buff + MaxUsed + s + b.align < AddrMod
<1>1. b \in BuffRecord
  BY HeapAssumption
<1>. QED  BY <1>1 DEF NoWrap, BuffRecord

LEMMA HeapStarts == HeapUnset => HeapInv
<1> SUFFICES ASSUME HeapUnset PROVE HeapInv
  OBVIOUS
<1>1. Unset /\ blocks = <<>>
  BY DEF HeapUnset, Unset
<1>2. blocks \in Seq(Block)
  BY <1>1
<1>3. BlocksApart
  BY <1>1 DEF BlocksApart
<1>4. refused \in BOOLEAN
  BY <1>1 DEF Unset
<1>. QED  BY <1>1, <1>2, <1>3, <1>4 DEF HeapInv

LEMMA HeapInitStep ==
  ASSUME NoWrap, HeapInv, NEW b \in Buffers, HeapInit(b)
  PROVE  HeapInv' /\ Unset
<1>1. /\ b.buff \in Nat \ {0} /\ b.size \in Nat /\ b.align \in Nat
      /\ b.buff + b.align < AddrMod /\ AddrMod \in Nat \ {0}
  BY BufferParts, HeapAssumption
<1>2. Unset
  <2>1. ASSUME NEW c \in Buffers, UsedFrom(c) PROVE FALSE
    BY <2>1, BufferParts DEF UsedFrom, PoolOf, HeapInit
  <2>. QED  BY <2>1 DEF HeapInv
<1>3. /\ Gap(b.buff, b.align) \in 0..b.align
      /\ b.align # 0 => (b.buff + Gap(b.buff, b.align)) % b.align = 0
  BY <1>1, GapAligns
<1> DEFINE g == Gap(b.buff, b.align)
<1>4. (b.buff + g) % AddrMod = b.buff + g
  <2>1. g \in 0..b.align
    BY <1>3
  <2> HIDE DEF g
  <2>2. b.buff + g \in Nat /\ b.buff + g < AddrMod
    BY <1>1, <2>1
  <2>. QED  BY <1>1, <2>2, NoMod
<1>5. mem_pool' = PoolOf(b, g) /\ gone' = g /\ g \in Nat /\ blocks' = <<>> /\ refused' = FALSE
  BY <1>1, <1>2, <1>3, <1>4 DEF HeapInit, PoolOf, Unset
<1>6. UsedFrom(b)'
  BY <1>3, <1>5 DEF UsedFrom
<1>7. blocks' \in Seq(Block) /\ BlocksApart'
  BY <1>5 DEF BlocksApart
<1>. QED  BY <1>2, <1>5, <1>6, <1>7 DEF HeapInv

\* A request in numbers: the pointer moves by the size and its padding.
LEMMA MallocParts ==
  ASSUME NoWrap, NEW b \in Buffers, UsedFrom(b), NEW s \in Requests, gone <= MaxUsed
  PROVE  /\ Footprint(s) \in Nat /\ Footprint(s) >= s /\ s \in Nat
         /\ gone + Footprint(s) \in Nat
         /\ (b.buff + gone + Footprint(s)) % AddrMod = b.buff + (gone + Footprint(s))
         /\ b.align # 0 => (b.buff + (gone + Footprint(s))) % b.align = 0
<1>1. /\ b.buff \in Nat /\ b.align \in Nat /\ gone \in Nat /\ s \in Nat /\ MaxUsed \in Nat
      /\ b.buff + MaxUsed + s + b.align < AddrMod /\ AddrMod \in Nat \ {0}
  BY BufferParts, HeapAssumption DEF UsedFrom
<1>2. mem_pool.align = b.align
  BY DEF UsedFrom, PoolOf
<1>3. b.align # 0 => (b.buff + gone) % b.align = 0
  BY DEF UsedFrom
<1> DEFINE n == b.buff + gone
<1>4. n \in Nat
  BY <1>1
<1> HIDE DEF n
<1>5. /\ Padding(s) \in 0..b.align
      /\ b.align # 0 => (n + Footprint(s)) % b.align = 0
  BY <1>1, <1>2, <1>3, <1>4, PaddingAligns DEF n
<1>6. Footprint(s) = s + Padding(s)
  BY DEF Footprint
<1>7. /\ Footprint(s) \in Nat /\ Footprint(s) >= s
      /\ n + Footprint(s) < AddrMod /\ n + Footprint(s) \in Nat
  BY <1>1, <1>5, <1>6 DEF n
<1>8. n + Footprint(s) = b.buff + (gone + Footprint(s))
  BY <1>1, <1>7 DEF n
<1>9. (n + Footprint(s)) % AddrMod = n + Footprint(s)
  BY <1>1, <1>7, NoMod
<1>. QED  BY <1>1, <1>5, <1>7, <1>8, <1>9 DEF n

LEMMA MallocStep ==
  ASSUME NoWrap, HeapInv, NEW s \in Requests, Malloc(s)
  PROVE  HeapInv'
<1>1. PICK b \in Buffers : UsedFrom(b)
  BY DEF HeapInv, Unset, Malloc, NoPool
<1>2. /\ b.buff \in Nat \ {0} /\ b.size \in Nat /\ b.align \in Nat
  BY BufferParts
<1>3. /\ mem_pool = PoolOf(b, gone) /\ gone \in Nat /\ gone <= MaxUsed
      /\ \A i \in DOMAIN blocks : BlockIn(b, gone, blocks[i])
      /\ blocks \in Seq(Block)
  BY <1>1 DEF UsedFrom, Malloc, HeapInv
<1> DEFINE f == Footprint(s)
           new == [at |-> b.buff + gone, size |-> s]
<1>4. /\ f \in Nat /\ f >= s /\ s \in Nat /\ gone + f \in Nat
      /\ (b.buff + gone + f) % AddrMod = b.buff + (gone + f)
      /\ b.align # 0 => (b.buff + (gone + f)) % b.align = 0
  BY <1>1, <1>3, MallocParts
<1> HIDE DEF f
<1>5. gone' = gone + f /\ mem_pool' = PoolOf(b, gone')
  <2>1. mem_pool' = [mem_pool EXCEPT !.used_ptr = (@ + f) % AddrMod] /\ gone' = gone + f
    BY DEF Malloc, f
  <2>2. mem_pool.used_ptr = b.buff + gone
    BY <1>3 DEF PoolOf
  <2>3. mem_pool' = [mem_pool EXCEPT !.used_ptr = b.buff + (gone + f)]
    BY <1>4, <2>1, <2>2
  <2>. QED  BY <1>3, <2>1, <2>3 DEF PoolOf
<1>6. ASSUME NEW k, k \in Block, BlockIn(b, gone, k) PROVE BlockIn(b, gone', k)
  BY <1>2, <1>3, <1>4, <1>5, <1>6 DEF BlockIn, Block
<1>7. CASE ~Served
  <2>1. blocks' = blocks /\ refused' = TRUE
    BY <1>7, HeapInv DEF Malloc, HeapInv
  <2>2. gone > b.size
    BY <1>2, <1>3, <1>7 DEF Served, PoolOf
  <2>3. \A i \in DOMAIN blocks : BlockIn(b, gone', blocks[i])
    BY <1>3, <1>6
  <2>4. UsedFrom(b)'
    BY <1>2, <1>3, <1>4, <1>5, <2>1, <2>2, <2>3 DEF UsedFrom
  <2>. QED  BY <1>3, <2>1, <2>4 DEF HeapInv, BlocksApart
<1>8. CASE Served
  <2>1. blocks' = Append(blocks, new) /\ refused' = refused
    BY <1>3, <1>8 DEF Malloc, PoolOf, HeapInv
  <2>2. new \in Block
    BY <1>2, <1>3, <1>4 DEF Block
  <2>3. gone <= b.size
    BY <1>2, <1>3, <1>8 DEF Served, PoolOf
  <2>4. refused' = FALSE
    BY <1>1, <1>2, <1>3, <2>1, <2>3 DEF UsedFrom, HeapInv
  <2>5. BlockIn(b, gone', new)
    BY <1>1, <1>2, <1>3, <1>4, <1>5, <2>3 DEF BlockIn, UsedFrom
  <2>6. /\ Len(blocks') = Len(blocks) + 1 /\ blocks' \in Seq(Block)
        /\ \A i \in 1..Len(blocks) : blocks'[i] = blocks[i]
        /\ blocks'[Len(blocks) + 1] = new
    BY <1>3, <2>1, <2>2
  <2> HIDE DEF new
  <2>7. \A i \in DOMAIN blocks' : BlockIn(b, gone', blocks'[i])
    BY <1>3, <1>6, <2>5, <2>6
  <2>8. UsedFrom(b)'
    BY <1>2, <1>3, <1>4, <1>5, <2>4, <2>7 DEF UsedFrom
  <2>9. BlocksApart'
    <3> SUFFICES ASSUME NEW i \in 1..Len(blocks'), NEW j \in 1..Len(blocks'), i < j
                 PROVE  blocks'[i].at + blocks'[i].size <= blocks'[j].at
      BY <2>6 DEF BlocksApart
    <3>1. i \in 1..Len(blocks) /\ Len(blocks) \in Nat
      BY <1>3, <2>6
    <3>2. CASE j = Len(blocks) + 1
      <4>1. blocks'[j].at = b.buff + gone
        BY <3>2, <2>6 DEF new
      <4>2. BlockIn(b, gone, blocks[i])
        BY <1>3, <3>1
      <4>. QED  BY <2>6, <3>1, <4>1, <4>2 DEF BlockIn
    <3>3. CASE j \in 1..Len(blocks)
      BY <2>6, <3>1, <3>3 DEF BlocksApart, HeapInv
    <3>. QED  BY <2>6, <3>1, <3>2, <3>3
  <2>. QED  BY <2>4, <2>6, <2>8, <2>9 DEF HeapInv
<1>. QED  BY <1>7, <1>8

LEMMA HeapStep == NoWrap /\ HeapInv /\ [HeapNext]_heapVars => HeapInv'
<1> SUFFICES ASSUME NoWrap, HeapInv, [HeapNext]_heapVars PROVE HeapInv'
  OBVIOUS
<1>1. ASSUME NEW b \in Buffers, HeapInit(b) PROVE HeapInv'
  BY <1>1, HeapInitStep
<1>2. ASSUME NEW s \in Requests, Malloc(s) PROVE HeapInv'
  BY <1>2, MallocStep
<1>3. CASE UNCHANGED heapVars
  BY <1>3 DEF heapVars, HeapInv, Unset, UsedFrom, BlocksApart
<1>. QED  BY <1>1, <1>2, <1>3 DEF HeapNext

LEMMA HeapInvariant == ASSUME NoWrap PROVE HeapSpec => []HeapInv
<1>1. HeapUnset => HeapInv
  BY HeapStarts
<1>2. HeapInv /\ [HeapNext]_heapVars => HeapInv'
  BY HeapStep
<1>. QED  BY <1>1, <1>2, PTL DEF HeapSpec

-----------------------------------------------------------------------------
LEMMA Gives ==
  ASSUME HeapInv, NoWrap
  PROVE  HeapTypeOK /\ BlocksApart /\ BlocksAligned /\ OnlyLastOverruns
<1>1. CASE Unset
  BY <1>1 DEF Unset, NoPool, HeapInv, HeapTypeOK, Block, BlocksAligned, OnlyLastOverruns
<1>2. ASSUME NEW b \in Buffers, UsedFrom(b)
      PROVE  HeapTypeOK /\ BlocksApart /\ BlocksAligned /\ OnlyLastOverruns
  <2>1. /\ b.buff \in Nat \ {0} /\ b.size \in Nat /\ b.align \in Nat
    BY BufferParts
  <2>2. mem_pool = PoolOf(b, gone) /\ gone \in Nat /\ blocks \in Seq(Block)
        /\ \A i \in DOMAIN blocks : BlockIn(b, gone, blocks[i])
    BY <1>2 DEF UsedFrom, HeapInv
  <2>3. HeapTypeOK
    BY <2>1, <2>2 DEF HeapTypeOK, PoolOf, HeapInv, Block
  <2>4. BlocksAligned
    BY <2>1, <2>2 DEF BlocksAligned, BlockIn, PoolOf
  <2>5. OnlyLastOverruns
    <3> SUFFICES ASSUME NEW i \in DOMAIN blocks
                 PROVE  /\ mem_pool.buff <= blocks[i].at /\ blocks[i].at <= PoolEnd
                        /\ i < Len(blocks) => blocks[i].at + blocks[i].size <= PoolEnd
      BY DEF OnlyLastOverruns
    <3>1. PoolEnd = b.buff + b.size /\ mem_pool.buff = b.buff
      BY <2>2 DEF PoolEnd, PoolOf
    <3>2. ASSUME i < Len(blocks) PROVE blocks[i].at + blocks[i].size <= b.buff + b.size
      <4>1. Len(blocks) \in DOMAIN blocks /\ i \in Nat /\ Len(blocks) \in Nat
        BY <2>2, <3>2
      <4>2. blocks[i].at + blocks[i].size <= blocks[Len(blocks)].at
        BY <3>2, <4>1 DEF HeapInv, BlocksApart
      <4>3. blocks[Len(blocks)].at <= b.buff + b.size
        BY <2>2, <4>1 DEF BlockIn
      <4>4. blocks[i] \in Block /\ blocks[Len(blocks)] \in Block
        BY <2>2, <4>1
      <4>. QED  BY <2>1, <4>2, <4>3, <4>4 DEF Block
    <3>. QED  BY <2>2, <3>1, <3>2 DEF BlockIn
  <2>. QED  BY <2>3, <2>4, <2>5 DEF HeapInv
<1>. QED  BY <1>1, <1>2 DEF HeapInv

(* For every buffer, alignment and sequence of requests the blocks of the  *)
(* pool are apart and aligned, and only the last may reach past the end    *)
(* (nano_net_ll_heap_malloc), while the pointer does not wrap.             *)
THEOREM HeapSafe ==
  ASSUME NoWrap
  PROVE  HeapSpec => [](HeapTypeOK /\ BlocksApart /\ BlocksAligned /\ OnlyLastOverruns)
<1>1. HeapInv => HeapTypeOK /\ BlocksApart /\ BlocksAligned /\ OnlyLastOverruns
  BY Gives
<1>. QED  BY <1>1, HeapInvariant, PTL

(* Every block is aligned as nano_net_init was told.                       *)
THEOREM HeapAligned == ASSUME NoWrap PROVE HeapSpec => []BlocksAligned
BY HeapSafe, PTL

(* No block but the last reaches past the end of the pool.                 *)
THEOREM HeapOnlyLastOverruns == ASSUME NoWrap PROVE HeapSpec => []OnlyLastOverruns
BY HeapSafe, PTL

\* The steps PoolContract allows.
ContractStep ==
  \/ Contract!Setup /\ UNCHANGED blocks
  \/ \E k \in 0..1 : Contract!Take(1, k) /\ Len(blocks') = Len(blocks) + k

LEMMA StepKeepsContract ==
  ASSUME NoWrap, HeapInv, HeapNext PROVE ContractStep
<1>1. ASSUME NEW b \in Buffers, HeapInit(b) PROVE ContractStep
  <2>1. Unset /\ b.buff # 0
    BY <1>1, HeapInitStep, BufferParts
  <2>2. Phase = "unset" /\ Phase' = "open" /\ UNCHANGED blocks
    BY <1>1, <2>1 DEF Unset, NoPool, HeapInit, Phase
  <2>. QED  BY <2>2 DEF ContractStep, Contract!Setup
<1>2. ASSUME NEW s \in Requests, Malloc(s) PROVE ContractStep
  <2>1. PICK b \in Buffers : UsedFrom(b)
    BY <1>2 DEF HeapInv, Unset, Malloc, NoPool
  <2>2. /\ mem_pool = PoolOf(b, gone) /\ gone \in Nat
        /\ b.buff \in Nat /\ b.size \in Nat /\ refused \in BOOLEAN
        /\ refused => gone > b.size
    BY <2>1, BufferParts DEF UsedFrom, HeapInv
  <2>3. mem_pool.buff # 0 /\ mem_pool'.buff = mem_pool.buff
    BY <1>2, <2>2 DEF Malloc, PoolOf
  <2>4. blocks \in Seq(Block)
    BY DEF HeapInv
  <2>5. CASE Served
    <3>1. ~refused
      BY <2>2, <2>5 DEF Served, PoolOf
    <3>2. ~refused'
      BY <1>2, <2>5, <3>1 DEF Malloc
    <3>3. blocks' = Append(blocks, [at |-> mem_pool.used_ptr, size |-> s])
      BY <1>2, <2>5 DEF Malloc
    <3>4. Len(blocks') = Len(blocks) + 1
      BY <2>4, <3>3
    <3>5. Phase = "open" /\ Phase' = "open"
      BY <2>3, <3>1, <3>2 DEF Phase
    <3>6. Contract!Take(1, 1)
      BY <3>5 DEF Contract!Take
    <3>. QED  BY <3>4, <3>6 DEF ContractStep
  <2>6. CASE ~Served
    <3>1. refused' /\ blocks' = blocks
      BY <1>2, <2>6 DEF Malloc
    <3>2. Phase \in {"open", "full"} /\ Phase' = "full"
      BY <2>3, <3>1 DEF Phase
    <3>3. Len(blocks') = Len(blocks) + 0
      BY <2>4, <3>1
    <3>4. Contract!Take(1, 0)
      BY <3>2 DEF Contract!Take
    <3>. QED  BY <3>3, <3>4 DEF ContractStep
  <2>. QED  BY <2>5, <2>6
<1>. QED  BY <1>1, <1>2 DEF HeapNext

(* The pool keeps the contract the rest of the library is modelled on: it  *)
(* serves every request until it refuses one, and none after that.         *)
THEOREM HeapKeepsContract == ASSUME NoWrap PROVE HeapSpec => PoolContract
<1>1. HeapUnset => Contract!Init
  BY DEF HeapUnset, NoPool, Contract!Init, Phase
<1>2. HeapInv /\ [HeapNext]_heapVars => [ContractStep]_heapVars
  BY StepKeepsContract
<1>3. HeapSpec => [][ContractStep]_heapVars
  BY <1>2, HeapInvariant, PTL DEF HeapSpec
<1>4. HeapSpec => Contract!Init
  BY <1>1 DEF HeapSpec
<1>. QED  BY <1>3, <1>4 DEF PoolContract, ContractStep

-----------------------------------------------------------------------------
LEMMA RestType ==
  ASSUME NEW n \in Int, NEW m \in Nat \ {0}
  PROVE  (n % m) \in Nat /\ (n % m) < m
OBVIOUS

LEMMA GapType ==
  ASSUME NEW n \in Nat, NEW align \in Nat
  PROVE  Gap(n, align) \in Nat
<1>1. CASE align = 0
  BY <1>1 DEF Gap
<1>2. CASE align # 0
  <2>1. (n % align) \in Nat /\ (n % align) < align
    BY <1>2, RestType
  <2> DEFINE r == n % align
  <2> HIDE DEF r
  <2>2. r \in Nat /\ r < align
    BY <2>1 DEF r
  <2>3. align - r \in Nat
    BY ONLY <2>2, align \in Nat
  <2>. QED  BY <2>3 DEF Gap, r
<1>. QED  BY <1>1, <1>2

LEMMA FootprintType ==
  ASSUME HeapTypeOK, NEW s \in Requests
  PROVE  Footprint(s) \in Nat
<1> DEFINE align == mem_pool.align
<1>1. align \in Nat /\ s \in Nat
  BY HeapAssumption DEF HeapTypeOK
<1>2. CASE align = 0
  BY <1>1, <1>2 DEF Footprint, Padding
<1>3. CASE align # 0
  <2> DEFINE rest == s % align
  <2>1. rest \in Nat
    BY <1>1, <1>3, RestType
  <2> HIDE DEF rest
  <2> DEFINE missing == align - rest
  <2>2. missing \in Int
    BY <1>1, <2>1
  <2> HIDE DEF missing
  <2>3. (missing % align) \in Nat
    BY <1>1, <1>3, <2>2, RestType
  <2>4. Padding(s) = missing % align
    BY <1>3 DEF Padding, missing, rest
  <2>. QED  BY <1>1, <2>3, <2>4 DEF Footprint
<1>. QED  BY <1>2, <1>3

(* The pool's record keeps its type, wrapped pointer or not, and so does   *)
(* every block handed out.                                                 *)
THEOREM HeapTypes == HeapSpec => []HeapTypeOK
<1>1. HeapUnset => HeapTypeOK
  <2>1. <<>> \in Seq([at : Nat, size : Nat]) /\ NoPool \in [buff : Nat, size : Nat, used_ptr : Nat, align : Nat]
    BY DEF NoPool
  <2>2. ASSUME HeapUnset PROVE refused \in BOOLEAN
    BY <2>2 DEF HeapUnset
  <2>3. ASSUME HeapUnset PROVE mem_pool = NoPool /\ blocks = <<>> /\ gone \in Nat
    BY <2>3 DEF HeapUnset
  <2>. QED  BY <2>1, <2>2, <2>3 DEF HeapTypeOK
<1>2. HeapTypeOK /\ [HeapNext]_heapVars => HeapTypeOK'
  <2> SUFFICES ASSUME HeapTypeOK, [HeapNext]_heapVars PROVE HeapTypeOK'
    OBVIOUS
  <2>1. ASSUME NEW b \in Buffers, HeapInit(b) PROVE HeapTypeOK'
    <3>1. b.buff \in Nat /\ b.size \in Nat /\ b.align \in Nat /\ AddrMod \in Nat \ {0}
      BY HeapAssumption DEF BuffRecord
    <3> DEFINE to == b.buff + Gap(b.buff, b.align)
    <3>2. Gap(b.buff, b.align) \in Nat
      BY <3>1, GapType
    <3>5. to \in Int
      BY <3>1, <3>2
    <3>3. mem_pool' = [buff |-> b.buff, size |-> b.size, align |-> b.align, used_ptr |-> to % AddrMod]
      BY <2>1 DEF HeapInit
    <3> HIDE DEF to
    <3>4. (to % AddrMod) \in Nat
      BY <3>1, <3>5, RestType
    <3>. QED  BY <2>1, <3>1, <3>2, <3>3, <3>4 DEF HeapInit, HeapTypeOK
  <2>2. ASSUME NEW s \in Requests, Malloc(s) PROVE HeapTypeOK'
    <3> DEFINE to == mem_pool.used_ptr + Footprint(s)
    <3>1. /\ Footprint(s) \in Nat /\ mem_pool.used_ptr \in Nat /\ s \in Nat
          /\ AddrMod \in Nat \ {0}
      BY FootprintType, HeapAssumption DEF HeapTypeOK
    <3>2. mem_pool' = [mem_pool EXCEPT !.used_ptr = to % AddrMod] /\ to \in Int
      BY <2>2, <3>1 DEF Malloc
    <3> HIDE DEF to
    <3>3. (to % AddrMod) \in Nat
      BY <3>1, <3>2, RestType
    <3>4. mem_pool' \in [buff : Nat, size : Nat, used_ptr : Nat, align : Nat]
      BY <3>2, <3>3 DEF HeapTypeOK
    <3>5. blocks' \in Seq([at : Nat, size : Nat])
      <4> DEFINE k == [at |-> mem_pool.used_ptr, size |-> s]
                 All == [at : Nat, size : Nat]
      <4>1. k \in All /\ blocks \in Seq(All)
        BY <3>1 DEF HeapTypeOK
      <4>2. blocks' = Append(blocks, k) \/ blocks' = blocks
        BY <2>2 DEF Malloc
      <4> HIDE DEF k, All
      <4>3. blocks' \in Seq(All)
        BY <4>1, <4>2
      <4>. QED  BY <4>3 DEF All
    <3>6. gone' \in Nat
      BY <2>2, <3>1 DEF Malloc, HeapTypeOK
    <3>7. refused' \in BOOLEAN
      BY <2>2 DEF Malloc
    <3>. QED  BY <3>4, <3>5, <3>6, <3>7 DEF HeapTypeOK
  <2>3. CASE UNCHANGED heapVars
    BY <2>3 DEF heapVars, HeapTypeOK
  <2>. QED  BY <2>1, <2>2, <2>3 DEF HeapNext
<1>. QED  BY <1>1, <1>2, PTL DEF HeapSpec
=============================================================================
