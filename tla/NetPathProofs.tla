--------------------------- MODULE NetPathProofs ---------------------------
(***************************************************************************)
(* Order, answers and refinement for every network of NetPath.             *)
(***************************************************************************)
EXTENDS NetPath, NetProofs

-----------------------------------------------------------------------------
(***************************************************************************)
(* The inductive invariant.  A package travels away from its sender, so of *)
(* two packages of one stream on different wires one has passed the other; *)
(* a package that is ahead was sent earlier.  W stands for the wires, H    *)
(* for what has been handled and S for the seq of the hosts.               *)
(***************************************************************************)
SameStream(x, y) == x.sender = y.sender /\ x.target = y.target /\ x.is_ack = y.is_ack

\* What travels towards port q has passed the host of r.
Passed(q, r) == Owner[r] \in Behind[q]

At(W, x, q) == \E k \in DOMAIN W[q] : W[q][k] = x
Flying(W, x) == \E q \in Port : At(W, x, q)
Handled(H, x) == \E h, s \in Host : \E i \in DOMAIN H[h][s] : H[h][s][i] = x

\* A route is one port, and it leads to its target.
Routed(R) ==
  \A h, t \in Host : R[h][t] = <<>> \/ \E p \in Port : R[h][t] = <<p>> /\ Owner[p] = h
                                                       /\ t \in Behind[p]

Heading(W) ==
  \A q \in Port : \A k \in DOMAIN W[q] :
    /\ Peers[q] # {}
    /\ W[q][k].sender \in Behind[q] /\ W[q][k].target \notin Behind[q]
    /\ W[q][k].is_ack => ~W[q][k].need_ack

Ordered(W) ==
  \A q, r \in Port : \A k \in DOMAIN W[q], l \in DOMAIN W[r] :
    SameStream(W[q][k], W[r][l]) /\ (Passed(q, r) \/ (q = r /\ k < l))
      => W[q][k].seq < W[r][l].seq

\* Handlers are given what is for their host, in order, and before what is
\* still on its way.
InOrder(H) ==
  \A h, s \in Host : \A i, j \in DOMAIN H[h][s] :
    i < j /\ H[h][s][i].is_ack = H[h][s][j].is_ack => H[h][s][i].seq < H[h][s][j].seq

Kept(H) ==
  \A h, s \in Host : \A i \in DOMAIN H[h][s] : H[h][s][i].target = h /\ H[h][s][i].sender = s

HandledFirst(W, H) ==
  \A x, y : Handled(H, x) /\ Flying(W, y) /\ SameStream(x, y) => x.seq < y.seq

\* The number of a message is below its sender's next, that of an answer
\* below the next of the host it is for.
Numbered(x, S) == IF x.is_ack THEN x.seq < S[x.target] ELSE x.seq < S[x.sender]

NumbersUsed(W, H, S) == \A x : Flying(W, x) \/ Handled(H, x) => Numbered(x, S)

\* Of the messages between two hosts, an answer is to an earlier one than
\* those still on their way.
Answers(y, x) == y.is_ack /\ ~x.is_ack /\ y.target = x.sender /\ y.sender = x.target

AnsweredFirst(W, H) ==
  \A x, y : (Flying(W, y) \/ Handled(H, y)) /\ Flying(W, x) /\ Answers(y, x) => y.seq < x.seq

\* seq does not wrap.
NotWrapped == \A h \in Host : seq[h] <= sent

WireInv(W, H, S) ==
  Heading(W) /\ Ordered(W) /\ HandledFirst(W, H) /\ NumbersUsed(W, H, S) /\ AnsweredFirst(W, H)

OrderInv ==
  /\ Routed(routes) /\ NotWrapped
  /\ InOrder(handled) /\ Kept(handled) /\ WireInv(wire, handled, seq)
-----------------------------------------------------------------------------
(***************************************************************************)
(* Ports and what is behind them.                                          *)
(***************************************************************************)
LEMMA PeerFacts ==
  ASSUME NEW p \in Port, NEW q \in Peers[p]
  PROVE  /\ q \in Port /\ q # p /\ Peers[p] = {q} /\ Peers[q] = {p}
         /\ Owner[p] \in Host /\ Owner[q] \in Host
         /\ Behind[q] = Host \ Behind[p] /\ Behind[p] \subseteq Host
         /\ Owner[p] \in Behind[q] /\ Owner[q] \in Behind[p]
<1>1. q \in Port /\ Owner[p] \in Host /\ Owner[q] \in Host
  BY TopologyAssumption
<1>2. Peers[q] = {p} /\ Behind[q] = Host \ Behind[p]
  BY PathAssumption
<1>3. Peers[p] = {q}
  BY <1>1, <1>2, PathAssumption
<1>4. Behind[p] \subseteq Host /\ Owner[p] \notin Behind[p] /\ Owner[q] \notin Behind[q]
  BY <1>1, PathAssumption
<1>. QED  BY <1>1, <1>2, <1>3, <1>4

\* Two packages that come from one host pass the same hosts.
LEMMA Comparable ==
  ASSUME NEW q \in Port, NEW r \in Port, q # r,
         NEW s, s \in Behind[q], s \in Behind[r]
  PROVE  Passed(q, r) \/ Passed(r, q)
BY PathAssumption DEF Passed

\* Nothing that travels from the host of p to a target behind p is passed by
\* what p writes.
LEMMA SourceLast ==
  ASSUME NEW p \in Port, NEW q \in Peers[p], NEW r \in Port,
         NEW t \in Behind[p], t \notin Behind[r], Owner[p] \in Behind[r]
  PROVE  ~Passed(q, r)
<1> SUFFICES ASSUME Owner[r] \in Behind[q] PROVE FALSE
  BY DEF Passed
<1>1. Owner[r] \notin Behind[p]
  BY PeerFacts
<1>2. Behind[p] \subseteq Behind[r]
  BY <1>1, PathAssumption
<1>. QED  BY <1>2

\* A package at its target has passed all others of its stream.
LEMMA TargetFirst ==
  ASSUME NEW q \in Port, NEW r \in Port, q # r, NEW s,
         s \in Behind[q], s \in Behind[r], Owner[q] \notin Behind[r]
  PROVE  Passed(q, r)
BY Comparable DEF Passed

\* A package from s to t that came in at p goes on through n to q.
LEMMA OneFurther ==
  ASSUME NEW p \in Port, NEW n \in Port, Owner[n] = Owner[p], NEW q \in Peers[n],
         NEW s, NEW t, s \in Behind[p], t \notin Behind[p], t \in Behind[n]
  PROVE  /\ s \in Behind[q] /\ t \notin Behind[q] /\ Passed(q, p) /\ ~Passed(p, q)
         /\ \A r \in Port : s \in Behind[r] /\ t \notin Behind[r] =>
              /\ Passed(q, r) => r = p \/ Passed(p, r)
              /\ Passed(r, q) => Passed(r, p)
<1>1. n # p /\ Owner[n] \notin Behind[n] /\ Owner[n] \notin Behind[p]
  BY PathAssumption
<1>2. Behind[n] \cap Behind[p] = {}
  BY <1>1, PathAssumption
<1>3. /\ q \in Port /\ Behind[q] = Host \ Behind[n] /\ Owner[n] \in Behind[q]
      /\ Owner[q] \in Behind[n]
  BY PeerFacts
<1>4. s \in Host
  BY PathAssumption
<1>5. s \in Behind[q] /\ t \notin Behind[q] /\ Passed(q, p)
  BY <1>2, <1>3, <1>4 DEF Passed
<1>6. ASSUME NEW r \in Port, s \in Behind[r], t \notin Behind[r], Passed(r, q)
      PROVE  Passed(r, p)
  <2> SUFFICES ASSUME Owner[n] \notin Behind[r] PROVE FALSE
    BY DEF Passed
  <2>1. Owner[q] \in Behind[r] /\ r # n
    BY <1>6 DEF Passed
  <2>2. CASE Owner[r] \notin Behind[n]
    <3>1. Behind[r] \cap Behind[n] = {}
      BY <2>1, <2>2, PathAssumption
    <3>. QED  BY <3>1, <2>1, <1>3
  <2>3. CASE Owner[r] \in Behind[n]
    <3>1. Behind[r] \subseteq Behind[n]
      BY <2>3, PathAssumption
    <3>. QED  BY <3>1, <1>2, <1>6
  <2>. QED  BY <2>2, <2>3
<1>7. ASSUME NEW r \in Port, s \in Behind[r], t \notin Behind[r], Passed(q, r), r # p
      PROVE  Passed(p, r)
  <2>1. CASE Passed(r, p)
    <3>1. Owner[n] \in Behind[r]
      BY <2>1 DEF Passed
    <3>2. ~Passed(q, r)
      BY ONLY <3>1, <1>7, SourceLast, n \in Port, q \in Peers[n], r \in Port, t \in Behind[n]
    <3>. QED  BY <3>2, <1>7
  <2>. QED  BY <2>1, <1>7, Comparable
<1>8. ~Passed(p, q)
  BY <1>1, <1>6 DEF Passed
<1>. QED  BY <1>5, <1>6, <1>7, <1>8

-----------------------------------------------------------------------------
(***************************************************************************)
(* Wires: taking the first package off one, writing to one port.           *)
(***************************************************************************)
Without(W, p) == [W EXCEPT ![p] = Tail(@)]
Added(W, p, pkgs) == [q \in Port |-> IF q \in Peers[p] THEN W[q] \o pkgs ELSE W[q]]

LEMMA BelowMod ==
  ASSUME NEW n \in Nat, NEW m \in Nat \ {0}, n < m
  PROVE  (n % m) = n
OBVIOUS

\* Who does not hear any of the ports gets nothing.
LEMMA NotHeard ==
  ASSUME NEW q \in Port, NEW ports \in Seq(Port), NEW pkgs \in Seq(Pkg),
         \A i \in DOMAIN ports : q \notin Peers[ports[i]]
  PROVE  Heard(q, ports, pkgs) = <<>>
<1> DEFINE n == Len(pkgs)
           total == Cardinality({i \in DOMAIN ports : q \in Peers[ports[i]]}) * n
<1>1. n \in Nat
  OBVIOUS
<1>2. {i \in DOMAIN ports : q \in Peers[ports[i]]} = {}
  OBVIOUS
<1> HIDE DEF n
<1>3. total = 0
  <2>1. Cardinality({i \in DOMAIN ports : q \in Peers[ports[i]]}) = 0
    BY <1>2, FS_EmptySet
  <2>. QED  BY ONLY <1>1, <2>1
<1>4. Heard(q, ports, pkgs) = [k \in 1..total |-> pkgs[1 + ((k - 1) % n)]]
  BY DEF Heard, n
<1> HIDE DEF total
<1>. QED  BY <1>3, <1>4

LEMMA WrittenOnce ==
  ASSUME NEW W \in [Port -> Seq(Pkg)], NEW p \in Port, NEW pkgs \in Seq(Pkg)
  PROVE  Written(W, <<p>>, pkgs) = Added(W, p, pkgs)
<1>1. ASSUME NEW q \in Port, q \in Peers[p]
      PROVE  Heard(q, <<p>>, pkgs) = pkgs
  <2>1. {i \in DOMAIN <<p>> : q \in Peers[<<p>>[i]]} = {1}
    BY <1>1
  <2>2. Cardinality({i \in DOMAIN <<p>> : q \in Peers[<<p>>[i]]}) = 1
    BY <2>1, FS_Singleton
  <2> DEFINE n == Len(pkgs)
  <2>3. n \in Nat /\ 1 * n = n
    OBVIOUS
  <2>4. Heard(q, <<p>>, pkgs) = [k \in 1..n |-> pkgs[1 + ((k - 1) % n)]]
    BY <2>2, <2>3 DEF Heard
  <2>5. pkgs = [k \in 1..n |-> pkgs[k]]
    OBVIOUS
  <2> HIDE DEF n
  <2>6. ASSUME NEW k \in 1..n PROVE 1 + ((k - 1) % n) = k
    <3>1. n # 0 /\ k - 1 \in Nat /\ k - 1 < n
      BY ONLY <2>3, <2>6
    <3>2. ((k - 1) % n) = k - 1
      BY ONLY <2>3, <3>1, BelowMod
    <3>. QED  BY ONLY <3>2, <2>3, <2>6
  <2>. QED  BY <2>4, <2>5, <2>6
<1>2. ASSUME NEW q \in Port, q \notin Peers[p]
      PROVE  Heard(q, <<p>>, pkgs) = <<>>
  <2>1. <<p>> \in Seq(Port) /\ \A i \in DOMAIN <<p>> : q \notin Peers[<<p>>[i]]
    BY <1>2
  <2>. QED  BY <2>1, NotHeard
<1>3. ASSUME NEW q \in Port PROVE W[q] \o <<>> = W[q]
  OBVIOUS
<1>. QED  BY <1>1, <1>2, <1>3 DEF Written, Added

LEMMA WrittenNowhere ==
  ASSUME NEW W \in [Port -> Seq(Pkg)], NEW pkgs \in Seq(Pkg)
  PROVE  Written(W, <<>>, pkgs) = W
<1>1. ASSUME NEW q \in Port PROVE Heard(q, <<>>, pkgs) = <<>>
  <2>1. <<>> \in Seq(Port) /\ \A i \in DOMAIN <<>> : q \notin Peers[<<>>[i]]
    OBVIOUS
  <2>. QED  BY <2>1, NotHeard
<1>2. ASSUME NEW q \in Port PROVE W[q] \o <<>> = W[q]
  OBVIOUS
<1>. QED  BY <1>1, <1>2 DEF Written

LEMMA WithoutFacts ==
  ASSUME NEW W \in [Port -> Seq(Pkg)], NEW p \in Port, W[p] # <<>>
  PROVE  /\ Without(W, p) \in [Port -> Seq(Pkg)]
         /\ \A q \in Port : \A k \in DOMAIN Without(W, p)[q] :
              LET l == IF q = p THEN k + 1 ELSE k
              IN  l \in DOMAIN W[q] /\ Without(W, p)[q][k] = W[q][l]
         /\ W[p][1] = Head(W[p]) /\ 1 \in DOMAIN W[p]
<1>1. Tail(W[p]) \in Seq(Pkg) /\ Len(Tail(W[p])) = Len(W[p]) - 1 /\ Len(W[p]) \in Nat
  OBVIOUS
<1>2. \A k \in 1..(Len(W[p]) - 1) : Tail(W[p])[k] = W[p][k + 1]
  OBVIOUS
<1>3. \A q \in Port : Without(W, p)[q] = IF q = p THEN Tail(W[p]) ELSE W[q]
  BY DEF Without
<1>4. Without(W, p) \in [Port -> Seq(Pkg)]
  BY <1>1 DEF Without
<1>5. ASSUME NEW k \in DOMAIN Tail(W[p])
      PROVE  k + 1 \in DOMAIN W[p] /\ Tail(W[p])[k] = W[p][k + 1]
  BY <1>1, <1>2
<1>6. W[p][1] = Head(W[p]) /\ 1 \in DOMAIN W[p]
  OBVIOUS
<1>. QED  BY <1>3, <1>4, <1>5, <1>6

LEMMA AddedFacts ==
  ASSUME NEW W \in [Port -> Seq(Pkg)], NEW p \in Port, NEW pkgs \in Seq(Pkg)
  PROVE  /\ Added(W, p, pkgs) \in [Port -> Seq(Pkg)]
         /\ \A q \in Port : \A k \in DOMAIN Added(W, p, pkgs)[q] :
              \/ k \in DOMAIN W[q] /\ Added(W, p, pkgs)[q][k] = W[q][k]
              \/ /\ q \in Peers[p] /\ k > Len(W[q])
                 /\ k - Len(W[q]) \in DOMAIN pkgs
                 /\ Added(W, p, pkgs)[q][k] = pkgs[k - Len(W[q])]
         /\ \A q \in Port : \A k \in DOMAIN W[q] :
              k \in DOMAIN Added(W, p, pkgs)[q] /\ Added(W, p, pkgs)[q][k] = W[q][k]
         /\ \A q \in Peers[p] : \A i \in DOMAIN pkgs :
              /\ Len(W[q]) + i \in DOMAIN Added(W, p, pkgs)[q]
              /\ Added(W, p, pkgs)[q][Len(W[q]) + i] = pkgs[i]
<1>1. ASSUME NEW q \in Port
      PROVE  /\ W[q] \o pkgs \in Seq(Pkg) /\ Len(W[q] \o pkgs) = Len(W[q]) + Len(pkgs)
             /\ \A k \in 1..(Len(W[q]) + Len(pkgs)) :
                  (W[q] \o pkgs)[k] = IF k <= Len(W[q]) THEN W[q][k] ELSE pkgs[k - Len(W[q])]
  OBVIOUS
<1>2. \A q \in Port : Added(W, p, pkgs)[q] = IF q \in Peers[p] THEN W[q] \o pkgs ELSE W[q]
  BY DEF Added
<1>3. Added(W, p, pkgs) \in [Port -> Seq(Pkg)]
  BY <1>1 DEF Added
<1>4. ASSUME NEW q \in Port
      PROVE  /\ Len(W[q]) \in Nat /\ DOMAIN W[q] = 1..Len(W[q])
             /\ Len(pkgs) \in Nat /\ DOMAIN pkgs = 1..Len(pkgs)
             /\ DOMAIN (W[q] \o pkgs) = 1..(Len(W[q]) + Len(pkgs))
  BY <1>1
<1>5. ASSUME NEW q \in Port, q \in Peers[p], NEW k \in DOMAIN Added(W, p, pkgs)[q]
      PROVE  \/ k \in DOMAIN W[q] /\ Added(W, p, pkgs)[q][k] = W[q][k]
             \/ /\ k > Len(W[q]) /\ k - Len(W[q]) \in DOMAIN pkgs
                /\ Added(W, p, pkgs)[q][k] = pkgs[k - Len(W[q])]
  <2>1. k \in 1..(Len(W[q]) + Len(pkgs)) /\ Added(W, p, pkgs)[q] = W[q] \o pkgs
    BY <1>2, <1>4, <1>5
  <2>. QED  BY <2>1, <1>1, <1>4
<1>6. ASSUME NEW q \in Port, NEW k \in DOMAIN W[q]
      PROVE  k \in DOMAIN Added(W, p, pkgs)[q] /\ Added(W, p, pkgs)[q][k] = W[q][k]
  <2>1. CASE q \in Peers[p]
    <3>1. k \in 1..Len(W[q]) /\ Len(W[q]) \in Nat /\ Len(pkgs) \in Nat
      BY <1>4
    <3>2. k \in 1..(Len(W[q]) + Len(pkgs)) /\ k <= Len(W[q])
      BY ONLY <3>1
    <3>3. k \in DOMAIN (W[q] \o pkgs) /\ (W[q] \o pkgs)[k] = W[q][k]
      BY ONLY <3>2, <1>1, <1>4, q \in Port
    <3>. QED  BY <3>3, <2>1, <1>2
  <2>. QED  BY <2>1, <1>2
<1>7. ASSUME NEW q \in Peers[p], NEW i \in DOMAIN pkgs
      PROVE  /\ Len(W[q]) + i \in DOMAIN Added(W, p, pkgs)[q]
             /\ Added(W, p, pkgs)[q][Len(W[q]) + i] = pkgs[i]
  <2>1. q \in Port
    BY TopologyAssumption
  <2>2. i \in 1..Len(pkgs) /\ Len(W[q]) \in Nat /\ Len(pkgs) \in Nat
    BY <2>1, <1>4
  <2>3. /\ Len(W[q]) + i \in 1..(Len(W[q]) + Len(pkgs))
        /\ (Len(W[q]) + i) - Len(W[q]) = i /\ ~(Len(W[q]) + i <= Len(W[q]))
    BY ONLY <2>2
  <2>4. /\ Len(W[q]) + i \in DOMAIN (W[q] \o pkgs)
        /\ (W[q] \o pkgs)[Len(W[q]) + i] = pkgs[i]
    BY ONLY <2>1, <2>3, <1>1, <1>4
  <2>. QED  BY <2>1, <2>4, <1>2
<1>. QED  BY <1>2, <1>3, <1>5, <1>6, <1>7
-----------------------------------------------------------------------------
(***************************************************************************)
(* The wires' part of the invariant when a package is taken off and when   *)
(* packages are written.                                                   *)
(***************************************************************************)
LEMMA WithoutWhere ==
  ASSUME NEW W \in [Port -> Seq(Pkg)], NEW p \in Port, W[p] # <<>>,
         NEW q \in Port, NEW k \in DOMAIN Without(W, p)[q]
  PROVE  \E l \in DOMAIN W[q] : Without(W, p)[q][k] = W[q][l]
<1> DEFINE l == IF q = p THEN k + 1 ELSE k
<1>1. l \in DOMAIN W[q] /\ Without(W, p)[q][k] = W[q][l]
  BY WithoutFacts
<1> HIDE DEF l
<1>. QED  BY <1>1

LEMMA AddedWhere ==
  ASSUME NEW W \in [Port -> Seq(Pkg)], NEW p \in Port, NEW pkgs \in Seq(Pkg),
         NEW q \in Port, NEW k \in DOMAIN Added(W, p, pkgs)[q]
  PROVE  \/ k \in DOMAIN W[q] /\ Added(W, p, pkgs)[q][k] = W[q][k]
         \/ q \in Peers[p] /\ \E i \in DOMAIN pkgs : Added(W, p, pkgs)[q][k] = pkgs[i]
<1> DEFINE V == Added(W, p, pkgs)
           new(r, l) == l - Len(W[r])
<1>1. \A r \in Port : \A l \in DOMAIN V[r] :
        \/ l \in DOMAIN W[r] /\ V[r][l] = W[r][l]
        \/ /\ r \in Peers[p] /\ l > Len(W[r])
           /\ new(r, l) \in DOMAIN pkgs /\ V[r][l] = pkgs[new(r, l)]
  BY AddedFacts
<1> HIDE DEF V, new
<1>2. \/ k \in DOMAIN W[q] /\ V[q][k] = W[q][k]
      \/ q \in Peers[p] /\ new(q, k) \in DOMAIN pkgs /\ V[q][k] = pkgs[new(q, k)]
  BY <1>1 DEF V
<1>. QED  BY <1>2 DEF V

LEMMA WithoutFlying ==
  ASSUME NEW W \in [Port -> Seq(Pkg)], NEW p \in Port, W[p] # <<>>,
         NEW x, Flying(Without(W, p), x)
  PROVE  Flying(W, x)
<1>1. PICK q \in Port : \E k \in DOMAIN Without(W, p)[q] : Without(W, p)[q][k] = x
  BY DEF Flying, At
<1>2. PICK k \in DOMAIN Without(W, p)[q] : Without(W, p)[q][k] = x
  BY <1>1
<1>3. \E l \in DOMAIN W[q] : W[q][l] = x
  BY <1>2, WithoutWhere
<1>. QED  BY <1>3 DEF Flying, At

LEMMA WithoutHeading ==
  ASSUME NEW W \in [Port -> Seq(Pkg)], NEW p \in Port, W[p] # <<>>, Heading(W)
  PROVE  Heading(Without(W, p))
<1> DEFINE W1 == Without(W, p)
<1>1. ASSUME NEW q \in Port, NEW k \in DOMAIN W1[q]
      PROVE  \E l \in DOMAIN W[q] : W1[q][k] = W[q][l]
  BY WithoutWhere
<1> HIDE DEF W1
<1>2. ASSUME NEW q \in Port, NEW k \in DOMAIN W1[q]
      PROVE  /\ Peers[q] # {}
             /\ W1[q][k].sender \in Behind[q] /\ W1[q][k].target \notin Behind[q]
             /\ W1[q][k].is_ack => ~W1[q][k].need_ack
  BY <1>1 DEF Heading
<1>. QED  BY <1>2 DEF Heading, W1

LEMMA WithoutOrdered ==
  ASSUME NEW W \in [Port -> Seq(Pkg)], NEW p \in Port, W[p] # <<>>, Ordered(W)
  PROVE  /\ Ordered(Without(W, p))
         /\ \A r \in Port : \A l \in DOMAIN Without(W, p)[r] :
              LET y == Without(W, p)[r][l]
              IN  SameStream(Head(W[p]), y) /\ (Passed(p, r) \/ r = p)
                    => Head(W[p]).seq < y.seq
<1> DEFINE W1 == Without(W, p)
           was(q, k) == IF q = p THEN k + 1 ELSE k
<1>1. \A q \in Port : \A k \in DOMAIN W1[q] :
        was(q, k) \in DOMAIN W[q] /\ W1[q][k] = W[q][was(q, k)]
  BY WithoutFacts
<1>2. W[p][1] = Head(W[p]) /\ 1 \in DOMAIN W[p]
  BY WithoutFacts
<1>3. W1 \in [Port -> Seq(Pkg)]
  BY WithoutFacts
<1>4. \A q \in Port : DOMAIN W1[q] = 1..Len(W1[q]) /\ Len(W1[q]) \in Nat
  BY <1>3
<1>5. ASSUME NEW q \in Port, NEW k \in DOMAIN W1[q], NEW l \in DOMAIN W1[q], k < l
      PROVE  was(q, k) < was(q, l)
  BY <1>4, <1>5
<1>6. ASSUME NEW q \in Port, NEW k \in DOMAIN W1[q], q = p
      PROVE  1 < was(q, k)
  BY <1>4, <1>6
<1> HIDE DEF W1, was
<1>7. Ordered(W1)
  <2> SUFFICES ASSUME NEW q \in Port, NEW r \in Port,
                      NEW k \in DOMAIN W1[q], NEW l \in DOMAIN W1[r],
                      SameStream(W1[q][k], W1[r][l]), Passed(q, r) \/ (q = r /\ k < l)
               PROVE  W1[q][k].seq < W1[r][l].seq
    BY DEF Ordered
  <2>1. /\ was(q, k) \in DOMAIN W[q] /\ W1[q][k] = W[q][was(q, k)]
        /\ was(r, l) \in DOMAIN W[r] /\ W1[r][l] = W[r][was(r, l)]
    BY <1>1
  <2>2. Passed(q, r) \/ (q = r /\ was(q, k) < was(r, l))
    BY <1>5
  <2>. QED  BY <2>1, <2>2 DEF Ordered
<1>8. ASSUME NEW r \in Port, NEW l \in DOMAIN W1[r],
             SameStream(Head(W[p]), W1[r][l]), Passed(p, r) \/ r = p
      PROVE  Head(W[p]).seq < W1[r][l].seq
  <2>1. was(r, l) \in DOMAIN W[r] /\ W1[r][l] = W[r][was(r, l)]
    BY <1>1
  <2>2. Passed(p, r) \/ (p = r /\ 1 < was(r, l))
    BY <1>6, <1>8
  <2>. QED  BY <2>1, <2>2, <1>2, <1>8 DEF Ordered
<1>. QED  BY <1>7, <1>8 DEF W1

LEMMA AddedFlying ==
  ASSUME NEW W \in [Port -> Seq(Pkg)], NEW p \in Port, NEW pkgs \in Seq(Pkg),
         NEW x, Flying(Added(W, p, pkgs), x)
  PROVE  Flying(W, x) \/ \E i \in DOMAIN pkgs : x = pkgs[i]
<1> DEFINE V == Added(W, p, pkgs)
<1>1. \A q \in Port : \A k \in DOMAIN V[q] :
        (k \in DOMAIN W[q] /\ V[q][k] = W[q][k]) \/ \E i \in DOMAIN pkgs : V[q][k] = pkgs[i]
  BY AddedWhere
<1> HIDE DEF V
<1>2. Flying(V, x)
  BY DEF V
<1>3. PICK q \in Port : \E k \in DOMAIN V[q] : V[q][k] = x
  BY <1>2 DEF Flying, At
<1>4. PICK k \in DOMAIN V[q] : V[q][k] = x
  BY <1>3
<1>5. CASE k \in DOMAIN W[q] /\ V[q][k] = W[q][k]
  BY <1>4, <1>5 DEF Flying, At
<1>. QED  BY <1>1, <1>4, <1>5

LEMMA AddedHeading ==
  ASSUME NEW W \in [Port -> Seq(Pkg)], NEW p \in Port, NEW pkgs \in Seq(Pkg), Heading(W),
         \A q \in Peers[p] : \A i \in DOMAIN pkgs :
           /\ pkgs[i].sender \in Behind[q] /\ pkgs[i].target \notin Behind[q]
           /\ pkgs[i].is_ack => ~pkgs[i].need_ack
  PROVE  Heading(Added(W, p, pkgs))
<1> DEFINE V == Added(W, p, pkgs)
<1>1. \A q \in Port : \A k \in DOMAIN V[q] :
        \/ k \in DOMAIN W[q] /\ V[q][k] = W[q][k]
        \/ q \in Peers[p] /\ \E i \in DOMAIN pkgs : V[q][k] = pkgs[i]
  BY AddedWhere
<1> HIDE DEF V
<1>2. ASSUME NEW q \in Port, NEW k \in DOMAIN V[q]
      PROVE  /\ Peers[q] # {}
             /\ V[q][k].sender \in Behind[q] /\ V[q][k].target \notin Behind[q]
             /\ V[q][k].is_ack => ~V[q][k].need_ack
  <2>1. CASE k \in DOMAIN W[q] /\ V[q][k] = W[q][k]
    BY <2>1 DEF Heading
  <2>2. CASE q \in Peers[p] /\ \E i \in DOMAIN pkgs : V[q][k] = pkgs[i]
    <3>1. Peers[q] # {}
      BY <2>2, PeerFacts
    <3>. QED  BY <2>2, <3>1
  <2>. QED  BY <1>1, <2>1, <2>2
<1>. QED  BY <1>2 DEF Heading, V

LEMMA AddedOrdered ==
  ASSUME NEW W \in [Port -> Seq(Pkg)], NEW p \in Port, NEW pkgs \in Seq(Pkg), Ordered(W),
         \A i, j \in DOMAIN pkgs : i < j => pkgs[i].seq < pkgs[j].seq,
         \A q \in Peers[p] : \A i \in DOMAIN pkgs :
           \A r \in Port : \A l \in DOMAIN W[r] :
             SameStream(pkgs[i], W[r][l]) =>
               /\ Passed(q, r) => pkgs[i].seq < W[r][l].seq
               /\ Passed(r, q) \/ r = q => W[r][l].seq < pkgs[i].seq
  PROVE  Ordered(Added(W, p, pkgs))
<1> DEFINE V == Added(W, p, pkgs)
           new(q, k) == k - Len(W[q])
<1>1. \A q \in Port : \A k \in DOMAIN V[q] :
        \/ k \in DOMAIN W[q] /\ V[q][k] = W[q][k]
        \/ /\ q \in Peers[p] /\ k > Len(W[q])
           /\ new(q, k) \in DOMAIN pkgs /\ V[q][k] = pkgs[new(q, k)]
  BY AddedFacts
<1>2. V \in [Port -> Seq(Pkg)]
  BY AddedFacts
<1>3. \A q \in Port : /\ DOMAIN V[q] \subseteq Nat /\ Len(W[q]) \in Nat
                      /\ \A k \in DOMAIN W[q] : k <= Len(W[q])
  BY <1>2
<1>4. ASSUME NEW q \in Port, NEW k \in DOMAIN V[q], NEW l \in DOMAIN V[q], k < l
      PROVE  new(q, k) < new(q, l) /\ (l \in DOMAIN W[q] => ~(k > Len(W[q])))
  BY <1>3, <1>4
<1> HIDE DEF V, new
<1> SUFFICES ASSUME NEW q \in Port, NEW r \in Port,
                    NEW k \in DOMAIN V[q], NEW l \in DOMAIN V[r],
                    SameStream(V[q][k], V[r][l]), Passed(q, r) \/ (q = r /\ k < l)
             PROVE  V[q][k].seq < V[r][l].seq
  BY DEF Ordered, V
<1>5. CASE k \in DOMAIN W[q] /\ V[q][k] = W[q][k]
  <2>1. CASE l \in DOMAIN W[r] /\ V[r][l] = W[r][l]
    BY <1>5, <2>1 DEF Ordered
  <2>2. CASE r \in Peers[p] /\ new(r, l) \in DOMAIN pkgs /\ V[r][l] = pkgs[new(r, l)]
    <3>1. SameStream(pkgs[new(r, l)], W[q][k])
      BY <1>5, <2>2 DEF SameStream
    <3>. QED  BY <1>5, <2>2, <3>1
  <2>. QED  BY <1>1, <2>1, <2>2
<1>6. CASE /\ q \in Peers[p] /\ k > Len(W[q])
           /\ new(q, k) \in DOMAIN pkgs /\ V[q][k] = pkgs[new(q, k)]
  <2>1. CASE l \in DOMAIN W[r] /\ V[r][l] = W[r][l]
    <3>1. Passed(q, r)
      BY <1>4, <1>6, <2>1
    <3>. QED  BY <1>6, <2>1, <3>1
  <2>2. CASE r \in Peers[p] /\ new(r, l) \in DOMAIN pkgs /\ V[r][l] = pkgs[new(r, l)]
    <3>1. r = q /\ ~Passed(q, q)
      BY <1>6, <2>2, PeerFacts, PathAssumption DEF Passed
    <3>2. new(q, k) < new(r, l)
      BY <1>4, <3>1
    <3>. QED  BY <1>6, <2>2, <3>1, <3>2
  <2>. QED  BY <1>1, <2>1, <2>2
<1>. QED  BY <1>1, <1>5, <1>6
-----------------------------------------------------------------------------
(***************************************************************************)
(* The invariant when messages are sent, and when a package that came in   *)
(* is handled, answered or forwarded.                                      *)
(***************************************************************************)
LEMMA FlyingType ==
  ASSUME NEW W \in [Port -> Seq(Pkg)], NEW x, Flying(W, x)
  PROVE  x \in Pkg
BY DEF Flying, At

LEMMA HandledType ==
  ASSUME NEW H \in [Host -> [Host -> Seq(Pkg)]], NEW x, Handled(H, x)
  PROVE  x \in Pkg
BY DEF Handled

LEMMA PkgFields ==
  ASSUME NEW x \in Pkg
  PROVE  /\ x.sender \in Host /\ x.target \in Host /\ x.seq \in Nat
         /\ x.is_ack \in BOOLEAN /\ x.need_ack \in BOOLEAN
BY LimitAssumption DEF Pkg

LEMMA OrderedSend ==
  ASSUME NEW W \in [Port -> Seq(Pkg)], NEW H \in [Host -> [Host -> Seq(Pkg)]],
         NEW S \in [Host -> Nat], NEW T \in [Host -> Nat], WireInv(W, H, S),
         \A g \in Host : S[g] <= T[g],
         NEW p \in Port, NEW t \in Behind[p], NEW pkgs \in Seq(Pkg),
         \A i \in DOMAIN pkgs : /\ pkgs[i].sender = Owner[p] /\ pkgs[i].target = t
                                /\ pkgs[i].is_ack = FALSE
                                /\ S[Owner[p]] <= pkgs[i].seq /\ pkgs[i].seq < T[Owner[p]],
         \A i, j \in DOMAIN pkgs : i < j => pkgs[i].seq < pkgs[j].seq
  PROVE  WireInv(Added(W, p, pkgs), H, T)
<1> DEFINE h == Owner[p]
           V == Added(W, p, pkgs)
<1>h. h \in Host
  BY TopologyAssumption
<1>1. \A x : Flying(V, x) => Flying(W, x) \/ \E i \in DOMAIN pkgs : x = pkgs[i]
  BY AddedFlying
<1>2. Heading(V)
  <2>1. \A q \in Peers[p] : h \in Behind[q] /\ t \notin Behind[q]
    BY PeerFacts
  <2>. QED  BY <2>1, AddedHeading DEF WireInv
<1>3. \A i \in DOMAIN pkgs : pkgs[i] \in Pkg
  OBVIOUS
<1>4. Ordered(V)
  <2>1. ASSUME NEW q \in Peers[p], NEW i \in DOMAIN pkgs, NEW r \in Port, NEW l \in DOMAIN W[r],
               SameStream(pkgs[i], W[r][l])
        PROVE  ~Passed(q, r) /\ W[r][l].seq < pkgs[i].seq
    <3> DEFINE y == W[r][l]
    <3>1. y \in Pkg /\ y.sender = h /\ y.target = t /\ y.is_ack = FALSE
      BY <2>1 DEF SameStream
    <3>2. h \in Behind[r] /\ t \notin Behind[r]
      BY <3>1 DEF WireInv, Heading
    <3>3. ~Passed(q, r)
      BY <3>2, SourceLast
    <3>4. Flying(W, y)
      BY DEF Flying, At
    <3> HIDE DEF y
    <3>5. y.seq < S[h]
      BY <3>1, <3>4 DEF WireInv, NumbersUsed, Numbered
    <3>6. y.seq \in Nat /\ S[h] \in Nat /\ pkgs[i].seq \in Nat
      BY <3>1, <1>3, <1>h, PkgFields
    <3>. QED  BY <3>3, <3>5, <3>6 DEF y
  <2>. QED  BY <2>1, AddedOrdered DEF WireInv
<1> HIDE DEF V, h
<1>new. ASSUME NEW i \in DOMAIN pkgs
        PROVE  /\ pkgs[i].sender = h /\ pkgs[i].target = t /\ pkgs[i].is_ack = FALSE
               /\ S[h] <= pkgs[i].seq /\ pkgs[i].seq < T[h] /\ pkgs[i].seq \in Nat
  BY <1>3, PkgFields DEF h
<1>5. HandledFirst(V, H)
  <2> SUFFICES ASSUME NEW x, NEW y, Handled(H, x), Flying(V, y), SameStream(x, y)
               PROVE  x.seq < y.seq
    BY DEF HandledFirst
  <2>1. CASE Flying(W, y)
    BY <2>1 DEF WireInv, HandledFirst
  <2>2. ASSUME NEW i \in DOMAIN pkgs, y = pkgs[i] PROVE x.seq < y.seq
    <3>1. x \in Pkg /\ x.is_ack = FALSE /\ x.sender = h
      BY <2>2, <1>new, HandledType DEF SameStream
    <3>2. x.seq < S[h]
      BY <3>1 DEF WireInv, NumbersUsed, Numbered
    <3>3. S[h] \in Nat /\ x.seq \in Nat
      BY <3>1, <1>h, PkgFields
    <3>4. S[h] <= y.seq /\ y.seq \in Nat
      BY <2>2, <1>new
    <3>. QED  BY ONLY <3>2, <3>3, <3>4
  <2>. QED  BY <1>1, <2>1, <2>2
<1>6. NumbersUsed(V, H, T)
  <2>1. ASSUME NEW x \in Pkg, Numbered(x, S) PROVE Numbered(x, T)
    <3>1. x.sender \in Host /\ x.target \in Host /\ x.seq \in Nat
      BY PkgFields
    <3>2. ASSUME NEW g \in Host, x.seq < S[g] PROVE x.seq < T[g]
      BY <3>1, <3>2
    <3>. QED  BY <2>1, <3>1, <3>2 DEF Numbered
  <2>2. ASSUME NEW x, Flying(W, x) \/ Handled(H, x) PROVE Numbered(x, T)
    BY <2>1, <2>2, FlyingType, HandledType DEF WireInv, NumbersUsed
  <2>3. ASSUME NEW i \in DOMAIN pkgs PROVE Numbered(pkgs[i], T)
    BY <1>new DEF Numbered
  <2>. QED  BY <1>1, <2>2, <2>3 DEF NumbersUsed
<1>7. AnsweredFirst(V, H)
  <2> SUFFICES ASSUME NEW x, NEW y, Flying(V, y) \/ Handled(H, y), Flying(V, x), Answers(y, x)
               PROVE  y.seq < x.seq
    BY DEF AnsweredFirst
  <2>1. Flying(W, y) \/ Handled(H, y)
    BY <1>1, <1>new DEF Answers
  <2>2. CASE Flying(W, x)
    BY <2>1, <2>2 DEF WireInv, AnsweredFirst
  <2>3. ASSUME NEW i \in DOMAIN pkgs, x = pkgs[i] PROVE y.seq < x.seq
    <3>1. y \in Pkg /\ y.is_ack /\ y.target = h
      BY <2>1, <2>3, <1>new, FlyingType, HandledType DEF Answers
    <3>2. y.seq < S[h]
      BY <2>1, <3>1 DEF WireInv, NumbersUsed, Numbered
    <3>3. S[h] \in Nat /\ y.seq \in Nat
      BY <3>1, <1>h, PkgFields
    <3>4. S[h] <= x.seq /\ x.seq \in Nat
      BY <2>3, <1>new
    <3>. QED  BY ONLY <3>2, <3>3, <3>4
  <2>. QED  BY <1>1, <2>2, <2>3
<1>. QED  BY <1>2, <1>4, <1>5, <1>6, <1>7 DEF WireInv, V

\* Losing a package.
LEMMA OrderedLoss ==
  ASSUME NEW W \in [Port -> Seq(Pkg)], NEW H, NEW S, WireInv(W, H, S),
         NEW p \in Port, W[p] # <<>>
  PROVE  WireInv(Without(W, p), H, S)
<1>1. Heading(Without(W, p)) /\ Ordered(Without(W, p))
  BY WithoutHeading, WithoutOrdered DEF WireInv
<1>2. \A x : Flying(Without(W, p), x) => Flying(W, x)
  BY WithoutFlying
<1>3. HandledFirst(Without(W, p), H)
  BY <1>2 DEF WireInv, HandledFirst
<1>4. NumbersUsed(Without(W, p), H, S)
  BY <1>2 DEF WireInv, NumbersUsed
<1>5. AnsweredFirst(Without(W, p), H)
  BY <1>2 DEF WireInv, AnsweredFirst
<1>. QED  BY <1>1, <1>3, <1>4, <1>5 DEF WireInv

\* The package that comes in at p is on the wire, heading away from its sender.
LEMMA HeadFacts ==
  ASSUME NEW W \in [Port -> Seq(Pkg)], NEW p \in Port, W[p] # <<>>, Heading(W)
  PROVE  LET x == Head(W[p])
         IN  /\ x \in Pkg /\ Flying(W, x) /\ Peers[p] # {}
             /\ x.sender \in Behind[p] /\ x.target \notin Behind[p]
             /\ x.is_ack => ~x.need_ack
<1>1. 1 \in DOMAIN W[p] /\ W[p][1] = Head(W[p])
  BY WithoutFacts
<1>2. W[p][1] \in Pkg
  BY <1>1
<1>3. Flying(W, W[p][1])
  BY <1>1 DEF Flying, At
<1>. QED  BY <1>1, <1>2, <1>3 DEF Heading

LEMMA OrderedForward ==
  ASSUME NEW W \in [Port -> Seq(Pkg)], NEW H, NEW S, WireInv(W, H, S),
         NEW p \in Port, W[p] # <<>>, NEW n \in Port, Owner[n] = Owner[p],
         Head(W[p]).target \in Behind[n],
         NEW f \in Pkg, SameStream(f, Head(W[p])), f.seq = Head(W[p]).seq,
         f.need_ack = Head(W[p]).need_ack
  PROVE  WireInv(Added(Without(W, p), n, <<f>>), H, S)
<1> DEFINE x == Head(W[p])
           W1 == Without(W, p)
           V == Added(W1, n, <<f>>)
<1>x. /\ x \in Pkg /\ Flying(W, x)
      /\ x.sender \in Behind[p] /\ x.target \notin Behind[p] /\ x.target \in Behind[n]
      /\ x.is_ack => ~x.need_ack
  BY HeadFacts DEF WireInv
<1>f. f.sender = x.sender /\ f.target = x.target /\ f.is_ack = x.is_ack
  BY DEF SameStream
<1>1. W1 \in [Port -> Seq(Pkg)] /\ WireInv(W1, H, S)
  BY WithoutFacts, OrderedLoss
<1>2. <<f>> \in Seq(Pkg) /\ DOMAIN <<f>> = {1} /\ <<f>>[1] = f
  OBVIOUS
<1>3. ASSUME NEW y, Flying(V, y) PROVE Flying(W, y) \/ y = f
  <2> HIDE DEF W1
  <2>1. Flying(W1, y) \/ \E i \in DOMAIN <<f>> : y = <<f>>[i]
    BY <1>1, <1>2, <1>3, AddedFlying
  <2>2. Flying(W1, y) => Flying(W, y)
    BY WithoutFlying DEF W1
  <2>. QED  BY <1>2, <2>1, <2>2
<1>4. ASSUME NEW q \in Peers[n]
      PROVE  /\ q \in Port
             /\ x.sender \in Behind[q] /\ x.target \notin Behind[q] /\ Passed(q, p)
             /\ \A r \in Port : x.sender \in Behind[r] /\ x.target \notin Behind[r] =>
                  /\ Passed(q, r) => r = p \/ Passed(p, r)
                  /\ Passed(r, q) => Passed(r, p)
  <2> DEFINE s == x.sender
             t == x.target
  <2>1. s \in Behind[p] /\ t \notin Behind[p] /\ t \in Behind[n]
    BY <1>x
  <2> HIDE DEF s, t
  <2>2. q \in Port
    BY PeerFacts
  <2>3. /\ s \in Behind[q] /\ t \notin Behind[q] /\ Passed(q, p)
        /\ \A r \in Port : s \in Behind[r] /\ t \notin Behind[r] =>
             /\ Passed(q, r) => r = p \/ Passed(p, r)
             /\ Passed(r, q) => Passed(r, p)
    BY <2>1, OneFurther
  <2>. QED  BY <2>2, <2>3 DEF s, t
<1>5. Heading(V)
  BY <1>1, <1>2, <1>4, <1>f, <1>x, AddedHeading DEF WireInv
<1>6. ASSUME NEW q \in Peers[n], NEW r \in Port, NEW l \in DOMAIN W1[r], SameStream(f, W1[r][l])
      PROVE  /\ Passed(q, r) => f.seq < W1[r][l].seq
             /\ Passed(r, q) \/ r = q => W1[r][l].seq < f.seq
  <2> DEFINE y == W1[r][l]
  <2>1. y.sender = x.sender /\ y.target = x.target /\ y.is_ack = x.is_ack
    BY <1>6, <1>f DEF SameStream
  <2>2. x.sender \in Behind[r] /\ x.target \notin Behind[r]
    BY <1>1, <2>1 DEF WireInv, Heading
  <2>3. SameStream(x, y) /\ SameStream(y, x)
    BY <2>1 DEF SameStream
  <2>4. ASSUME Passed(q, r) PROVE x.seq < y.seq
    <3>1. r = p \/ Passed(p, r)
      BY <1>4, <2>2, <2>4
    <3>. QED  BY <2>3, <3>1, WithoutOrdered DEF WireInv
  <2>5. ASSUME Passed(r, q) \/ r = q PROVE y.seq < x.seq
    <3>1. Passed(r, p)
      BY <1>4, <2>2, <2>5
    <3>2. PICK k \in DOMAIN W[r] : W[r][k] = y
      BY WithoutWhere
    <3>3. 1 \in DOMAIN W[p] /\ W[p][1] = x
      BY WithoutFacts
    <3>. QED  BY <2>3, <3>1, <3>2, <3>3 DEF WireInv, Ordered
  <2>. QED  BY <2>4, <2>5
<1>7. Ordered(V)
  <2>1. \A q \in Peers[n] : \A i \in DOMAIN <<f>> : \A r \in Port : \A l \in DOMAIN W1[r] :
          SameStream(<<f>>[i], W1[r][l]) =>
            /\ Passed(q, r) => <<f>>[i].seq < W1[r][l].seq
            /\ Passed(r, q) \/ r = q => W1[r][l].seq < <<f>>[i].seq
    BY <1>2, <1>6
  <2>2. \A i, j \in DOMAIN <<f>> : i < j => <<f>>[i].seq < <<f>>[j].seq
    BY <1>2
  <2> HIDE DEF W1
  <2>3. Ordered(W1)
    BY <1>1 DEF WireInv
  <2>. QED  BY <1>1, <1>2, <2>1, <2>2, <2>3, AddedOrdered
<1> HIDE DEF x, W1, V
<1>8. HandledFirst(V, H)
  <2>1. ASSUME NEW z, Handled(H, z), SameStream(z, f) PROVE z.seq < f.seq
    <3>1. SameStream(z, x)
      BY <2>1, <1>f DEF SameStream
    <3>. QED  BY <2>1, <3>1, <1>x DEF WireInv, HandledFirst, x
  <2>. QED  BY <1>3, <2>1 DEF WireInv, HandledFirst
<1>9. NumbersUsed(V, H, S)
  <2>1. Numbered(f, S)
    BY <1>x, <1>f DEF WireInv, NumbersUsed, Numbered, x
  <2>. QED  BY <1>3, <2>1 DEF WireInv, NumbersUsed
<1>10. AnsweredFirst(V, H)
  <2> SUFFICES ASSUME NEW z, NEW y, Flying(V, y) \/ Handled(H, y), Flying(V, z), Answers(y, z)
               PROVE  y.seq < z.seq
    BY DEF AnsweredFirst
  <2>1. ~(y = f /\ z = f)
    BY DEF Answers
  <2>2. CASE y = f
    <3>1. Flying(W, z) /\ Answers(x, z)
      BY <1>3, <1>f, <2>1, <2>2 DEF Answers
    <3>. QED  BY <3>1, <2>2, <1>x DEF WireInv, AnsweredFirst, x
  <2>3. CASE y # f /\ z = f
    <3>1. (Flying(W, y) \/ Handled(H, y)) /\ Answers(y, x)
      BY <1>3, <1>f, <2>3 DEF Answers
    <3>. QED  BY <3>1, <2>3, <1>x DEF WireInv, AnsweredFirst, x
  <2>4. CASE y # f /\ z # f
    BY <1>3, <2>4 DEF WireInv, AnsweredFirst
  <2>. QED  BY <2>2, <2>3, <2>4
<1>. QED  BY <1>5, <1>7, <1>8, <1>9, <1>10 DEF WireInv, V, W1
-----------------------------------------------------------------------------
\* A package given to the handlers of its target.
Given(H, x) == [H EXCEPT ![x.target][x.sender] = Append(@, x)]

LEMMA GivenFacts ==
  ASSUME NEW H \in [Host -> [Host -> Seq(Pkg)]], NEW x \in Pkg
  PROVE  /\ Given(H, x) \in [Host -> [Host -> Seq(Pkg)]]
         /\ \A h, s \in Host : \A i \in DOMAIN Given(H, x)[h][s] :
              \/ i \in DOMAIN H[h][s] /\ Given(H, x)[h][s][i] = H[h][s][i]
              \/ /\ h = x.target /\ s = x.sender /\ Given(H, x)[h][s][i] = x
                 /\ \A j \in DOMAIN Given(H, x)[h][s] : j <= i
         /\ Handled(Given(H, x), x)
         /\ \A z : Handled(Given(H, x), z) => Handled(H, z) \/ z = x
<1> DEFINE G == Given(H, x)
<1>x. x.sender \in Host /\ x.target \in Host
  BY PkgFields
<1>1. G \in [Host -> [Host -> Seq(Pkg)]]
  BY <1>x DEF Given
<1>2. \A h, s \in Host :
        G[h][s] = IF h = x.target /\ s = x.sender THEN Append(H[h][s], x) ELSE H[h][s]
  BY <1>x DEF Given
<1>3. ASSUME NEW h \in Host, NEW s \in Host
      PROVE  LET a == Append(H[h][s], x)
                 n == Len(H[h][s])
             IN  /\ n \in Nat /\ DOMAIN H[h][s] = 1..n /\ DOMAIN a = 1..(n + 1)
                 /\ \A i \in 1..n : a[i] = H[h][s][i]
                 /\ a[n + 1] = x
  OBVIOUS
<1> HIDE DEF G
<1>4. ASSUME NEW h \in Host, NEW s \in Host, NEW i \in DOMAIN G[h][s]
      PROVE  \/ i \in DOMAIN H[h][s] /\ G[h][s][i] = H[h][s][i]
             \/ /\ h = x.target /\ s = x.sender /\ G[h][s][i] = x
                /\ \A j \in DOMAIN G[h][s] : j <= i
  <2>1. CASE h = x.target /\ s = x.sender
    <3>1. G[h][s] = Append(H[h][s], x)
      BY <1>2, <2>1
    <3>2. i \in 1..(Len(H[h][s]) + 1)
      BY <1>3, <3>1
    <3>3. CASE i \in 1..Len(H[h][s])
      BY <1>3, <3>1, <3>3
    <3>4. CASE i = Len(H[h][s]) + 1
      <4>1. G[h][s][i] = x /\ DOMAIN G[h][s] = 1..i
        BY <1>3, <3>1, <3>4
      <4>. QED  BY <2>1, <4>1
    <3>. QED  BY <1>3, <3>2, <3>3, <3>4
  <2>2. CASE ~(h = x.target /\ s = x.sender)
    BY <1>2, <1>4, <2>2
  <2>. QED  BY <2>1, <2>2
<1>5. Handled(G, x)
  <2>1. G[x.target][x.sender] = Append(H[x.target][x.sender], x)
    BY <1>2, <1>x
  <2> DEFINE n == Len(H[x.target][x.sender])
  <2>2. n \in Nat /\ DOMAIN G[x.target][x.sender] = 1..(n + 1) /\ G[x.target][x.sender][n + 1] = x
    BY <1>3, <1>x, <2>1
  <2> HIDE DEF n
  <2>3. n + 1 \in 1..(n + 1)
    BY ONLY <2>2
  <2>. QED  BY <1>x, <2>2, <2>3 DEF Handled
<1>6. ASSUME NEW z, Handled(G, z), z # x PROVE Handled(H, z)
  <2>1. PICK h \in Host : \E s \in Host : \E i \in DOMAIN G[h][s] : G[h][s][i] = z
    BY <1>6 DEF Handled
  <2>2. PICK s \in Host : \E i \in DOMAIN G[h][s] : G[h][s][i] = z
    BY <2>1
  <2>3. PICK i \in DOMAIN G[h][s] : G[h][s][i] = z
    BY <2>2
  <2>4. i \in DOMAIN H[h][s] /\ H[h][s][i] = z
    BY <1>4, <1>6, <2>3
  <2>. QED  BY <2>4 DEF Handled
<1>. QED  BY <1>1, <1>4, <1>5, <1>6 DEF G

LEMMA OrderedHandle ==
  ASSUME NEW W \in [Port -> Seq(Pkg)], NEW H \in [Host -> [Host -> Seq(Pkg)]], NEW S,
         WireInv(W, H, S), InOrder(H), Kept(H),
         NEW p \in Port, W[p] # <<>>, Head(W[p]).target = Owner[p]
  PROVE  /\ WireInv(Without(W, p), Given(H, Head(W[p])), S)
         /\ InOrder(Given(H, Head(W[p]))) /\ Kept(Given(H, Head(W[p])))
<1> DEFINE x == Head(W[p])
           W1 == Without(W, p)
           G == Given(H, x)
<1>x. x \in Pkg /\ Flying(W, x) /\ x.sender \in Behind[p]
  BY HeadFacts DEF WireInv
<1>1. W1 \in [Port -> Seq(Pkg)] /\ WireInv(W1, H, S)
  BY WithoutFacts, OrderedLoss
<1>2. \A y : Flying(W1, y) => Flying(W, y)
  BY WithoutFlying
<1>3. \A r \in Port : \A l \in DOMAIN W1[r] :
        SameStream(x, W1[r][l]) /\ (Passed(p, r) \/ r = p) => x.seq < W1[r][l].seq
  BY WithoutOrdered DEF WireInv
<1>4. /\ \A z : Handled(G, z) => Handled(H, z) \/ z = x
      /\ \A h, s \in Host : \A i \in DOMAIN G[h][s] :
           \/ i \in DOMAIN H[h][s] /\ G[h][s][i] = H[h][s][i]
           \/ /\ h = x.target /\ s = x.sender /\ G[h][s][i] = x
              /\ \A j \in DOMAIN G[h][s] : j <= i
      /\ G \in [Host -> [Host -> Seq(Pkg)]]
  BY <1>x, GivenFacts
<1>t. x.target = Owner[p]
  OBVIOUS
<1> HIDE DEF x, W1, G
<1>5. HandledFirst(W1, G)
  <2>1. ASSUME NEW y, Flying(W1, y), SameStream(x, y) PROVE x.seq < y.seq
    <3>1. PICK r \in Port : \E l \in DOMAIN W1[r] : W1[r][l] = y
      BY <2>1 DEF Flying, At
    <3>2. PICK l \in DOMAIN W1[r] : W1[r][l] = y
      BY <3>1
    <3> DEFINE s == x.sender
    <3>3. s \in Behind[r] /\ Owner[p] \notin Behind[r]
      BY <1>1, <1>t, <2>1, <3>2 DEF WireInv, Heading, SameStream
    <3>4. s \in Behind[p]
      BY <1>x
    <3> HIDE DEF s
    <3>5. r = p \/ Passed(p, r)
      BY <3>3, <3>4, TargetFirst
    <3>. QED  BY <1>3, <2>1, <3>2, <3>5
  <2>. QED  BY <1>1, <1>4, <2>1 DEF WireInv, HandledFirst
<1>6. NumbersUsed(W1, G, S)
  BY <1>2, <1>4, <1>x DEF WireInv, NumbersUsed
<1>7. AnsweredFirst(W1, G)
  <2> SUFFICES ASSUME NEW z, NEW y, Flying(W1, y) \/ Handled(G, y), Flying(W1, z), Answers(y, z)
               PROVE  y.seq < z.seq
    BY DEF AnsweredFirst
  <2>1. Flying(W, y) \/ Handled(H, y)
    BY <1>2, <1>4, <1>x
  <2>. QED  BY <1>2, <2>1 DEF WireInv, AnsweredFirst
<1>8. InOrder(G)
  <2> SUFFICES ASSUME NEW h \in Host, NEW s \in Host,
                      NEW i \in DOMAIN G[h][s], NEW j \in DOMAIN G[h][s],
                      i < j, G[h][s][i].is_ack = G[h][s][j].is_ack
               PROVE  G[h][s][i].seq < G[h][s][j].seq
    BY DEF InOrder
  <2>1. i \in DOMAIN H[h][s] /\ G[h][s][i] = H[h][s][i]
    <3>1. i \in Int /\ j \in Int
      BY <1>4
    <3>2. ~(j <= i)
      BY ONLY <3>1, i < j
    <3>. QED  BY <1>4, <3>2
  <2>2. CASE j \in DOMAIN H[h][s] /\ G[h][s][j] = H[h][s][j]
    BY <2>1, <2>2 DEF InOrder
  <2>3. CASE h = x.target /\ s = x.sender /\ G[h][s][j] = x
    <3>1. Handled(H, H[h][s][i])
      BY <2>1 DEF Handled
    <3>2. SameStream(H[h][s][i], x)
      BY <2>1, <2>3 DEF Kept, SameStream
    <3>. QED  BY <1>x, <2>1, <2>3, <3>1, <3>2 DEF WireInv, HandledFirst
  <2>. QED  BY <1>4, <2>2, <2>3
<1>9. Kept(G)
  <2>1. ASSUME NEW h \in Host, NEW s \in Host, NEW i \in DOMAIN G[h][s]
        PROVE  G[h][s][i].target = h /\ G[h][s][i].sender = s
    <3>1. CASE i \in DOMAIN H[h][s] /\ G[h][s][i] = H[h][s][i]
      BY <3>1 DEF Kept
    <3>2. CASE h = x.target /\ s = x.sender /\ G[h][s][i] = x
      BY <3>2
    <3>. QED  BY <1>4, <3>1, <3>2
  <2>. QED  BY <2>1 DEF Kept
<1>. QED  BY <1>1, <1>5, <1>6, <1>7, <1>8, <1>9 DEF WireInv, W1, G, x

\* The answer a to x leaves by the port x came in at.
LEMMA OrderedAnswer ==
  ASSUME NEW W \in [Port -> Seq(Pkg)], NEW H, NEW S, WireInv(W, H, S),
         NEW p \in Port, NEW x \in Pkg, Handled(H, x), ~x.is_ack,
         x.sender \in Behind[p], x.target = Owner[p],
         \A y : (Flying(W, y) \/ Handled(H, y)) /\ Answers(y, x) => y.seq < x.seq,
         NEW a \in Pkg, a.is_ack, ~a.need_ack, a.sender = x.target, a.target = x.sender,
         a.seq = x.seq
  PROVE  WireInv(Added(W, p, <<a>>), H, S)
<1> DEFINE V == Added(W, p, <<a>>)
<1>1. <<a>> \in Seq(Pkg) /\ DOMAIN <<a>> = {1} /\ <<a>>[1] = a
  OBVIOUS
<1>2. ASSUME NEW y, Flying(V, y) PROVE Flying(W, y) \/ y = a
  <2> DEFINE pkgs == <<a>>
  <2>1. pkgs \in Seq(Pkg) /\ DOMAIN pkgs = {1} /\ pkgs[1] = a /\ Flying(Added(W, p, pkgs), y)
    BY <1>1, <1>2
  <2> HIDE DEF pkgs
  <2>2. Flying(W, y) \/ \E i \in DOMAIN pkgs : y = pkgs[i]
    BY <2>1, AddedFlying
  <2>. QED  BY <2>1, <2>2
<1>3. \A q \in Peers[p] : a.sender \in Behind[q] /\ a.target \notin Behind[q]
  BY PeerFacts
<1>4. Heading(V)
  BY <1>1, <1>3, AddedHeading DEF WireInv
<1>5. ASSUME NEW q \in Peers[p], NEW r \in Port, NEW l \in DOMAIN W[r], SameStream(a, W[r][l])
      PROVE  ~Passed(q, r) /\ W[r][l].seq < a.seq
  <2> DEFINE y == W[r][l]
             t == x.sender
  <2>1. Answers(y, x) /\ Flying(W, y)
    BY <1>5 DEF Answers, SameStream, Flying, At
  <2>2. t \in Behind[p] /\ t \notin Behind[r] /\ Owner[p] \in Behind[r]
    BY <2>1 DEF WireInv, Heading, Answers
  <2> HIDE DEF t
  <2>3. ~Passed(q, r)
    BY <2>2, SourceLast
  <2>. QED  BY <2>1, <2>3
<1>6. Ordered(V)
  <2>1. \A q \in Peers[p] : \A i \in DOMAIN <<a>> : \A r \in Port : \A l \in DOMAIN W[r] :
          SameStream(<<a>>[i], W[r][l]) =>
            /\ Passed(q, r) => <<a>>[i].seq < W[r][l].seq
            /\ Passed(r, q) \/ r = q => W[r][l].seq < <<a>>[i].seq
    BY <1>1, <1>5
  <2>2. \A i, j \in DOMAIN <<a>> : i < j => <<a>>[i].seq < <<a>>[j].seq
    BY <1>1
  <2>3. Ordered(W)
    BY DEF WireInv
  <2>. QED  BY <1>1, <2>1, <2>2, <2>3, AddedOrdered
<1> HIDE DEF V
<1>7. HandledFirst(V, H)
  <2>1. ASSUME NEW z, Handled(H, z), SameStream(z, a) PROVE z.seq < a.seq
    <3>1. Answers(z, x)
      BY <2>1 DEF SameStream, Answers
    <3>. QED  BY <2>1, <3>1
  <2>. QED  BY <1>2, <2>1 DEF WireInv, HandledFirst
<1>8. NumbersUsed(V, H, S)
  <2>1. Numbered(a, S)
    BY DEF WireInv, NumbersUsed, Numbered
  <2>. QED  BY <1>2, <2>1 DEF WireInv, NumbersUsed
<1>9. AnsweredFirst(V, H)
  <2> SUFFICES ASSUME NEW z, NEW y, Flying(V, y) \/ Handled(H, y), Flying(V, z), Answers(y, z)
               PROVE  y.seq < z.seq
    BY DEF AnsweredFirst
  <2>1. Flying(W, z)
    BY <1>2 DEF Answers
  <2>2. CASE y = a
    <3>1. z \in Pkg /\ ~z.is_ack /\ z.sender = x.sender /\ z.target = x.target
      BY <2>1, <2>2, FlyingType DEF Answers
    <3>2. z.is_ack = x.is_ack
      BY <3>1, PkgFields
    <3>3. SameStream(x, z)
      BY <3>1, <3>2 DEF SameStream
    <3>. QED  BY <2>1, <2>2, <3>3 DEF WireInv, HandledFirst
  <2>3. CASE y # a
    BY <1>2, <2>1, <2>3 DEF WireInv, AnsweredFirst
  <2>. QED  BY <2>2, <2>3
<1>. QED  BY <1>4, <1>6, <1>7, <1>8, <1>9 DEF WireInv, V
-----------------------------------------------------------------------------
(***************************************************************************)
(* The steps of the network.                                               *)
(***************************************************************************)
\* No seq wraps as long as fewer messages are sent than it can tell apart.
LEMMA NoWrap ==
  ASSUME TypeOK, NotWrapped, NEW h \in Host, NEW n \in Nat, sent + n <= MaxSends
  PROVE  (seq[h] + n) % SeqMod = seq[h] + n /\ seq[h] \in Nat
<1>1. seq[h] \in Nat /\ seq[h] <= sent /\ sent \in Nat /\ MaxSends \in Nat
      /\ SeqMod \in Nat \ {0} /\ MaxSends < SeqMod
  BY LimitAssumption, TrafficAssumption DEF TypeOK, NotWrapped
<1> DEFINE m == seq[h] + n
<1>2. m \in Nat /\ m < SeqMod
  BY <1>1
<1> HIDE DEF m
<1>3. (m % SeqMod) = m
  BY <1>1, <1>2, BelowMod
<1>. QED  BY <1>1, <1>3 DEF m

\* pkgs are n new messages from h to t.
BatchOf(pkgs, h, t, n) ==
  /\ pkgs \in Seq(Pkg) /\ DOMAIN pkgs = 1..n
  /\ \A i \in 1..n : /\ pkgs[i].sender = h /\ pkgs[i].target = t
                     /\ pkgs[i].is_ack = FALSE /\ pkgs[i].seq = seq[h] + (i - 1)

LEMMA BatchFacts ==
  ASSUME TypeOK, NotWrapped, NEW h \in Host, NEW t \in Host, NEW n \in Nat,
         NEW need_ack \in BOOLEAN, sent + n <= MaxSends
  PROVE  BatchOf([i \in 1..n |-> NewPkg(h, t, i - 1, need_ack)], h, t, n)
<1> DEFINE batch == [i \in 1..n |-> NewPkg(h, t, i - 1, need_ack)]
<1>1. batch \in Seq(Pkg)
  BY BatchType
<1>2. ASSUME NEW i \in 1..n
      PROVE  NewPkg(h, t, i - 1, need_ack).seq = seq[h] + (i - 1)
  <2>1. i - 1 \in Nat /\ sent + (i - 1) <= MaxSends
    BY LimitAssumption DEF TypeOK
  <2>2. (seq[h] + (i - 1)) % SeqMod = seq[h] + (i - 1)
    BY <2>1, NoWrap
  <2>. QED  BY <2>2 DEF NewPkg
<1>3. ASSUME NEW i \in 1..n
      PROVE  /\ NewPkg(h, t, i - 1, need_ack).sender = h
             /\ NewPkg(h, t, i - 1, need_ack).target = t
             /\ NewPkg(h, t, i - 1, need_ack).is_ack = FALSE
  BY DEF NewPkg
<1>. QED  BY <1>1, <1>2, <1>3 DEF BatchOf

LEMMA NumbersGrow ==
  ASSUME NEW W \in [Port -> Seq(Pkg)], NEW H \in [Host -> [Host -> Seq(Pkg)]],
         NEW S \in [Host -> Nat], NEW T \in [Host -> Nat], WireInv(W, H, S),
         \A g \in Host : S[g] <= T[g]
  PROVE  WireInv(W, H, T)
<1>1. ASSUME NEW x \in Pkg, Numbered(x, S) PROVE Numbered(x, T)
  <2>1. x.sender \in Host /\ x.target \in Host /\ x.seq \in Nat
    BY PkgFields
  <2>2. ASSUME NEW g \in Host, x.seq < S[g] PROVE x.seq < T[g]
    BY <2>1, <2>2
  <2>. QED  BY <1>1, <2>1, <2>2 DEF Numbered
<1>2. NumbersUsed(W, H, T)
  BY <1>1, FlyingType, HandledType DEF WireInv, NumbersUsed
<1>. QED  BY <1>2 DEF WireInv

\* What a send leaves behind; T is the seq of the hosts after it.
LEMMA SendOrder ==
  ASSUME TypeOK, OrderInv, NEW h \in Host, NEW t \in Host, NEW n \in Nat \ {0},
         sent + n <= MaxSends, NEW batch, BatchOf(batch, h, t, n), NEW ports,
         ports = <<>> \/ \E p \in Port : ports = <<p>> /\ Owner[p] = h /\ t \in Behind[p],
         NEW T, T = [seq EXCEPT ![h] = (@ + n) % SeqMod]
  PROVE  /\ WireInv(Written(wire, ports, batch), handled, T)
         /\ T = [seq EXCEPT ![h] = @ + n]
         /\ \A g \in Host : T[g] <= sent + n
<1>0. /\ wire \in [Port -> Seq(Pkg)] /\ handled \in [Host -> [Host -> Seq(Pkg)]]
      /\ WireInv(wire, handled, seq) /\ NotWrapped /\ sent \in Nat
  BY LimitAssumption DEF TypeOK, OrderInv
<1>1. seq \in [Host -> Nat]
  BY LimitAssumption DEF TypeOK
<1>2. (seq[h] + n) % SeqMod = seq[h] + n
  BY <1>0, NoWrap
<1>3. T = [seq EXCEPT ![h] = @ + n]
  BY <1>2
<1>4. T \in [Host -> Nat] /\ (\A g \in Host : seq[g] <= T[g]) /\ T[h] = seq[h] + n
  BY <1>1, <1>3
<1>5. \A g \in Host : T[g] <= sent + n
  <2> SUFFICES ASSUME NEW g \in Host PROVE T[g] <= sent + n
    OBVIOUS
  <2>1. T[g] = IF g = h THEN seq[g] + n ELSE seq[g]
    BY <1>1, <1>3
  <2>2. seq[g] <= sent /\ seq[g] \in Nat
    BY <1>0, <1>1 DEF NotWrapped
  <2>. QED  BY ONLY <2>1, <2>2, <1>0, n \in Nat
<1>6. /\ batch \in Seq(Pkg) /\ DOMAIN batch = 1..n
      /\ \A i \in 1..n : /\ batch[i].sender = h /\ batch[i].target = t
                         /\ batch[i].is_ack = FALSE /\ batch[i].seq = seq[h] + (i - 1)
  BY DEF BatchOf
<1>7. ASSUME ports = <<>>
      PROVE  WireInv(Written(wire, ports, batch), handled, T)
  BY ONLY <1>0, <1>1, <1>4, <1>6, <1>7, NumbersGrow, WrittenNowhere
<1>8. ASSUME NEW p \in Port, ports = <<p>>, Owner[p] = h, t \in Behind[p]
      PROVE  WireInv(Written(wire, ports, batch), handled, T)
  <2>1. seq[h] \in Nat /\ T[h] = seq[h] + n
    BY <1>1, <1>4
  <2>2. ASSUME NEW i \in 1..n PROVE seq[h] <= batch[i].seq /\ batch[i].seq < T[h]
    BY <1>6, <2>1
  <2>3. ASSUME NEW i \in 1..n, NEW j \in 1..n, i < j PROVE batch[i].seq < batch[j].seq
    <3>1. batch[i].seq = seq[h] + (i - 1) /\ batch[j].seq = seq[h] + (j - 1)
      BY <1>6
    <3>. QED  BY ONLY <3>1, <2>1, <2>3, i \in 1..n, j \in 1..n
  <2>4. WireInv(Added(wire, p, batch), handled, T)
    <3>1. \A i \in DOMAIN batch :
            /\ batch[i].sender = Owner[p] /\ batch[i].target = t /\ batch[i].is_ack = FALSE
            /\ seq[Owner[p]] <= batch[i].seq /\ batch[i].seq < T[Owner[p]]
      BY <1>6, <1>8, <2>2
    <3>2. \A i, j \in DOMAIN batch : i < j => batch[i].seq < batch[j].seq
      BY <1>6, <2>3
    <3>. QED  BY ONLY <1>0, <1>1, <1>4, <1>6, <1>8, <3>1, <3>2, OrderedSend
  <2>. QED  BY <1>0, <1>6, <1>8, <2>4, WrittenOnce
<1>. QED  BY <1>3, <1>5, <1>7, <1>8

\* A route that is learned leads back to the sender.
LEMMA LearnedRouted ==
  ASSUME TypeOK, OrderInv, NEW p \in Port, wire[p] # <<>>
  PROVE  Routed(Learned(Owner[p], p, Head(wire[p])))
<1> DEFINE x == Head(wire[p])
           R == Learned(Owner[p], p, x)
<1>1. x \in Pkg /\ x.sender \in Behind[p]
  BY HeadFacts DEF TypeOK, OrderInv, WireInv
<1>2. Owner[p] \in Host
  BY TopologyAssumption
<1>3. \A g, t \in Host :
        R[g][t] = IF g = Owner[p] /\ t = x.sender /\ routes[g][t] = <<>>
                  THEN <<p>> ELSE routes[g][t]
  BY <1>1, <1>2, LearnedFacts
<1> HIDE DEF x, R
<1>4. ASSUME NEW g \in Host, NEW t \in Host
      PROVE  R[g][t] = <<>> \/ \E n \in Port : R[g][t] = <<n>> /\ Owner[n] = g /\ t \in Behind[n]
  <2>1. CASE g = Owner[p] /\ t = x.sender /\ routes[g][t] = <<>>
    BY <1>1, <1>3, <2>1
  <2>2. CASE ~(g = Owner[p] /\ t = x.sender /\ routes[g][t] = <<>>)
    <3>1. R[g][t] = routes[g][t]
      BY <1>3, <2>2
    <3>. QED  BY <3>1 DEF OrderInv, Routed
  <2>. QED  BY <2>1, <2>2
<1>. QED  BY <1>4 DEF Routed, R, x

LEMMA ReceiveOrder ==
  ASSUME TypeOK, OrderInv, NEW p \in Port, Receive(p)
  PROVE  InOrder(handled') /\ Kept(handled') /\ WireInv(wire', handled', seq)
<1> DEFINE h == Owner[p]
           x == Head(wire[p])
           wires == [wire EXCEPT ![p] = Tail(@)]
<1>0. /\ wire \in [Port -> Seq(Pkg)] /\ handled \in [Host -> [Host -> Seq(Pkg)]]
      /\ WireInv(wire, handled, seq) /\ InOrder(handled) /\ Kept(handled) /\ wire[p] # <<>>
      /\ Heading(wire)
  BY DEF TypeOK, OrderInv, WireInv, Receive
<1>1. /\ h \in Host /\ x \in Pkg /\ x.sender \in Host /\ x.target \in Host
      /\ x.sender \in Behind[p] /\ Flying(wire, x) /\ (x.is_ack => ~x.need_ack)
  BY <1>0, HeadFacts, PkgFields, TopologyAssumption
<1>2. wires = Without(wire, p) /\ wires \in [Port -> Seq(Pkg)] /\ WireInv(wires, handled, seq)
  BY <1>0, WithoutFacts, OrderedLoss DEF Without
<1>3. Dispatch(h, p, x, wires) \/ Forward(h, p, x, wires) \/ Drop(h, x, wires)
  BY DEF Receive
<1>4. Routed(Learned(h, p, x))
  BY <1>0, LearnedRouted
<1>5. ASSUME Dispatch(h, p, x, wires)
      PROVE  InOrder(handled') /\ Kept(handled') /\ WireInv(wire', handled', seq)
  <2>1. x.target = h /\ handled' = Given(handled, x)
    BY <1>5 DEF Dispatch, Given
  <2>2. /\ WireInv(wires, Given(handled, x), seq)
        /\ InOrder(Given(handled, x)) /\ Kept(Given(handled, x))
    <3>1. Head(wire[p]).target = Owner[p]
      BY <2>1
    <3> HIDE DEF wires
    <3>. QED  BY ONLY <1>0, <1>2, <3>1, OrderedHandle, p \in Port
  <2>3. ASSUME ~x.need_ack PROVE wire' = wires
    BY <1>5, <2>3 DEF Dispatch
  <2>4. ASSUME x.need_ack PROVE WireInv(wire', Given(handled, x), seq)
    <3> DEFINE G == Given(handled, x)
               a == AckOf(h, x)
    <3>1. a \in Pkg /\ a.is_ack /\ ~a.need_ack /\ a.sender = x.target /\ a.target = x.sender
          /\ a.seq = x.seq
      BY <1>1, <2>1, AckOfType DEF AckOf
    <3>2. wire' = Written(wires, <<p>>, <<a>>)
      BY <1>5, <2>4 DEF Dispatch
    <3>3. Handled(G, x) /\ \A y : Handled(G, y) => Handled(handled, y) \/ y = x
      BY <1>0, <1>1, GivenFacts
    <3>4. \A y : Flying(wires, y) => Flying(wire, y)
      BY <1>0, <1>2, WithoutFlying
    <3>n. ~x.is_ack
      BY <1>1, <2>4
    <3>5. ASSUME NEW y, Flying(wires, y) \/ Handled(G, y), Answers(y, x) PROVE y.seq < x.seq
      <4>1. Flying(wire, y) \/ Handled(handled, y)
        BY <3>3, <3>4, <3>5, <3>n DEF Answers
      <4>. QED  BY <1>0, <1>1, <3>5, <4>1 DEF WireInv, AnsweredFirst
    <3>6. <<a>> \in Seq(Pkg)
      BY <3>1
    <3> HIDE DEF G, a, wires, x, h
    <3>7. WireInv(wires, G, seq) /\ x.target = Owner[p]
      BY <2>1, <2>2 DEF G, h
    <3>8. WireInv(Added(wires, p, <<a>>), G, seq)
      BY <1>1, <1>2, <3>1, <3>3, <3>n, <3>5, <3>7, OrderedAnswer
    <3>9. Written(wires, <<p>>, <<a>>) = Added(wires, p, <<a>>)
      BY <1>2, <3>6, WrittenOnce
    <3>. QED  BY <3>2, <3>8, <3>9 DEF G
  <2>. QED  BY <2>1, <2>2, <2>3, <2>4
<1>6. ASSUME Forward(h, p, x, wires)
      PROVE  InOrder(handled') /\ Kept(handled') /\ WireInv(wire', handled', seq)
  <2> DEFINE f == Forwarded(x)
             R == Learned(h, p, x)
  <2>1. x.target # h /\ wire' = Written(wires, R[h][x.target], <<f>>) /\ handled' = handled
    BY <1>6 DEF Forward
  <2>2. f \in Pkg /\ SameStream(f, x) /\ f.seq = x.seq /\ f.need_ack = x.need_ack
    <3>1. f \in Pkg
      BY <1>1, ForwardedType
    <3>. QED  BY <3>1, <1>1 DEF Forwarded, SameStream, Pkg
  <2>3. <<f>> \in Seq(Pkg)
    BY <2>2
  <2>4. R[h][x.target] = <<>> \/ \E n \in Port : R[h][x.target] = <<n>> /\ Owner[n] = h
                                                 /\ x.target \in Behind[n]
    BY <1>1, <1>4 DEF Routed
  <2> HIDE DEF f, R, wires, h
  <2>5. CASE R[h][x.target] = <<>>
    <3>1. wire' = wires
      BY <1>2, <2>1, <2>3, <2>5, WrittenNowhere
    <3>. QED  BY ONLY <1>0, <1>2, <2>1, <3>1
  <2>6. ASSUME NEW n \in Port, R[h][x.target] = <<n>>, Owner[n] = h, x.target \in Behind[n]
        PROVE  InOrder(handled') /\ Kept(handled') /\ WireInv(wire', handled', seq)
    <3>1. wire' = Added(wires, n, <<f>>)
      BY <1>2, <2>1, <2>3, <2>6, WrittenOnce
    <3>2. Owner[n] = Owner[p]
      BY <2>6 DEF h
    <3>3. WireInv(Added(Without(wire, p), n, <<f>>), handled, seq)
      BY <1>0, <2>2, <2>6, <3>2, OrderedForward
    <3>4. Without(wire, p) = wires
      BY <1>2
    <3>5. WireInv(wire', handled, seq)
      BY ONLY <3>1, <3>3, <3>4
    <3>6. handled' = handled
      BY <2>1
    <3>7. InOrder(handled') /\ Kept(handled')
      BY ONLY <1>0, <3>6
    <3>8. WireInv(wire', handled', seq)
      BY ONLY <3>5, <3>6
    <3>. QED  BY ONLY <3>7, <3>8
  <2>. QED  BY <2>4, <2>5, <2>6
<1>7. ASSUME Drop(h, x, wires)
      PROVE  InOrder(handled') /\ Kept(handled') /\ WireInv(wire', handled', seq)
  BY <1>0, <1>2, <1>7 DEF Drop
<1>. QED  BY <1>3, <1>5, <1>6, <1>7

LEMMA OrderInit == Init => OrderInv
<1> SUFFICES ASSUME Init PROVE OrderInv
  OBVIOUS
<1>1. Routed(routes)
  <2> SUFFICES ASSUME NEW h \in Host, NEW t \in Host, routes[h][t] # <<>>
               PROVE  \E p \in Port : routes[h][t] = <<p>> /\ Owner[p] = h /\ t \in Behind[p]
    BY DEF Routed
  <2> DEFINE first == CHOOSE p \in Port : <<h, t, p>> \in InitRoutes
  <2>1. /\ \E p \in Port : <<h, t, p>> \in InitRoutes
        /\ routes[h][t] = <<CHOOSE p \in Port : <<h, t, p>> \in InitRoutes>>
    BY DEF Init, RoutesOf
  <2>2. first \in Port /\ <<h, t, first>> \in InitRoutes /\ routes[h][t] = <<first>>
    BY <2>1
  <2> HIDE DEF first
  <2>3. Owner[first] = h
    BY <2>2, RouteAssumption DEF OwnRoutes
  <2>4. t \in Behind[first]
    BY <2>2, PathAssumption
  <2>. QED  BY <2>2, <2>3, <2>4
<1>2. NotWrapped
  BY DEF Init, NotWrapped
<1>3. (\A q \in Port : wire[q] = <<>>) /\ \A h, s \in Host : handled[h][s] = <<>>
  BY DEF Init
<1>4. (\A q \in Port : DOMAIN wire[q] = {}) /\ \A h, s \in Host : DOMAIN handled[h][s] = {}
  BY <1>3
<1>5. \A x : ~Flying(wire, x) /\ ~Handled(handled, x)
  BY <1>4 DEF Flying, At, Handled
<1>6. InOrder(handled) /\ Kept(handled)
  BY <1>4 DEF InOrder, Kept
<1>7. WireInv(wire, handled, seq)
  BY <1>4, <1>5 DEF WireInv, Heading, Ordered, HandledFirst, NumbersUsed, AnsweredFirst
<1>. QED  BY <1>1, <1>2, <1>6, <1>7 DEF OrderInv

LEMMA RoutedStep ==
  ASSUME TypeOK, OrderInv, [Next]_vars
  PROVE  Routed(routes')
<1>0. Routed(routes)
  BY DEF OrderInv
<1>1. ASSUME NEW h \in Host, NEW t \in Host, NEW p \in Port, AddRoute(h, t, p) PROVE FALSE
  BY <1>1, PathAssumption DEF AddRoute, TypeOK
<1>2. ASSUME NEW p \in Port, Receive(p) PROVE Routed(routes')
  <2>1. wire[p] # <<>> /\ routes' = Learned(Owner[p], p, Head(wire[p]))
    BY <1>2 DEF Receive
  <2>. QED  BY <2>1, LearnedRouted
<1>3. ASSUME UNCHANGED routes PROVE Routed(routes')
  BY <1>0, <1>3
<1>. QED  BY <1>1, <1>2, <1>3 DEF Next, SendMsgs, SendMsgByPort, Lose, vars

LEMMA OrderStep ==
  ASSUME TypeOK, OrderInv, [Next]_vars
  PROVE  OrderInv'
<1> DEFINE Rest == /\ \A g \in Host : seq'[g] <= sent'
                   /\ InOrder(handled') /\ Kept(handled') /\ WireInv(wire', handled', seq')
<1>0. /\ wire \in [Port -> Seq(Pkg)] /\ Routed(routes)
      /\ WireInv(wire, handled, seq) /\ InOrder(handled) /\ Kept(handled)
      /\ \A g \in Host : seq[g] <= sent
  BY DEF TypeOK, OrderInv, NotWrapped
<1>1. ASSUME NEW h \in Host, NEW t \in Host, NEW p \in Port, AddRoute(h, t, p) PROVE FALSE
  BY <1>1, PathAssumption DEF AddRoute, TypeOK
<1>2. ASSUME NEW h \in Host, NEW t \in Host, NEW n \in 1..MaxBatch,
             NEW need_ack \in BOOLEAN, SendMsgs(h, t, n, need_ack)
      PROVE  Rest
  <2> DEFINE batch == [i \in 1..n |-> NewPkg(h, t, i - 1, need_ack)]
  <2>1. /\ sent + n <= MaxSends /\ sent' = sent + n /\ handled' = handled
        /\ seq' = [seq EXCEPT ![h] = (@ + n) % SeqMod]
        /\ wire' = Written(wire, routes[h][t], batch)
    BY <1>2 DEF SendMsgs
  <2>2. routes[h][t] = <<>> \/ \E p \in Port : routes[h][t] = <<p>> /\ Owner[p] = h
                                               /\ t \in Behind[p]
    BY <1>0 DEF Routed
  <2>3. n \in Nat \ {0} /\ BatchOf(batch, h, t, n)
    BY <2>1, LimitAssumption, BatchFacts DEF OrderInv
  <2> HIDE DEF batch
  <2>4. /\ WireInv(Written(wire, routes[h][t], batch), handled, seq')
        /\ \A g \in Host : seq'[g] <= sent + n
    BY ONLY TypeOK, OrderInv, <2>1, <2>2, <2>3, SendOrder, h \in Host, t \in Host
  <2>. QED  BY <1>0, <2>1, <2>4
<1>3. ASSUME NEW h \in Host, NEW t \in Host, NEW p \in Port, NEW need_ack \in BOOLEAN,
             SendMsgByPort(h, p, t, need_ack)
      PROVE  Rest
  <2> DEFINE batch == [i \in 1..1 |-> NewPkg(h, t, i - 1, need_ack)]
  <2>1. /\ sent < MaxSends /\ sent' = sent + 1 /\ handled' = handled
        /\ seq' = [seq EXCEPT ![h] = (@ + 1) % SeqMod]
        /\ wire' = Written(wire, <<p>>, <<NewPkg(h, t, 0, need_ack)>>)
        /\ <<h, t, p>> \in ByPort
    BY <1>3 DEF SendMsgByPort
  <2>2. Owner[p] = h /\ t \in Behind[p]
    BY <2>1, RouteAssumption, PathAssumption DEF OwnRoutes
  <2>3. sent + 1 <= MaxSends
    BY <2>1, LimitAssumption DEF TypeOK
  <2>4. batch = <<NewPkg(h, t, 0, need_ack)>> /\ BatchOf(batch, h, t, 1)
    <3>1. BatchOf(batch, h, t, 1)
      BY <2>3, BatchFacts DEF OrderInv
    <3>. QED  BY <3>1
  <2> HIDE DEF batch
  <2>5. 1 \in Nat \ {0} /\ (<<p>> = <<>> \/ \E q \in Port : <<p>> = <<q>> /\ Owner[q] = h
                                                             /\ t \in Behind[q])
    BY <2>2
  <2>6. /\ WireInv(Written(wire, <<p>>, batch), handled, seq')
        /\ \A g \in Host : seq'[g] <= sent + 1
    BY ONLY TypeOK, OrderInv, <2>1, <2>3, <2>4, <2>5, SendOrder, h \in Host, t \in Host
  <2>. QED  BY <1>0, <2>1, <2>4, <2>6
<1>4. ASSUME NEW p \in Port, Receive(p) PROVE Rest
  BY <1>0, <1>4, ReceiveOrder DEF Receive
<1>5. ASSUME NEW p \in Port, Lose(p) PROVE Rest
  <2>1. /\ wire[p] # <<>> /\ wire' = Without(wire, p)
        /\ UNCHANGED <<seq, handled, sent>>
    BY <1>5 DEF Lose, Without
  <2>. QED  BY <1>0, <2>1, OrderedLoss
<1>6. ASSUME UNCHANGED vars PROVE Rest
  BY <1>0, <1>6 DEF vars
<1>7. Rest
  BY <1>1, <1>2, <1>3, <1>4, <1>5, <1>6 DEF Next
<1>. QED  BY <1>7, RoutedStep DEF OrderInv, NotWrapped

(* For every tree of hosts, lines that lose packages and any traffic that  *)
(* seq can number: what a host's handlers are given by another host comes  *)
(* in the order sent and nothing comes twice.                              *)
THEOREM NetInOrderOnce == Spec => []InOrderOnce
<1>1. TypeOK /\ OrderInv /\ [Next]_vars => OrderInv'
  BY OrderStep
<1>2. OrderInv => InOrderOnce
  BY DEF OrderInv, InOrder, InOrderOnce
<1>. QED  BY OrderInit, <1>1, <1>2, NetTypes, PTL DEF Spec

-----------------------------------------------------------------------------
(***************************************************************************)
(* Refinement.  On the wires a message stands at one place only, since the *)
(* numbers of one stream differ: taking a package off takes its message    *)
(* out of flight, forwarding puts the same one back.                       *)
(***************************************************************************)
Bares(W) == UNION {{Bare(W[p][k]) : k \in DOMAIN W[p]} : p \in Port}

BaresOf(H) ==
  [h \in Host |-> [s \in Host |-> [k \in DOMAIN H[h][s] |-> Bare(H[h][s][k])]]]

LEMMA BaresFlying ==
  ASSUME NEW W, NEW b
  PROVE  b \in Bares(W) <=> \E x : Flying(W, x) /\ b = Bare(x)
<1>1. ASSUME b \in Bares(W) PROVE \E x : Flying(W, x) /\ b = Bare(x)
  <2>1. PICK p \in Port : b \in {Bare(W[p][k]) : k \in DOMAIN W[p]}
    BY <1>1 DEF Bares
  <2>2. PICK k \in DOMAIN W[p] : b = Bare(W[p][k])
    BY <2>1
  <2>. QED  BY <2>2 DEF Flying, At
<1>2. ASSUME NEW x, Flying(W, x), b = Bare(x) PROVE b \in Bares(W)
  <2>1. PICK p \in Port : \E k \in DOMAIN W[p] : W[p][k] = x
    BY <1>2 DEF Flying, At
  <2>2. PICK k \in DOMAIN W[p] : W[p][k] = x
    BY <2>1
  <2>3. b \in {Bare(W[p][l]) : l \in DOMAIN W[p]}
    BY <1>2, <2>2
  <2>. QED  BY <2>3 DEF Bares
<1>. QED  BY <1>1, <1>2

LEMMA FlyingRest ==
  ASSUME NEW W \in [Port -> Seq(Pkg)], NEW p \in Port, W[p] # <<>>, NEW x, Flying(W, x)
  PROVE  x = Head(W[p]) \/ Flying(Without(W, p), x)
<1>1. PICK q \in Port : \E k \in DOMAIN W[q] : W[q][k] = x
  BY DEF Flying, At
<1>2. PICK k \in DOMAIN W[q] : W[q][k] = x
  BY <1>1
<1>3. CASE q # p
  BY <1>2, <1>3 DEF Flying, At, Without
<1>4. CASE q = p /\ k = 1
  BY <1>2, <1>4
<1>5. CASE q = p /\ k # 1
  <2> DEFINE n == Len(W[p])
  <2>1. /\ n \in Nat /\ DOMAIN W[p] = 1..n /\ DOMAIN Tail(W[p]) = 1..(n - 1)
        /\ \A l \in 1..(n - 1) : Tail(W[p])[l] = W[p][l + 1]
    OBVIOUS
  <2> HIDE DEF n
  <2>2. k \in 1..n /\ k # 1
    BY <1>2, <1>5, <2>1
  <2> DEFINE l == k - 1
  <2>3. l \in 1..(n - 1) /\ l + 1 = k
    BY ONLY <2>1, <2>2
  <2> HIDE DEF l
  <2>4. l \in DOMAIN Tail(W[p]) /\ Tail(W[p])[l] = x
    BY <1>2, <1>5, <2>1, <2>3
  <2>5. Without(W, p)[p] = Tail(W[p])
    BY DEF Without
  <2>. QED  BY <2>4, <2>5 DEF Flying, At
<1>. QED  BY <1>3, <1>4, <1>5

\* The package that comes in at p is not on its way twice.
LEMMA OnlyOnce ==
  ASSUME NEW W \in [Port -> Seq(Pkg)], NEW p \in Port, W[p] # <<>>, Heading(W), Ordered(W),
         NEW y, Flying(Without(W, p), y), SameStream(Head(W[p]), y)
  PROVE  y.seq # Head(W[p]).seq
<1> DEFINE x == Head(W[p])
           W1 == Without(W, p)
           s == x.sender
<1>1. x \in Pkg /\ s \in Behind[p] /\ 1 \in DOMAIN W[p] /\ W[p][1] = x
  BY HeadFacts, WithoutFacts
<1>2. W1 \in [Port -> Seq(Pkg)] /\ Heading(W1)
  BY WithoutFacts, WithoutHeading
<1>3. PICK r \in Port : \E l \in DOMAIN W1[r] : W1[r][l] = y
  BY DEF Flying, At
<1>4. PICK l \in DOMAIN W1[r] : W1[r][l] = y
  BY <1>3
<1>5. s \in Behind[r]
  BY <1>2, <1>4 DEF Heading, SameStream
<1>6. x.seq \in Nat /\ y \in Pkg /\ y.seq \in Nat
  BY <1>1, <1>2, <1>4, PkgFields
<1>7. SameStream(y, x)
  BY DEF SameStream
<1> HIDE DEF s
<1>8. CASE r = p \/ Passed(p, r)
  <2>1. x.seq < y.seq
    BY <1>4, <1>8, WithoutOrdered
  <2>. QED  BY ONLY <2>1, <1>6 DEF x
<1>9. CASE Passed(r, p)
  <2>1. PICK k \in DOMAIN W[r] : W[r][k] = y
    BY <1>4, WithoutWhere
  <2>2. y.seq < x.seq
    BY <1>1, <1>7, <1>9, <2>1 DEF Ordered
  <2>. QED  BY ONLY <2>2, <1>6 DEF x
<1>. QED  BY <1>1, <1>5, <1>8, <1>9, Comparable

LEMMA BareFields ==
  ASSUME NEW x, NEW y, Bare(x) = Bare(y)
  PROVE  SameStream(x, y) /\ x.seq = y.seq
<1>1. /\ Bare(x).sender = x.sender /\ Bare(y).sender = y.sender
      /\ Bare(x).target = x.target /\ Bare(y).target = y.target
      /\ Bare(x).is_ack = x.is_ack /\ Bare(y).is_ack = y.is_ack
      /\ Bare(x).seq = x.seq /\ Bare(y).seq = y.seq
  BY DEF Bare
<1>. QED  BY <1>1 DEF SameStream

LEMMA BaresWithout ==
  ASSUME NEW W \in [Port -> Seq(Pkg)], NEW p \in Port, W[p] # <<>>, Heading(W), Ordered(W)
  PROVE  /\ Bares(Without(W, p)) = Bares(W) \ {Bare(Head(W[p]))}
         /\ Bare(Head(W[p])) \in Bares(W)
<1> DEFINE x == Head(W[p])
           W1 == Without(W, p)
<1>1. Flying(W, x)
  BY HeadFacts
<1>2. \A y : Flying(W, y) => y = x \/ Flying(W1, y)
  BY FlyingRest
<1>3. \A y : Flying(W1, y) => Flying(W, y)
  BY WithoutFlying
<1>4. ASSUME NEW y, Flying(W1, y) PROVE Bare(y) # Bare(x)
  <2> SUFFICES ASSUME Bare(x) = Bare(y) PROVE FALSE
    OBVIOUS
  <2>1. SameStream(x, y) /\ x.seq = y.seq
    BY BareFields
  <2>. QED  BY <1>4, <2>1, OnlyOnce
<1> HIDE DEF x, W1
<1>5. ASSUME NEW b \in Bares(W1) PROVE b \in Bares(W) \ {Bare(x)}
  <2>1. PICK y : Flying(W1, y) /\ b = Bare(y)
    BY <1>5, BaresFlying
  <2>. QED  BY <1>3, <1>4, <2>1, BaresFlying
<1>6. ASSUME NEW b \in Bares(W), b # Bare(x) PROVE b \in Bares(W1)
  <2>1. PICK y : Flying(W, y) /\ b = Bare(y)
    BY <1>6, BaresFlying
  <2>. QED  BY <1>2, <1>6, <2>1, BaresFlying
<1>7. Bare(x) \in Bares(W)
  BY <1>1, BaresFlying
<1>. QED  BY <1>5, <1>6, <1>7 DEF x, W1

LEMMA BaresAdded ==
  ASSUME NEW W \in [Port -> Seq(Pkg)], NEW p \in Port, NEW pkgs \in Seq(Pkg)
  PROVE  /\ Peers[p] = {} => Bares(Added(W, p, pkgs)) = Bares(W)
         /\ Peers[p] # {} => Bares(Added(W, p, pkgs)) =
                               Bares(W) \cup {Bare(pkgs[i]) : i \in DOMAIN pkgs}
<1> DEFINE V == Added(W, p, pkgs)
<1>1. /\ V \in [Port -> Seq(Pkg)]
      /\ \A q \in Port : \A k \in DOMAIN W[q] : k \in DOMAIN V[q] /\ V[q][k] = W[q][k]
      /\ \A q \in Peers[p] : \A i \in DOMAIN pkgs :
           Len(W[q]) + i \in DOMAIN V[q] /\ V[q][Len(W[q]) + i] = pkgs[i]
  BY AddedFacts
<1>2. \A y : Flying(V, y) => Flying(W, y) \/ \E i \in DOMAIN pkgs : y = pkgs[i]
  BY AddedFlying
<1>v. Peers[p] = {} => V = W
  BY DEF Added
<1> HIDE DEF V
<1>3. ASSUME NEW y, Flying(W, y) PROVE Flying(V, y)
  <2>1. PICK q \in Port : \E k \in DOMAIN W[q] : W[q][k] = y
    BY <1>3 DEF Flying, At
  <2>. QED  BY <1>1, <2>1 DEF Flying, At
<1>4. ASSUME NEW q \in Peers[p], NEW i \in DOMAIN pkgs PROVE Flying(V, pkgs[i])
  <2>1. q \in Port
    BY TopologyAssumption
  <2>. QED  BY <1>1, <2>1 DEF Flying, At
<1>5. ASSUME NEW b \in Bares(V)
      PROVE  b \in Bares(W) \cup {Bare(pkgs[i]) : i \in DOMAIN pkgs}
  <2>1. PICK y : Flying(V, y) /\ b = Bare(y)
    BY <1>5, BaresFlying
  <2>. QED  BY <1>2, <2>1, BaresFlying
<1>6. ASSUME NEW b \in Bares(W) PROVE b \in Bares(V)
  <2>1. PICK y : Flying(W, y) /\ b = Bare(y)
    BY <1>6, BaresFlying
  <2>. QED  BY <1>3, <2>1, BaresFlying
<1>7. ASSUME NEW q \in Peers[p], NEW i \in DOMAIN pkgs PROVE Bare(pkgs[i]) \in Bares(V)
  BY <1>4, BaresFlying
<1>8. ASSUME Peers[p] # {}
      PROVE  Bares(V) = Bares(W) \cup {Bare(pkgs[i]) : i \in DOMAIN pkgs}
  BY <1>5, <1>6, <1>7, <1>8
<1>. QED  BY <1>v, <1>8 DEF V

LEMMA BareAppend ==
  ASSUME NEW c \in Seq(Pkg), NEW x \in Pkg
  PROVE  [k \in DOMAIN Append(c, x) |-> Bare(Append(c, x)[k])]
           = Append([k \in DOMAIN c |-> Bare(c[k])], Bare(x))
<1> DEFINE AllBare == {Bare(y) : y \in Pkg}
           n == Len(c)
           b == [k \in 1..n |-> Bare(c[k])]
           full == Append(c, x)
<1>1. /\ n \in Nat /\ DOMAIN c = 1..n /\ DOMAIN full = 1..(n + 1)
      /\ \A k \in 1..n : full[k] = c[k] /\ c[k] \in Pkg
      /\ full[n + 1] = x
  OBVIOUS
<1>2. \A k \in 1..n : Bare(c[k]) \in AllBare
  BY <1>1
<1>3. Bare(x) \in AllBare
  OBVIOUS
<1>4. [k \in DOMAIN c |-> Bare(c[k])] = b
  BY <1>1
<1> HIDE DEF n, full, AllBare
<1>5. b \in Seq(AllBare) /\ Len(b) = n /\ \A k \in 1..n : b[k] = Bare(c[k])
  BY <1>1, <1>2
<1> HIDE DEF b
<1>6. Append(b, Bare(x)) = [k \in 1..(n + 1) |-> IF k = n + 1 THEN Bare(x) ELSE b[k]]
  <2> DEFINE z == Bare(x)
  <2>1. z \in AllBare
    BY <1>3
  <2> HIDE DEF z
  <2>2. /\ Append(b, z) \in Seq(AllBare) /\ Len(Append(b, z)) = n + 1
        /\ \A k \in 1..(n + 1) : Append(b, z)[k] = IF k = n + 1 THEN z ELSE b[k]
    BY ONLY <1>1, <1>5, <2>1
  <2> DEFINE a == Append(b, z)
  <2>3. a \in Seq(AllBare) /\ Len(a) = n + 1
    BY ONLY <2>2
  <2>4. \A k \in 1..(n + 1) : a[k] = IF k = n + 1 THEN z ELSE b[k]
    BY ONLY <2>2
  <2> HIDE DEF a
  <2>5. a = [k \in 1..Len(a) |-> a[k]]
    BY ONLY <2>3
  <2>. QED  BY ONLY <2>3, <2>4, <2>5 DEF a, z
<1>7. ASSUME NEW k \in 1..(n + 1)
      PROVE  Bare(full[k]) = IF k = n + 1 THEN Bare(x) ELSE b[k]
  BY <1>1, <1>5
<1>8. [k \in DOMAIN full |-> Bare(full[k])]
        = [k \in 1..(n + 1) |-> IF k = n + 1 THEN Bare(x) ELSE b[k]]
  BY <1>1, <1>7
<1>. QED  BY <1>4, <1>6, <1>8 DEF full

LEMMA BaresGiven ==
  ASSUME NEW H \in [Host -> [Host -> Seq(Pkg)]], NEW x \in Pkg
  PROVE  BaresOf(Given(H, x)) =
           [BaresOf(H) EXCEPT ![Bare(x).target][Bare(x).sender] = Append(@, Bare(x))]
<1> DEFINE seqs(G, h, s) == [k \in DOMAIN G[h][s] |-> Bare(G[h][s][k])]
<1>x. x.sender \in Host /\ x.target \in Host
      /\ Bare(x).target = x.target /\ Bare(x).sender = x.sender
  BY PkgFields DEF Bare
<1>1. ASSUME NEW h \in Host, NEW s \in Host
      PROVE  seqs(Given(H, x), h, s) =
               IF h = x.target /\ s = x.sender THEN Append(seqs(H, h, s), Bare(x))
               ELSE seqs(H, h, s)
  <2>1. Given(H, x)[h][s] = IF h = x.target /\ s = x.sender THEN Append(H[h][s], x) ELSE H[h][s]
    BY <1>x DEF Given
  <2>2. H[h][s] \in Seq(Pkg)
    OBVIOUS
  <2>. QED  BY <2>1, <2>2, BareAppend
<1>2. \A G : BaresOf(G) = [h \in Host |-> [s \in Host |-> seqs(G, h, s)]]
  BY DEF BaresOf
<1> DEFINE t == x.target
           u == x.sender
           T == BaresOf(H)
<1>3. T = [h \in Host |-> [s \in Host |-> seqs(H, h, s)]]
  BY <1>2
<1>4. BaresOf(Given(H, x)) =
        [h \in Host |-> [s \in Host |-> IF h = t /\ s = u THEN Append(T[h][s], Bare(x))
                                          ELSE T[h][s]]]
  <2> HIDE DEF seqs, T
  <2>. QED  BY <1>1, <1>2, <1>3
<1>5. t \in Host /\ u \in Host /\ Bare(x).target = t /\ Bare(x).sender = u
  BY <1>x
<1>6. T = [h \in Host |-> [s \in Host |-> T[h][s]]]
  <2> HIDE DEF seqs, T
  <2>. QED  BY <1>3
<1> HIDE DEF seqs, t, u, T
<1>7. [T EXCEPT ![t][u] = Append(@, Bare(x))] =
        [h \in Host |-> [s \in Host |-> IF h = t /\ s = u THEN Append(T[h][s], Bare(x))
                                          ELSE T[h][s]]]
  BY ONLY <1>5, <1>6
<1>. QED  BY <1>4, <1>5, <1>7 DEF T

Taken == BaresOf(handled)

LEMMA WiresAre == OnWires = Bares(wire) /\ OnWires' = Bares(wire')
BY DEF OnWires, Bares

LEMMA MapInit == Init => EndToEnd!Init
<1> SUFFICES ASSUME Init PROVE EndToEnd!Init
  OBVIOUS
<1>1. \A q \in Port : wire[q] = <<>> /\ DOMAIN wire[q] = {}
  BY DEF Init
<1>2. OnWires = {}
  BY <1>1 DEF OnWires
<1>3. ASSUME NEW h \in Host, NEW s \in Host
      PROVE  [k \in DOMAIN handled[h][s] |-> Bare(handled[h][s][k])] = <<>>
  <2>1. handled[h][s] = <<>> /\ DOMAIN handled[h][s] = {}
    BY DEF Init
  <2>. QED  BY <2>1
<1>4. seq = [h \in Host |-> 0]
  BY DEF Init
<1>. QED  BY <1>2, <1>3, <1>4 DEF EndToEnd!Init

\* Messages written for ports, none or one, go into flight together or not at all.
LEMMA MapWritten ==
  ASSUME NEW W \in [Port -> Seq(Pkg)], NEW pkgs \in Seq(Pkg), NEW ports,
         ports = <<>> \/ \E p \in Port : ports = <<p>>
  PROVE  \/ Bares(Written(W, ports, pkgs)) = Bares(W) \cup {Bare(pkgs[i]) : i \in DOMAIN pkgs}
         \/ Bares(Written(W, ports, pkgs)) = Bares(W)
<1>1. CASE ports = <<>>
  BY <1>1, WrittenNowhere
<1>2. ASSUME NEW p \in Port, ports = <<p>>
      PROVE  \/ Bares(Written(W, ports, pkgs)) = Bares(W) \cup {Bare(pkgs[i]) : i \in DOMAIN pkgs}
             \/ Bares(Written(W, ports, pkgs)) = Bares(W)
  <2>1. Written(W, ports, pkgs) = Added(W, p, pkgs)
    BY <1>2, WrittenOnce
  <2>2. /\ Peers[p] = {} => Bares(Added(W, p, pkgs)) = Bares(W)
        /\ Peers[p] # {} => Bares(Added(W, p, pkgs)) =
                              Bares(W) \cup {Bare(pkgs[i]) : i \in DOMAIN pkgs}
    BY BaresAdded
  <2>. QED  BY ONLY <2>1, <2>2
<1>. QED  BY <1>1, <1>2

LEMMA MapSend ==
  ASSUME TypeOK, OrderInv, NEW h \in Host, NEW t \in Host, NEW n \in 1..MaxBatch,
         NEW need_ack \in BOOLEAN, sent + n <= MaxSends, NEW ports,
         ports = <<>> \/ \E p \in Port : ports = <<p>> /\ Owner[p] = h /\ t \in Behind[p],
         <<h, t>> \in MayTalk \cup {<<r[1], r[2]>> : r \in ByPort},
         seq' = [seq EXCEPT ![h] = (@ + n) % SeqMod],
         wire' = Written(wire, ports, [i \in 1..n |-> NewPkg(h, t, i - 1, need_ack)]),
         handled' = handled
  PROVE  EndToEnd!Next
<1> DEFINE batch == [i \in 1..n |-> NewPkg(h, t, i - 1, need_ack)]
           msgs == {EndToEnd!Message(h, t, seq[h] + k, need_ack) : k \in 0..(n - 1)}
<1>1. n \in Nat \ {0} /\ n \in Nat
  BY LimitAssumption
<1>2. BatchOf(batch, h, t, n)
  BY <1>1, BatchFacts DEF OrderInv
<1>3. wire \in [Port -> Seq(Pkg)] /\ batch \in Seq(Pkg)
  BY <1>2 DEF TypeOK, BatchOf
<1>4. {Bare(batch[i]) : i \in DOMAIN batch} = msgs
  <2> DEFINE msg(k) == EndToEnd!Message(h, t, seq[h] + k, need_ack)
  <2>1. ASSUME NEW k \in 0..(n - 1) PROVE Bare(NewPkg(h, t, k, need_ack)) = msg(k)
    <3>1. k \in Nat /\ sent + k <= MaxSends
      BY <1>1, LimitAssumption DEF TypeOK
    <3>2. (seq[h] + k) % SeqMod = seq[h] + k
      BY <3>1, NoWrap DEF OrderInv
    <3>. QED  BY <3>2 DEF NewPkg, Bare, EndToEnd!Message
  <2>2. DOMAIN batch = 1..n /\ \A i \in 1..n : batch[i] = NewPkg(h, t, i - 1, need_ack)
    OBVIOUS
  <2>3. msgs = {msg(k) : k \in 0..(n - 1)}
    OBVIOUS
  <2> HIDE DEF msg, batch, msgs
  <2>4. ASSUME NEW i \in 1..n PROVE i - 1 \in 0..(n - 1) /\ Bare(batch[i]) = msg(i - 1)
    BY <1>1, <2>1, <2>2
  <2>5. ASSUME NEW k \in 0..(n - 1) PROVE k + 1 \in 1..n /\ Bare(batch[k + 1]) = msg(k)
    <3>1. k + 1 \in 1..n /\ (k + 1) - 1 = k
      BY <1>1
    <3>. QED  BY <2>4, <3>1
  <2>6. \A b \in {Bare(batch[i]) : i \in 1..n} : b \in {msg(k) : k \in 0..(n - 1)}
    BY <2>4
  <2>7. \A b \in {msg(k) : k \in 0..(n - 1)} : b \in {Bare(batch[i]) : i \in 1..n}
    BY <2>5
  <2>. QED  BY <2>2, <2>3, <2>6, <2>7
<1> HIDE DEF batch, msgs
<1>5. wire' = Written(wire, ports, batch)
  BY DEF batch
<1>6. seq' = [seq EXCEPT ![h] = @ + n]
  BY ONLY TypeOK, OrderInv, <1>1, <1>2, SendOrder, h \in Host, t \in Host, sent + n <= MaxSends,
          ports = <<>> \/ \E p \in Port : ports = <<p>> /\ Owner[p] = h /\ t \in Behind[p],
          seq' = [seq EXCEPT ![h] = (@ + n) % SeqMod]
<1>7. OnWires' = OnWires \cup msgs \/ OnWires' = OnWires
  <2>1. ports = <<>> \/ \E p \in Port : ports = <<p>>
    OBVIOUS
  <2>2. \/ Bares(wire') = Bares(wire) \cup {Bare(batch[i]) : i \in DOMAIN batch}
        \/ Bares(wire') = Bares(wire)
    BY ONLY <1>3, <1>5, <2>1, MapWritten
  <2>. QED  BY <1>4, <2>2, WiresAre
<1>8. EndToEnd!Send(h, t, n, need_ack)
  BY <1>6, <1>7 DEF EndToEnd!Send, msgs
<1>. QED  BY <1>8 DEF EndToEnd!Next

LEMMA MapReceive ==
  ASSUME TypeOK, OrderInv, NEW p \in Port, Receive(p)
  PROVE  EndToEnd!Next \/ UNCHANGED EndToEnd!vars
<1> DEFINE h == Owner[p]
           x == Head(wire[p])
           wires == [wire EXCEPT ![p] = Tail(@)]
           msg == Bare(x)
<1>0. /\ wire \in [Port -> Seq(Pkg)] /\ handled \in [Host -> [Host -> Seq(Pkg)]]
      /\ Heading(wire) /\ Ordered(wire) /\ wire[p] # <<>> /\ seq' = seq
      /\ Dispatch(h, p, x, wires) \/ Forward(h, p, x, wires) \/ Drop(h, x, wires)
  BY DEF TypeOK, OrderInv, WireInv, Receive
<1>1. /\ h \in Host /\ x \in Pkg /\ x.sender \in Host /\ x.target \in Host
      /\ x.sender \in Behind[p] /\ Flying(wire, x) /\ Peers[p] # {}
  BY <1>0, HeadFacts, PkgFields, TopologyAssumption
<1>2. wires = Without(wire, p) /\ wires \in [Port -> Seq(Pkg)]
  BY <1>0, WithoutFacts DEF Without
<1>3. Bares(wires) = Bares(wire) \ {msg} /\ msg \in Bares(wire)
  BY <1>0, <1>2, BaresWithout
<1>l. ASSUME wire' = wires, handled' = handled PROVE EndToEnd!Next
  <2>1. OnWires' = OnWires \ {msg} /\ msg \in OnWires
    BY <1>3, <1>l, WiresAre
  <2>2. EndToEnd!Lose(msg)
    BY <1>0, <1>l, <2>1 DEF EndToEnd!Lose
  <2>. QED  BY <2>1, <2>2 DEF EndToEnd!Next
<1>4. ASSUME Dispatch(h, p, x, wires) PROVE EndToEnd!Next
  <2>1. x.target = h /\ handled' = Given(handled, x)
    BY <1>4 DEF Dispatch, Given
  <2>m. /\ msg.sender = x.sender /\ msg.target = x.target /\ msg.seq = x.seq
        /\ msg.is_ack = x.is_ack /\ msg.need_ack = x.need_ack
    BY DEF Bare
  <2>2. ASSUME NEW other \in OnWires,
               other.sender = msg.sender /\ other.target = msg.target
               /\ other.is_ack = msg.is_ack
        PROVE  msg.seq <= other.seq
    <3>1. PICK y : Flying(wire, y) /\ other = Bare(y)
      BY <2>2, WiresAre, BaresFlying
    <3>2. other.seq = y.seq /\ SameStream(x, y)
      BY <2>2, <2>m, <3>1 DEF Bare, SameStream
    <3>3. x.seq \in Nat /\ y.seq \in Nat
      BY <1>0, <1>1, <3>1, FlyingType, PkgFields
    <3>4. x.seq <= y.seq
      <4>1. y = x \/ Flying(wires, y)
        <5>1. wire \in [Port -> Seq(Pkg)] /\ wire[p] # <<>>
          BY <1>0
        <5>2. y = Head(wire[p]) \/ Flying(Without(wire, p), y)
          BY ONLY <3>1, <5>1, FlyingRest, p \in Port
        <5>. QED  BY <1>2, <5>2
      <4>2. ASSUME Flying(wires, y) PROVE x.seq < y.seq
        <5>1. Handled(Given(handled, x), x)
          BY <1>0, <1>1, GivenFacts
        <5>2. HandledFirst(wires, Given(handled, x))
          <6>1. /\ WireInv(wire, handled, seq) /\ InOrder(handled) /\ Kept(handled)
                /\ Head(wire[p]).target = Owner[p]
            BY <2>1 DEF OrderInv
          <6>2. WireInv(Without(wire, p), Given(handled, Head(wire[p])), seq)
            BY ONLY <1>0, <6>1, OrderedHandle, p \in Port
          <6>. QED  BY <1>2, <6>2 DEF WireInv
        <5>. QED  BY <3>2, <4>2, <5>1, <5>2 DEF HandledFirst
      <4>. QED  BY ONLY <3>3, <4>1, <4>2
    <3>. QED  BY <2>m, <3>2, <3>4
  <2>3. Taken' = [Taken EXCEPT ![msg.target][msg.sender] = Append(@, msg)]
    BY <1>0, <1>1, <2>1, BaresGiven DEF Taken
  <2>4. OnWires' = (OnWires \ {msg})
                     \cup (IF msg.need_ack THEN {EndToEnd!AnswerTo(msg)} ELSE {})
    <3>1. CASE x.need_ack
      <4> DEFINE a == AckOf(h, x)
                 pkgs == <<a>>
      <4>1. wire' = Written(wires, <<p>>, pkgs)
        BY <1>4, <3>1 DEF Dispatch
      <4>2. pkgs \in Seq(Pkg) /\ DOMAIN pkgs = {1} /\ pkgs[1] = a
        BY <1>1, AckOfType
      <4>3. Bare(a) = EndToEnd!AnswerTo(msg)
        BY <2>1 DEF AckOf, Bare, EndToEnd!AnswerTo
      <4> HIDE DEF pkgs, a
      <4>4. Bares(wire') = Bares(wires) \cup {Bare(pkgs[i]) : i \in DOMAIN pkgs}
        <5>1. wire' = Added(wires, p, pkgs)
          BY <1>2, <4>1, <4>2, WrittenOnce
        <5> HIDE DEF wires
        <5>2. Peers[p] # {} => Bares(Added(wires, p, pkgs)) =
                                 Bares(wires) \cup {Bare(pkgs[i]) : i \in DOMAIN pkgs}
          BY <1>2, <4>2, BaresAdded
        <5>. QED  BY <1>1, <5>1, <5>2
      <4>5. Bares(wire') = Bares(wires) \cup {EndToEnd!AnswerTo(msg)}
        BY <4>2, <4>3, <4>4
      <4>. QED  BY <1>3, <2>m, <3>1, <4>5, WiresAre
    <3>2. CASE ~x.need_ack
      <4>1. wire' = wires
        BY <1>4, <3>2 DEF Dispatch
      <4>. QED  BY <1>3, <2>m, <3>2, <4>1, WiresAre
    <3>. QED  BY <3>1, <3>2
  <2>5. msg \in OnWires
    BY <1>3, WiresAre
  <2> HIDE DEF msg
  <2>6. PICK m \in OnWires : m = msg
    BY <2>5
  <2>7. EndToEnd!Handle(m)
    BY <1>0, <2>2, <2>3, <2>4, <2>6 DEF EndToEnd!Handle, Taken, BaresOf
  <2>. QED  BY <2>7 DEF EndToEnd!Next
<1>5. ASSUME Forward(h, p, x, wires) PROVE EndToEnd!Next \/ UNCHANGED EndToEnd!vars
  <2> DEFINE f == Forwarded(x)
             pkgs == <<f>>
             ports == Learned(h, p, x)[h][x.target]
  <2>1. wire' = Written(wires, ports, pkgs) /\ handled' = handled
    BY <1>5 DEF Forward
  <2>2. pkgs \in Seq(Pkg) /\ DOMAIN pkgs = {1} /\ pkgs[1] = f
    BY <1>1, ForwardedType
  <2>3. Bare(f) = msg
    BY <1>1 DEF Forwarded, Bare, Pkg
  <2>4. ports = <<>> \/ \E n \in Port : ports = <<n>>
    <3>1. Routed(Learned(h, p, x))
      BY <1>0, LearnedRouted
    <3>. QED  BY <1>1, <3>1 DEF Routed
  <2> HIDE DEF f, pkgs, ports
  <2>5. \/ Bares(wire') = Bares(wires) \cup {Bare(pkgs[i]) : i \in DOMAIN pkgs}
        \/ Bares(wire') = Bares(wires)
    BY ONLY <1>2, <2>1, <2>2, <2>4, MapWritten
  <2>6. CASE Bares(wire') = Bares(wires) \cup {Bare(pkgs[i]) : i \in DOMAIN pkgs}
    <3>1. OnWires' = OnWires
      BY <1>3, <2>2, <2>3, <2>6, WiresAre
    <3>. QED  BY <1>0, <2>1, <3>1 DEF EndToEnd!vars
  <2>7. CASE Bares(wire') = Bares(wires)
    <3>1. OnWires' = OnWires \ {msg} /\ msg \in OnWires
      BY <1>3, <2>7, WiresAre
    <3>2. EndToEnd!Lose(msg)
      BY <1>0, <2>1, <3>1 DEF EndToEnd!Lose
    <3>. QED  BY <3>1, <3>2 DEF EndToEnd!Next
  <2>. QED  BY <2>5, <2>6, <2>7
<1>6. ASSUME Drop(h, x, wires) PROVE EndToEnd!Next
  BY <1>6, <1>l DEF Drop
<1>. QED  BY <1>0, <1>4, <1>5, <1>6

LEMMA MapStep ==
  ASSUME TypeOK, OrderInv, [Next]_vars
  PROVE  EndToEnd!Next \/ UNCHANGED EndToEnd!vars
<1>1. ASSUME NEW h \in Host, NEW t \in Host, NEW p \in Port, AddRoute(h, t, p) PROVE FALSE
  BY <1>1, PathAssumption DEF AddRoute, TypeOK
<1>2. ASSUME NEW h \in Host, NEW t \in Host, NEW n \in 1..MaxBatch,
             NEW need_ack \in BOOLEAN, SendMsgs(h, t, n, need_ack)
      PROVE  EndToEnd!Next
  <2>1. /\ sent + n <= MaxSends /\ handled' = handled /\ <<h, t>> \in MayTalk
        /\ seq' = [seq EXCEPT ![h] = (@ + n) % SeqMod]
        /\ wire' = Written(wire, routes[h][t], [i \in 1..n |-> NewPkg(h, t, i - 1, need_ack)])
    BY <1>2 DEF SendMsgs
  <2>2. routes[h][t] = <<>> \/ \E p \in Port : routes[h][t] = <<p>> /\ Owner[p] = h
                                               /\ t \in Behind[p]
    BY DEF OrderInv, Routed
  <2>3. <<h, t>> \in MayTalk \cup {<<r[1], r[2]>> : r \in ByPort}
    BY <2>1
  <2>. QED  BY <2>1, <2>2, <2>3, MapSend
<1>3. ASSUME NEW h \in Host, NEW t \in Host, NEW p \in Port, NEW need_ack \in BOOLEAN,
             SendMsgByPort(h, p, t, need_ack)
      PROVE  EndToEnd!Next
  <2> DEFINE r == <<h, t, p>>
             batch == [i \in 1..1 |-> NewPkg(h, t, i - 1, need_ack)]
  <2>1. /\ sent < MaxSends /\ handled' = handled /\ r \in ByPort
        /\ seq' = [seq EXCEPT ![h] = (@ + 1) % SeqMod]
        /\ wire' = Written(wire, <<p>>, <<NewPkg(h, t, 0, need_ack)>>)
    BY <1>3 DEF SendMsgByPort
  <2>2. Owner[p] = h /\ t \in Behind[p]
    BY <2>1, RouteAssumption, PathAssumption DEF OwnRoutes
  <2>3. sent + 1 <= MaxSends /\ 1 \in 1..MaxBatch
    BY <2>1, LimitAssumption, TrafficAssumption DEF TypeOK
  <2>4. <<h, t>> \in MayTalk \cup {<<q[1], q[2]>> : q \in ByPort}
    <3>1. r[1] = h /\ r[2] = t
      OBVIOUS
    <3>. QED  BY <2>1, <3>1
  <2>5. batch = <<NewPkg(h, t, 0, need_ack)>>
    OBVIOUS
  <2>6. wire' = Written(wire, <<p>>, batch)
    BY <2>1, <2>5
  <2>7. <<p>> = <<>> \/ \E q \in Port : <<p>> = <<q>> /\ Owner[q] = h /\ t \in Behind[q]
    BY <2>2
  <2>. QED  BY <2>1, <2>3, <2>4, <2>6, <2>7, MapSend
<1>4. ASSUME NEW p \in Port, Receive(p) PROVE EndToEnd!Next \/ UNCHANGED EndToEnd!vars
  BY <1>4, MapReceive
<1>5. ASSUME NEW p \in Port, Lose(p) PROVE EndToEnd!Next
  <2> DEFINE msg == Bare(Head(wire[p]))
  <2>1. /\ wire \in [Port -> Seq(Pkg)] /\ Heading(wire) /\ Ordered(wire) /\ wire[p] # <<>>
        /\ wire' = Without(wire, p) /\ UNCHANGED <<seq, handled>>
    BY <1>5 DEF Lose, Without, TypeOK, OrderInv, WireInv
  <2>2. OnWires' = OnWires \ {msg} /\ msg \in OnWires
    BY <2>1, BaresWithout, WiresAre
  <2>3. EndToEnd!Lose(msg)
    BY <2>1, <2>2 DEF EndToEnd!Lose
  <2>. QED  BY <2>2, <2>3 DEF EndToEnd!Next
<1>6. CASE UNCHANGED vars
  BY <1>6 DEF vars, EndToEnd!vars, OnWires
<1>. QED  BY <1>1, <1>2, <1>3, <1>4, <1>5, <1>6 DEF Next

(* Every tree of hosts is a lossy FIFO channel between the applications of *)
(* any two of them: whatever is forwarded, learned or lost on the way is a *)
(* step of Messaging, or none at all.                                      *)
THEOREM NetImplementsMessaging == Spec => ImplementsMessaging
<1>1. TypeOK /\ OrderInv /\ [Next]_vars => OrderInv'
  BY OrderStep
<1>2. TypeOK /\ OrderInv /\ [Next]_vars => [EndToEnd!Next]_(EndToEnd!vars)
  BY MapStep
<1>. QED  BY OrderInit, MapInit, <1>1, <1>2, NetTypes, PTL DEF Spec, ImplementsMessaging, EndToEnd!Spec

-----------------------------------------------------------------------------
(***************************************************************************)
(* Answers find their way.  Inductive strengthening: every route leads; a  *)
(* package has been forwarded as often as there are hosts behind it, and   *)
(* an answer has the forwards left that its way still takes.  R stands for *)
(* the routes.                                                             *)
(***************************************************************************)
Measured(R, q, x) ==
  /\ Distance[Owner[q]][x.sender] = x.forword_cnt + 1
  /\ x.is_ack => /\ x.forword_cnt + Distance[Owner[q]][x.target] <= MaxForward
                 /\ Owner[q] = x.target \/ R[Owner[q]][x.target] # <<>>

AllMeasured(R, W) == \A q \in Port : \A k \in DOMAIN W[q] : Measured(R, q, W[q][k])

AllLead(R) == \A h, s \in Host : R[h][s] # <<>> => Leads(R, h, s)

AckInv == AllLead(routes) /\ AllMeasured(routes, wire)

LEMMA AckInit == Init => AckInv
<1> SUFFICES ASSUME Init PROVE AckInv
  OBVIOUS
<1>1. ASSUME NEW h \in Host, NEW s \in Host, routes[h][s] # <<>> PROVE Leads(routes, h, s)
  <2> DEFINE first == CHOOSE p \in Port : <<h, s, p>> \in InitRoutes
             r == <<h, s, first>>
  <2>1. /\ \E p \in Port : <<h, s, p>> \in InitRoutes
        /\ routes[h][s] = <<CHOOSE p \in Port : <<h, s, p>> \in InitRoutes>>
    BY <1>1 DEF Init, RoutesOf
  <2>2. first \in Port /\ r \in InitRoutes /\ routes[h][s] = <<first>>
    BY <2>1
  <2> HIDE DEF first
  <2>3. r[2] = s /\ r[3] = first
    OBVIOUS
  <2>4. PICK q \in Peers[first] : s = Owner[q] \/ \E p \in Port : <<Owner[q], s, p>> \in InitRoutes
    <3> HIDE DEF r
    <3>1. \E q \in Peers[r[3]] :
            r[2] = Owner[q] \/ \E p \in Port : <<Owner[q], r[2], p>> \in InitRoutes
      BY <2>2, AnswerAssumption
    <3>. QED  BY <2>3, <3>1
  <2>5. q \in Port /\ Owner[q] \in Host
    BY <2>2, TopologyAssumption
  <2>6. ASSUME NEW p \in Port, <<Owner[q], s, p>> \in InitRoutes PROVE routes[Owner[q]][s] # <<>>
    BY <2>5, <2>6 DEF Init, RoutesOf
  <2>7. routes[h][s][1] = first
    BY <2>2
  <2>. QED  BY <2>4, <2>6, <2>7 DEF Leads
<1>2. \A q \in Port : DOMAIN wire[q] = {}
  BY DEF Init
<1>. QED  BY <1>1, <1>2 DEF AckInv, AllLead, AllMeasured

\* The host at the other end of the line has sent x, or has a route to its sender.
LEMMA CameFrom ==
  ASSUME TypeOK, PathInv, NEW p \in Port, wire[p] # <<>>, NEW q \in Peers[p]
  PROVE  Owner[q] = Head(wire[p]).sender \/ routes[Owner[q]][Head(wire[p]).sender] # <<>>
<1>1. wire[p] \in Seq(TracedBy(routes, p))
  BY DEF PathInv, WiresTraced
<1>2. Head(wire[p]) \in TracedBy(routes, p)
  BY <1>1
<1>3. PICK n \in Port : p \in Peers[n] /\ (Owner[n] = Head(wire[p]).sender
                                           \/ routes[Owner[n]][Head(wire[p]).sender] # <<>>)
  BY <1>2 DEF TracedBy
<1>4. Peers[p] = {n}
  BY <1>3, PeerFacts
<1>. QED  BY <1>3, <1>4

LEMMA AllLeadStep ==
  ASSUME TypeOK, PathInv, AckInv, OrderInv, [Next]_vars
  PROVE  AllLead(routes')
<1> SUFFICES ASSUME NEW g \in Host, NEW u \in Host, routes'[g][u] # <<>>
             PROVE  Leads(routes', g, u)
  BY DEF AllLead
<1>s. ASSUME routes'[g][u] = routes[g][u] PROVE Leads(routes', g, u)
  BY <1>s, LeadsGrows DEF AckInv, AllLead
<1>1. ASSUME NEW h \in Host, NEW t \in Host, NEW p \in Port, AddRoute(h, t, p) PROVE FALSE
  BY <1>1, PathAssumption DEF AddRoute, TypeOK
<1>2. ASSUME NEW p \in Port, Receive(p) PROVE Leads(routes', g, u)
  <2> DEFINE h == Owner[p]
             x == Head(wire[p])
  <2>1. wire[p] # <<>> /\ routes' = Learned(h, p, x)
    BY <1>2 DEF Receive
  <2>2. h \in Host /\ x \in Pkg /\ Peers[p] # {}
    BY <2>1, ArrivingPkg, HeadFacts DEF OrderInv, WireInv, TypeOK
  <2>l. routes'[g][u] = IF g = h /\ u = x.sender /\ routes[g][u] = <<>>
                        THEN <<p>> ELSE routes[g][u]
    <3> HIDE DEF h, x
    <3>1. \A a, b \in Host :
            Learned(h, p, x)[a][b] =
              IF a = h /\ b = x.sender /\ routes[a][b] = <<>> THEN <<p>> ELSE routes[a][b]
      BY <2>2, LearnedFacts
    <3>. QED  BY <2>1, <3>1
  <2>3. CASE g = h /\ u = x.sender /\ routes[g][u] = <<>>
    <3>1. routes'[g][u] = <<p>>
      BY <2>l, <2>3
    <3>2. routes'[g][u][1] = p
      BY <3>1
    <3>3. PICK q \in Peers[p] : TRUE
      BY <2>2
    <3>4. Owner[q] = u \/ routes[Owner[q]][u] # <<>>
      BY <2>1, <2>3, CameFrom
    <3>5. Owner[q] \in Host
      BY PeerFacts
    <3>6. Owner[q] = u \/ routes'[Owner[q]][u] # <<>>
      BY <3>4, <3>5, RoutesGrow
    <3>. QED  BY <3>2, <3>6 DEF Leads
  <2>4. CASE ~(g = h /\ u = x.sender /\ routes[g][u] = <<>>)
    <3>1. routes'[g][u] = routes[g][u]
      BY <2>l, <2>4
    <3>. QED  BY <3>1, <1>s
  <2>. QED  BY <2>3, <2>4
<1>3. ASSUME UNCHANGED routes PROVE Leads(routes', g, u)
  BY <1>3, <1>s
<1>. QED  BY <1>1, <1>2, <1>3 DEF Next, SendMsgs, SendMsgByPort, Lose, vars

LEMMA MeasuredWithout ==
  ASSUME NEW R, NEW W \in [Port -> Seq(Pkg)], NEW p \in Port, W[p] # <<>>, AllMeasured(R, W)
  PROVE  AllMeasured(R, Without(W, p))
<1> DEFINE W1 == Without(W, p)
<1>1. \A q \in Port : \A k \in DOMAIN W1[q] : \E l \in DOMAIN W[q] : W1[q][k] = W[q][l]
  BY WithoutWhere
<1> HIDE DEF W1
<1>2. ASSUME NEW q \in Port, NEW k \in DOMAIN W1[q] PROVE Measured(R, q, W1[q][k])
  <2>1. PICK l \in DOMAIN W[q] : W1[q][k] = W[q][l]
    BY <1>1
  <2>. QED  BY <2>1 DEF AllMeasured
<1>. QED  BY <1>2 DEF AllMeasured, W1

LEMMA MeasuredAdded ==
  ASSUME NEW R, NEW W \in [Port -> Seq(Pkg)], NEW p \in Port, NEW pkgs \in Seq(Pkg),
         AllMeasured(R, W),
         \A q \in Peers[p] : \A i \in DOMAIN pkgs : Measured(R, q, pkgs[i])
  PROVE  AllMeasured(R, Added(W, p, pkgs))
<1> DEFINE V == Added(W, p, pkgs)
<1>1. \A q \in Port : \A k \in DOMAIN V[q] :
        \/ k \in DOMAIN W[q] /\ V[q][k] = W[q][k]
        \/ q \in Peers[p] /\ \E i \in DOMAIN pkgs : V[q][k] = pkgs[i]
  BY AddedWhere
<1> HIDE DEF V
<1>2. ASSUME NEW q \in Port, NEW k \in DOMAIN V[q] PROVE Measured(R, q, V[q][k])
  <2>1. CASE k \in DOMAIN W[q] /\ V[q][k] = W[q][k]
    BY <2>1 DEF AllMeasured
  <2>2. CASE q \in Peers[p] /\ \E i \in DOMAIN pkgs : V[q][k] = pkgs[i]
    BY <2>2
  <2>. QED  BY <1>1, <2>1, <2>2
<1>. QED  BY <1>2 DEF AllMeasured, V

\* Routes are not given up, so what was measured stays so.
LEMMA MeasuredGrows ==
  ASSUME TypeOK, [Next]_vars, AllMeasured(routes, wire)
  PROVE  AllMeasured(routes', wire)
<1> SUFFICES ASSUME NEW q \in Port, NEW k \in DOMAIN wire[q]
             PROVE  Measured(routes', q, wire[q][k])
  BY DEF AllMeasured
<1> DEFINE x == wire[q][k]
<1>1. x \in Pkg /\ Measured(routes, q, x)
  BY DEF TypeOK, AllMeasured
<1> HIDE DEF x
<1>2. Owner[q] \in Host /\ x.target \in Host
  BY <1>1, PkgFields, TopologyAssumption
<1>3. routes[Owner[q]][x.target] # <<>> => routes'[Owner[q]][x.target] # <<>>
  BY <1>2, RoutesGrow
<1>. QED  BY <1>1, <1>3 DEF Measured, x

\* One line from the host of p to the one across, on the way from or to t.
LEMMA OneLine ==
  ASSUME NEW p \in Port, NEW q \in Peers[p], NEW t \in Host
  PROVE  /\ Distance[Owner[p]][t] \in Nat /\ Distance[Owner[q]][t] \in Nat
         /\ t \in Behind[p] => Distance[Owner[p]][t] = Distance[Owner[q]][t] + 1
         /\ t \notin Behind[p] => Distance[Owner[q]][t] = Distance[Owner[p]][t] + 1
<1>1. q \in Port /\ p \in Peers[q] /\ Owner[p] \in Host /\ Owner[q] \in Host
      /\ (t \notin Behind[p] => t \in Behind[q])
  BY PeerFacts
<1>. QED  BY <1>1, AnswerAssumption

LEMMA AckStep ==
  ASSUME TypeOK, PathInv, HopInv, OrderInv, AckInv, [Next]_vars
  PROVE  AckInv'
<1> DEFINE R == routes'
<1>0. /\ wire \in [Port -> Seq(Pkg)] /\ Routed(routes) /\ Heading(wire) /\ Routed(R) /\ AllLead(R)
      /\ MaxForward \in Nat /\ MaxForward <= 15
  BY RoutedStep, AllLeadStep, LimitAssumption, AnswerAssumption DEF TypeOK, OrderInv, WireInv
<1>w. AllMeasured(R, wire)
  BY MeasuredGrows DEF AckInv
<1>n. ASSUME NEW h \in Host, NEW t \in Host, NEW n \in Nat, NEW need_ack \in BOOLEAN,
             NEW p \in Port, Owner[p] = h, NEW q \in Peers[p]
      PROVE  Measured(R, q, NewPkg(h, t, n, need_ack))
  <2>1. h \notin Behind[p] /\ Distance[h][h] = 0
    BY <1>n, PathAssumption, AnswerAssumption
  <2>2. Distance[Owner[q]][h] = 1
    BY <1>n, <2>1, OneLine
  <2>. QED  BY <2>2 DEF Measured, NewPkg
<1> HIDE DEF R
<1>1. ASSUME NEW h \in Host, NEW t \in Host, NEW p \in Port, AddRoute(h, t, p) PROVE FALSE
  BY <1>1, PathAssumption DEF AddRoute, TypeOK
<1>2. ASSUME NEW h \in Host, NEW t \in Host, NEW n \in 1..MaxBatch,
             NEW need_ack \in BOOLEAN, SendMsgs(h, t, n, need_ack)
      PROVE  AllMeasured(R, wire')
  <2> DEFINE batch == [i \in 1..n |-> NewPkg(h, t, i - 1, need_ack)]
  <2>1. wire' = Written(wire, routes[h][t], batch)
    BY <1>2 DEF SendMsgs
  <2>2. n \in Nat
    BY LimitAssumption
  <2>3. batch \in Seq(Pkg)
    BY <2>2, BatchType
  <2>4. ASSUME NEW p \in Port, Owner[p] = h, NEW q \in Peers[p], NEW i \in DOMAIN batch
        PROVE  Measured(R, q, batch[i])
    <3>1. i - 1 \in Nat /\ batch[i] = NewPkg(h, t, i - 1, need_ack)
      BY <2>2
    <3>. QED  BY <1>n, <2>4, <3>1
  <2> HIDE DEF batch
  <2>5. CASE routes[h][t] = <<>>
    BY <1>0, <1>w, <2>1, <2>3, <2>5, WrittenNowhere
  <2>6. ASSUME NEW p \in Port, routes[h][t] = <<p>>, Owner[p] = h PROVE AllMeasured(R, wire')
    <3>1. wire' = Added(wire, p, batch)
      BY <1>0, <2>1, <2>3, <2>6, WrittenOnce
    <3>. QED  BY <1>0, <1>w, <2>3, <2>4, <2>6, <3>1, MeasuredAdded
  <2>. QED  BY <1>0, <2>5, <2>6 DEF Routed
<1>3. ASSUME NEW h \in Host, NEW t \in Host, NEW p \in Port, NEW need_ack \in BOOLEAN,
             SendMsgByPort(h, p, t, need_ack)
      PROVE  AllMeasured(R, wire')
  <2> DEFINE pkgs == <<NewPkg(h, t, 0, need_ack)>>
  <2>1. wire' = Written(wire, <<p>>, pkgs) /\ <<h, t, p>> \in ByPort
    BY <1>3 DEF SendMsgByPort
  <2>2. Owner[p] = h
    BY <2>1, RouteAssumption DEF OwnRoutes
  <2>3. pkgs \in Seq(Pkg)
    BY NewPkgType
  <2>4. ASSUME NEW q \in Peers[p], NEW i \in DOMAIN pkgs PROVE Measured(R, q, pkgs[i])
    <3>1. pkgs[i] = NewPkg(h, t, 0, need_ack)
      OBVIOUS
    <3>. QED  BY <1>n, <2>2, <3>1
  <2> HIDE DEF pkgs
  <2>5. wire' = Added(wire, p, pkgs)
    BY <1>0, <2>1, <2>3, WrittenOnce
  <2>. QED  BY <1>0, <1>w, <2>3, <2>4, <2>5, MeasuredAdded
<1>4. ASSUME NEW p \in Port, Receive(p) PROVE AllMeasured(R, wire')
  <2> DEFINE h == Owner[p]
             x == Head(wire[p])
             wires == [wire EXCEPT ![p] = Tail(@)]
  <2>1. /\ wire[p] # <<>> /\ R = Learned(h, p, x)
        /\ Dispatch(h, p, x, wires) \/ Forward(h, p, x, wires) \/ Drop(h, x, wires)
    BY <1>4 DEF Receive, R
  <2>2. /\ x \in Pkg /\ x.sender \in Behind[p] /\ x.target \notin Behind[p] /\ Peers[p] # {}
        /\ (x.is_ack => ~x.need_ack) /\ x.sender \in Host /\ x.target \in Host /\ h \in Host
    BY <1>0, <2>1, HeadFacts, PkgFields, TopologyAssumption
  <2>3. wires = Without(wire, p) /\ wires \in [Port -> Seq(Pkg)] /\ AllMeasured(R, wires)
    BY <1>0, <1>w, <2>1, WithoutFacts, MeasuredWithout DEF Without
  <2>4. Measured(R, p, x) /\ x.forword_cnt <= MaxForward /\ x.forword_cnt \in 0..15
    <3>1. 1 \in DOMAIN wire[p] /\ wire[p][1] = x
      BY <1>0, <2>1, WithoutFacts
    <3>2. wire[p] \in Seq(Counted)
      BY DEF HopInv
    <3>3. x \in Counted
      BY <2>1, <3>2
    <3>. QED  BY <1>0, <1>w, <2>2, <3>1, <3>3 DEF AllMeasured, Counted, Pkg
  <2> HIDE DEF h, x, wires
  <2>h. h = Owner[p]
    BY DEF h
  <2>5. ASSUME Dispatch(h, p, x, wires) PROVE AllMeasured(R, wire')
    <3>1. CASE ~x.need_ack
      BY <2>3, <2>5, <3>1 DEF Dispatch
    <3>2. CASE x.need_ack
      <4> DEFINE a == AckOf(h, x)
                 pkgs == <<a>>
      <4>1. wire' = Written(wires, <<p>>, pkgs)
        BY <2>5, <3>2 DEF Dispatch
      <4>2. pkgs \in Seq(Pkg) /\ DOMAIN pkgs = {1} /\ pkgs[1] = a
        BY <2>2, AckOfType
      <4>3. a.sender = h /\ a.target = x.sender /\ a.forword_cnt = 0
        BY DEF AckOf
      <4> HIDE DEF pkgs, a
      <4>4. ASSUME NEW q \in Peers[p] PROVE Measured(R, q, a)
        <5>1. h \notin Behind[p] /\ Distance[h][h] = 0
          BY <2>2, <2>h, PathAssumption, AnswerAssumption
        <5>2. Distance[Owner[q]][h] = 1
          BY <2>2, <2>h, <5>1, OneLine
        <5>3. Distance[Owner[q]][x.sender] = x.forword_cnt
          <6>1. /\ Distance[Owner[p]][x.sender] = Distance[Owner[q]][x.sender] + 1
                /\ Distance[Owner[q]][x.sender] \in Nat
            BY <2>2, OneLine
          <6>2. Distance[Owner[p]][x.sender] = x.forword_cnt + 1
            BY <2>4 DEF Measured
          <6>. QED  BY ONLY <6>1, <6>2, <2>4
        <5>4. Owner[q] = x.sender \/ R[Owner[q]][x.sender] # <<>>
          <6>1. Owner[q] \in Host
            BY PeerFacts
          <6>2. routes[Owner[q]][x.sender] # <<>> => R[Owner[q]][x.sender] # <<>>
            BY <2>2, <6>1, RoutesGrow DEF R
          <6>. QED  BY <2>1, <6>2, CameFrom DEF x
        <5>. QED  BY <1>0, <2>4, <4>3, <5>2, <5>3, <5>4 DEF Measured
      <4>5. wire' = Added(wires, p, pkgs)
        BY <2>3, <4>1, <4>2, WrittenOnce
      <4>. QED  BY <2>3, <4>2, <4>4, <4>5, MeasuredAdded
    <3>. QED  BY <3>1, <3>2
  <2>6. ASSUME Forward(h, p, x, wires) PROVE AllMeasured(R, wire')
    <3> DEFINE f == Forwarded(x)
               pkgs == <<f>>
               t == x.target
               s == x.sender
    <3>1. wire' = Written(wires, R[h][t], pkgs) /\ x.forword_cnt < MaxForward
      BY <2>1, <2>6 DEF Forward
    <3>2. pkgs \in Seq(Pkg) /\ DOMAIN pkgs = {1} /\ pkgs[1] = f
      BY <2>2, ForwardedType
    <3>3. /\ f.sender = s /\ f.target = t /\ f.is_ack = x.is_ack
          /\ f.forword_cnt = x.forword_cnt + 1
      <4>1. x.forword_cnt < 15
        BY <1>0, <2>4, <3>1
      <4>. QED  BY <2>2, <4>1 DEF Forwarded, Pkg
    <3>4. R[h][t] = <<>> \/ \E n \in Port : R[h][t] = <<n>> /\ Owner[n] = h /\ t \in Behind[n]
      BY <1>0, <2>2 DEF Routed
    <3>st. s \in Behind[p] /\ t \notin Behind[p] /\ s \in Host /\ t \in Host
      BY <2>2
    <3>x. /\ Distance[h][s] = x.forword_cnt + 1
          /\ x.is_ack => x.forword_cnt + Distance[h][t] <= MaxForward
      BY <2>4, <2>h DEF Measured
    <3> HIDE DEF f, pkgs, s, t
    <3>5. CASE R[h][t] = <<>>
      BY <2>3, <3>1, <3>2, <3>5, WrittenNowhere
    <3>6. ASSUME NEW n \in Port, R[h][t] = <<n>>, Owner[n] = h, t \in Behind[n]
          PROVE  AllMeasured(R, wire')
      <4>1. wire' = Added(wires, n, pkgs)
        BY <2>3, <3>1, <3>2, <3>6, WrittenOnce
      <4>2. ASSUME NEW q \in Peers[n] PROVE Measured(R, q, f)
        <5>1. s \in Behind[q] /\ Owner[n] = Owner[p]
          BY <2>h, <3>st, <3>6, OneFurther
        <5>2. s \notin Behind[n]
          BY <5>1, PeerFacts
        <5>3. Distance[Owner[q]][s] = Distance[h][s] + 1 /\ Distance[h][s] \in Nat
          BY <3>st, <3>6, <5>2, OneLine
        <5>4. /\ Distance[h][t] = Distance[Owner[q]][t] + 1
              /\ Distance[h][t] \in Nat /\ Distance[Owner[q]][t] \in Nat
          BY <3>st, <3>6, OneLine
        <5>5. Owner[q] = t \/ R[Owner[q]][t] # <<>>
          <6>1. R[h][t] # <<>> /\ R[h][t][1] = n
            BY <3>6
          <6>2. Leads(R, h, t)
            BY <1>0, <2>2, <3>st, <6>1 DEF AllLead
          <6>3. Peers[n] = {q}
            BY PeerFacts
          <6>. QED  BY <6>1, <6>2, <6>3 DEF Leads
        <5>6. Distance[Owner[q]][f.sender] = f.forword_cnt + 1
          BY ONLY <2>4, <3>3, <3>x, <5>3
        <5>7. f.is_ack => f.forword_cnt + Distance[Owner[q]][f.target] <= MaxForward
          <6>1. ASSUME x.forword_cnt + Distance[h][t] <= MaxForward
                PROVE  (x.forword_cnt + 1) + Distance[Owner[q]][t] <= MaxForward
            <7> DEFINE c == x.forword_cnt
                       d == Distance[h][t]
                       e == Distance[Owner[q]][t]
            <7>1. c \in 0..15 /\ MaxForward \in Nat
              BY <1>0, <2>4
            <7>2. d = e + 1 /\ e \in Nat
              BY <5>4
            <7>3. c + d <= MaxForward
              BY <6>1
            <7> HIDE DEF c, d, e
            <7>4. (c + 1) + e <= MaxForward
              BY ONLY <7>1, <7>2, <7>3
            <7>. QED  BY <7>4 DEF c, e
          <6>. QED  BY <3>3, <3>x, <6>1
        <5>. QED  BY <3>3, <5>5, <5>6, <5>7 DEF Measured
      <4>. QED  BY <2>3, <3>2, <4>1, <4>2, MeasuredAdded
    <3>. QED  BY <3>4, <3>5, <3>6
  <2>7. ASSUME Drop(h, x, wires) PROVE AllMeasured(R, wire')
    BY <2>3, <2>7 DEF Drop
  <2>. QED  BY <2>1, <2>5, <2>6, <2>7 DEF h, x, wires
<1>5. ASSUME NEW p \in Port, Lose(p) PROVE AllMeasured(R, wire')
  <2>1. wire[p] # <<>> /\ wire' = Without(wire, p)
    BY <1>5 DEF Lose, Without
  <2>. QED  BY <1>0, <1>w, <2>1, MeasuredWithout
<1>6. ASSUME UNCHANGED vars PROVE AllMeasured(R, wire')
  BY <1>6, <1>w DEF vars
<1>7. AllMeasured(R, wire')
  BY <1>1, <1>2, <1>3, <1>4, <1>5, <1>6 DEF Next
<1>. QED  BY <1>0, <1>7 DEF AckInv, R

(* An answer that has not arrived is where a route to its target is known, *)
(* and has a forward left to take it: the way there was the same number of *)
(* hosts long, and each of them has learned a route back.                  *)
THEOREM NetAckNeverStranded == Spec => []AckNeverStranded
<1>1. TypeOK /\ PathInv /\ HopInv /\ OrderInv /\ AckInv /\ [Next]_vars
        => PathInv' /\ HopInv' /\ OrderInv' /\ AckInv'
  <2>1. SymmetricPeers
    BY PathAssumption DEF SymmetricPeers
  <2>2. ASSUME TypeOK, PathInv, [Next]_vars PROVE PathInv'
    BY <2>1, <2>2, OwnedStep, TracedStep, LeadStep, HeardStep DEF PathInv
  <2>3. ASSUME TypeOK, HopInv, [Next]_vars PROVE HopInv'
    BY <2>3, HopStep, AnswerAssumption
  <2>. QED  BY <2>2, <2>3, OrderStep, AckStep
<1>2. Init => PathInv /\ HopInv /\ OrderInv /\ AckInv
  <2>1. Init => HopInv
    BY DEF Init, HopInv
  <2>. QED  BY <2>1, PathInit, OrderInit, AckInit
<1>3. TypeOK /\ AckInv => AckNeverStranded
  <2> SUFFICES ASSUME TypeOK, AckInv, NEW p \in Port, NEW k \in DOMAIN wire[p],
                      wire[p][k].is_ack, wire[p][k].target # Owner[p]
               PROVE  /\ routes[Owner[p]][wire[p][k].target] # <<>>
                      /\ wire[p][k].forword_cnt < MaxForward
    BY DEF AckNeverStranded
  <2> DEFINE x == wire[p][k]
             d == Distance[Owner[p]][x.target]
  <2>1. x \in Pkg /\ Measured(routes, p, x) /\ x.is_ack /\ x.target # Owner[p]
    BY DEF TypeOK, AckInv, AllMeasured
  <2> HIDE DEF x
  <2>2. Owner[p] \in Host /\ x.target \in Host /\ x.forword_cnt \in Nat /\ MaxForward \in Nat
    BY <2>1, TopologyAssumption, LimitAssumption DEF Pkg
  <2>3. d \in Nat /\ d # 0
    BY <2>1, <2>2, AnswerAssumption
  <2>4. x.forword_cnt + d <= MaxForward /\ routes[Owner[p]][x.target] # <<>>
    BY <2>1 DEF Measured
  <2> HIDE DEF d
  <2>5. x.forword_cnt < MaxForward
    BY ONLY <2>2, <2>3, <2>4
  <2>. QED  BY <2>4, <2>5 DEF x
<1>. QED  BY <1>1, <1>2, <1>3, NetTypes, PTL DEF Spec
=============================================================================
