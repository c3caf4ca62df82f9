----------------------------- MODULE NetProofs -----------------------------
(***************************************************************************)
(* Proofs about Net for every network: any hosts and ports, any peers, any *)
(* configured routes, any bounds.                                          *)
(***************************************************************************)
EXTENDS Net, FiniteSetTheorems, SequenceTheorems, TLAPS

(***************************************************************************)
(* What a write puts on the wires.                                         *)
(***************************************************************************)
\* If what was on every wire was good there, and the packages written are
\* good wherever they are heard, then what is on every wire stays good.
LEMMA WrittenGood ==
  ASSUME NEW wires, NEW Good, NEW ports \in Seq(Port), NEW pkgs,
         \A q \in Port : wires[q] \in Seq(Good[q]),
         \A q \in Port : \A i \in DOMAIN ports :
           q \in Peers[ports[i]] => pkgs \in Seq(Good[q]),
         \E n \in Nat : n = Len(pkgs)
  PROVE  /\ DOMAIN Written(wires, ports, pkgs) = Port
         /\ \A q \in Port : Written(wires, ports, pkgs)[q] \in Seq(Good[q])
<1> SUFFICES ASSUME NEW q \in Port
             PROVE  wires[q] \o Heard(q, ports, pkgs) \in Seq(Good[q])
  BY DEF Written
<1> DEFINE hears == {i \in DOMAIN ports : q \in Peers[ports[i]]}
           copies == Cardinality(hears)
           total == copies * Len(pkgs)
           heardOf == [k \in 1..total |-> pkgs[1 + ((k - 1) % Len(pkgs))]]
<1>1. IsFiniteSet(hears) /\ copies \in Nat
  <2>1. DOMAIN ports = 1..Len(ports) /\ Len(ports) \in Nat
    OBVIOUS
  <2>2. IsFiniteSet(1..Len(ports))
    BY <2>1, FS_Interval
  <2>3. hears \subseteq 1..Len(ports)
    BY <2>1
  <2> QED
    BY <2>2, <2>3, FS_Subset, FS_CardinalityType
<1>2. Heard(q, ports, pkgs) = heardOf
  BY DEF Heard
<1>3. ASSUME hears = {}
      PROVE  Heard(q, ports, pkgs) \in Seq(Good[q])
  <2>1. copies = 0
    BY <1>3, FS_EmptySet
  <2>2. total = 0
    BY <2>1
  <2>3. ASSUME NEW k \in 1..total
        PROVE  pkgs[1 + ((k - 1) % Len(pkgs))] \in Good[q]
    BY <2>2, <2>3
  <2>4. heardOf \in Seq(Good[q])
    <3> HIDE DEF total
    <3> QED
      BY <2>2, <2>3
  <2> QED
    BY <1>2, <2>4
<1>4. ASSUME hears # {}
      PROVE  Heard(q, ports, pkgs) \in Seq(Good[q])
  <2>1. pkgs \in Seq(Good[q])
    BY <1>4
  <2>2. Len(pkgs) \in Nat /\ total \in Nat
    BY <1>1, <2>1
  <2>3. ASSUME NEW k \in 1..total
        PROVE  pkgs[1 + ((k - 1) % Len(pkgs))] \in Good[q]
    <3> HIDE DEF copies
    <3>1. Len(pkgs) # 0
      <4>1. CASE Len(pkgs) = 0
        <5>1. total = 0
          BY <4>1, <1>1
        <5> QED
          BY <5>1, <2>3
      <4> QED
        BY <4>1
    <3>2. k - 1 \in Nat
      BY <2>2, <2>3
    <3>3. 1 + ((k - 1) % Len(pkgs)) \in 1..Len(pkgs)
      BY <2>2, <3>1, <3>2
    <3> QED
      BY <2>1, <3>3
  <2>4. heardOf \in Seq(Good[q])
    <3> HIDE DEF total
    <3> QED
      BY <2>2, <2>3
  <2> QED
    BY <1>2, <2>4
<1>5. Heard(q, ports, pkgs) \in Seq(Good[q])
  BY <1>3, <1>4
<1>6. wires[q] \in Seq(Good[q])
  OBVIOUS
<1> QED
  BY <1>5, <1>6, ConcatProperties

-----------------------------------------------------------------------------
(***************************************************************************)
(* Types.                                                                  *)
(***************************************************************************)
\* A sequence number moved on and cut to its width is a sequence number again.
LEMMA SeqInRange ==
  ASSUME TypeOK, NEW h \in Host, NEW n \in Nat
  PROVE  (seq[h] + n) % SeqMod \in 0..(SeqMod - 1)
<1>1. ASSUME NEW a \in Nat, NEW m \in Nat \ {0}  PROVE (a % m) \in 0..(m - 1)
  OBVIOUS
<1>2. seq[h] \in 0..(SeqMod - 1)
  BY DEF TypeOK
<1>3. SeqMod \in Nat \ {0}
  BY LimitAssumption
<1>4. seq[h] + n \in Nat
  BY ONLY <1>2, <1>3, n \in Nat
<1> QED
  BY ONLY <1>1, <1>3, <1>4

LEMMA NewPkgType ==
  ASSUME TypeOK, NEW h \in Host, NEW t \in Host, NEW n \in Nat,
         NEW need_ack \in BOOLEAN
  PROVE  NewPkg(h, t, n, need_ack) \in Pkg
<1>1. (seq[h] + n) % SeqMod \in 0..(SeqMod - 1)
  BY SeqInRange
<1> QED
  BY <1>1 DEF NewPkg, Pkg

LEMMA BatchType ==
  ASSUME TypeOK, NEW h \in Host, NEW t \in Host, NEW n \in Nat,
         NEW need_ack \in BOOLEAN
  PROVE  /\ [i \in 1..n |-> NewPkg(h, t, i - 1, need_ack)] \in Seq(Pkg)
         /\ Len([i \in 1..n |-> NewPkg(h, t, i - 1, need_ack)]) = n
<1>1. ASSUME NEW i \in 1..n
      PROVE  NewPkg(h, t, i - 1, need_ack) \in Pkg
  BY NewPkgType
<1> QED
  BY <1>1

LEMMA AckOfType ==
  ASSUME NEW h \in Host, NEW pkg \in Pkg
  PROVE  AckOf(h, pkg) \in Pkg
BY DEF AckOf, Pkg

LEMMA ForwardedType ==
  ASSUME NEW pkg \in Pkg
  PROVE  /\ Forwarded(pkg) \in Pkg
         /\ Forwarded(pkg).sender = pkg.sender
         /\ Forwarded(pkg).hops = pkg.hops + 1
         /\ Forwarded(pkg).forword_cnt
              = IF pkg.forword_cnt < 15 THEN pkg.forword_cnt + 1 ELSE pkg.forword_cnt
<1> DEFINE cnt == IF pkg.forword_cnt < 15 THEN pkg.forword_cnt + 1 ELSE pkg.forword_cnt
<1>1. pkg.forword_cnt \in 0..15 /\ pkg.hops \in Nat
  BY DEF Pkg
<1>2. cnt \in 0..15 /\ pkg.hops + 1 \in Nat
  BY <1>1
<1>3. Forwarded(pkg) = [pkg EXCEPT !.forword_cnt = cnt, !.hops = pkg.hops + 1]
  BY DEF Forwarded
<1> HIDE DEF cnt
<1>4. Forwarded(pkg) \in Pkg
  BY <1>2, <1>3 DEF Pkg
<1>5. /\ Forwarded(pkg).sender = pkg.sender
      /\ Forwarded(pkg).hops = pkg.hops + 1
      /\ Forwarded(pkg).forword_cnt = cnt
  BY <1>3 DEF Pkg
<1> QED
  BY <1>4, <1>5 DEF cnt

\* Learning changes nothing but an empty entry for the sender.
LEMMA LearnedFacts ==
  ASSUME TypeOK, NEW p \in Port, NEW pkg \in Pkg, NEW h \in Host
  PROVE  /\ Learned(h, p, pkg) \in [Host -> [Host -> Seq(Port)]]
         /\ \A g, t \in Host :
              Learned(h, p, pkg)[g][t] =
                IF g = h /\ t = pkg.sender /\ routes[g][t] = <<>>
                THEN <<p>> ELSE routes[g][t]
<1>1. pkg.sender \in Host
  BY DEF Pkg
<1>2. routes \in [Host -> [Host -> Seq(Port)]]
  BY DEF TypeOK
<1>3. CASE routes[h][pkg.sender] = <<>>
  <2>1. Learned(h, p, pkg) = [routes EXCEPT ![h][pkg.sender] = AddElement(@, p)]
    BY <1>3 DEF Learned
  <2>2. AddElement(routes[h][pkg.sender], p) = <<p>>
    BY <1>3 DEF AddElement
  <2>3. Learned(h, p, pkg) = [routes EXCEPT ![h][pkg.sender] = <<p>>]
    BY <2>1, <2>2
  <2>4. <<p>> \in Seq(Port)
    OBVIOUS
  <2> QED
    BY <1>1, <1>2, <1>3, <2>3, <2>4, SMTT(30)
<1>4. CASE routes[h][pkg.sender] # <<>>
  BY <1>2, <1>4 DEF Learned
<1> QED
  BY <1>3, <1>4

LEMMA ArrivingPkg ==
  ASSUME TypeOK, NEW p \in Port, wire[p] # <<>>
  PROVE  /\ Owner[p] \in Host
         /\ Head(wire[p]) \in Pkg
         /\ [wire EXCEPT ![p] = Tail(@)] \in [Port -> Seq(Pkg)]
BY TopologyAssumption DEF TypeOK


LEMMA TypeInit == Init => TypeOK
<1> SUFFICES ASSUME Init
             PROVE  TypeOK
  OBVIOUS
<1> DEFINE Entry(h, t) ==
             IF \E p \in Port : <<h, t, p>> \in InitRoutes
             THEN <<CHOOSE p \in Port : <<h, t, p>> \in InitRoutes>> ELSE <<>>
<1>1. ASSUME NEW h \in Host, NEW t \in Host
      PROVE  Entry(h, t) \in Seq(Port)
  <2>1. CASE \E p \in Port : <<h, t, p>> \in InitRoutes
    <3>1. (CHOOSE p \in Port : <<h, t, p>> \in InitRoutes) \in Port
      BY <2>1
    <3> QED
      BY <2>1, <3>1
  <2> QED
    BY <2>1
<1>2. routes = [h \in Host |-> [t \in Host |-> Entry(h, t)]]
  BY DEF Init, RoutesOf
<1>3. routes \in [Host -> [Host -> Seq(Port)]]
  <2> HIDE DEF Entry
  <2> QED
    BY <1>1, <1>2
<1> QED
  BY <1>3, LimitAssumption DEF Init, TypeOK

LEMMA TypeStep == TypeOK /\ [Next]_vars => TypeOK'
<1> SUFFICES ASSUME TypeOK, [Next]_vars
             PROVE  TypeOK'
  OBVIOUS
<1> DEFINE AllPkgs == [q \in Port |-> Pkg]
<1>w. ASSUME NEW wires \in [Port -> Seq(Pkg)], NEW ports \in Seq(Port),
             NEW pkgs \in Seq(Pkg)
      PROVE  Written(wires, ports, pkgs) \in [Port -> Seq(Pkg)]
  <2>1. \A q \in Port : wires[q] \in Seq(AllPkgs[q])
    OBVIOUS
  <2>2. \A q \in Port : \A i \in DOMAIN ports :
          q \in Peers[ports[i]] => pkgs \in Seq(AllPkgs[q])
    OBVIOUS
  <2>3. \E n \in Nat : n = Len(pkgs)
    OBVIOUS
  <2>4. \A q \in Port : Written(wires, ports, pkgs)[q] \in Seq(AllPkgs[q])
    BY <2>1, <2>2, <2>3, WrittenGood
  <2> QED
    BY <2>4 DEF Written
<1>1. ASSUME NEW h \in Host, NEW t \in Host, NEW p \in Port, AddRoute(h, t, p)
      PROVE  TypeOK'
  <2>1. AddElement(routes[h][t], p) \in Seq(Port)
    BY DEF AddElement, TypeOK
  <2>2. routes' \in [Host -> [Host -> Seq(Port)]]
    BY <1>1, <2>1 DEF AddRoute, TypeOK
  <2> QED
    BY <1>1, <2>2 DEF AddRoute, TypeOK
<1>2. ASSUME NEW h \in Host, NEW t \in Host, NEW n \in 1..MaxBatch,
             NEW need_ack \in BOOLEAN, SendMsgs(h, t, n, need_ack)
      PROVE  TypeOK'
  <2> DEFINE batch == [i \in 1..n |-> NewPkg(h, t, i - 1, need_ack)]
  <2>1. batch \in Seq(Pkg)
    BY BatchType
  <2>2. routes[h][t] \in Seq(Port) /\ wire \in [Port -> Seq(Pkg)]
    BY DEF TypeOK
  <2>3. wire' = Written(wire, routes[h][t], batch)
    BY <1>2 DEF SendMsgs
  <2> HIDE DEF batch
  <2>4. wire' \in [Port -> Seq(Pkg)]
    BY <1>w, <2>1, <2>2, <2>3
  <2>5. (seq[h] + n) % SeqMod \in 0..(SeqMod - 1)
    BY SeqInRange
  <2>6. seq' \in [Host -> 0..(SeqMod - 1)]
    BY <1>2, <2>5 DEF SendMsgs, TypeOK
  <2>7. sent' \in 0..MaxSends
    BY <1>2, LimitAssumption DEF SendMsgs, TypeOK
  <2> QED
    BY <1>2, <2>4, <2>6, <2>7 DEF SendMsgs, TypeOK
<1>3. ASSUME NEW h \in Host, NEW t \in Host, NEW p \in Port,
             NEW need_ack \in BOOLEAN, SendMsgByPort(h, p, t, need_ack)
      PROVE  TypeOK'
  <2>1. <<NewPkg(h, t, 0, need_ack)>> \in Seq(Pkg)
    BY NewPkgType
  <2>2. wire' = Written(wire, <<p>>, <<NewPkg(h, t, 0, need_ack)>>)
    BY <1>3 DEF SendMsgByPort
  <2>3. wire \in [Port -> Seq(Pkg)] /\ <<p>> \in Seq(Port)
    BY DEF TypeOK
  <2>4. wire' \in [Port -> Seq(Pkg)]
    BY <1>w, <2>1, <2>2, <2>3
  <2>5. (seq[h] + 1) % SeqMod \in 0..(SeqMod - 1)
    BY SeqInRange
  <2>6. seq' \in [Host -> 0..(SeqMod - 1)]
    BY <1>3, <2>5 DEF SendMsgByPort, TypeOK
  <2>7. sent' \in 0..MaxSends
    BY <1>3, LimitAssumption DEF SendMsgByPort, TypeOK
  <2> QED
    BY <1>3, <2>4, <2>6, <2>7 DEF SendMsgByPort, TypeOK
<1>4. ASSUME NEW p \in Port, Receive(p)
      PROVE  TypeOK'
  <2> DEFINE h == Owner[p]
             pkg == Head(wire[p])
             wires == [wire EXCEPT ![p] = Tail(@)]
  <2>1. h \in Host /\ pkg \in Pkg /\ wires \in [Port -> Seq(Pkg)]
    BY <1>4, ArrivingPkg DEF Receive
  <2>2. pkg.sender \in Host /\ pkg.target \in Host
    BY <2>1 DEF Pkg
  <2>3. /\ routes' = Learned(h, p, pkg)
        /\ heard' = [heard EXCEPT ![h] = @ \cup {pkg.sender}]
        /\ Dispatch(h, p, pkg, wires) \/ Forward(h, p, pkg, wires) \/ Drop(h, pkg, wires)
        /\ UNCHANGED <<seq, late, sent>>
    BY <1>4 DEF Receive
  <2> HIDE DEF h, pkg, wires
  <2>4. routes' \in [Host -> [Host -> Seq(Port)]]
    BY <2>1, <2>3, LearnedFacts
  <2>5. heard' \in [Host -> SUBSET Host]
    BY <2>1, <2>2, <2>3 DEF TypeOK
  <2>6. /\ wire' \in [Port -> Seq(Pkg)]
        /\ handled' \in [Host -> [Host -> Seq(Pkg)]]
    <3>1. CASE Dispatch(h, p, pkg, wires)
      <4>1. handled' \in [Host -> [Host -> Seq(Pkg)]]
        BY <2>1, <2>2, <3>1 DEF Dispatch, TypeOK
      <4>2. <<AckOf(h, pkg)>> \in Seq(Pkg) /\ <<p>> \in Seq(Port)
        BY <2>1, AckOfType
      <4> QED
        BY <2>1, <3>1, <4>1, <4>2, <1>w DEF Dispatch
    <3>2. CASE Forward(h, p, pkg, wires)
      <4>1. <<Forwarded(pkg)>> \in Seq(Pkg)
        BY <2>1, ForwardedType
      <4>2. Learned(h, p, pkg)[h][pkg.target] \in Seq(Port)
        BY <2>1, <2>2, <2>3, <2>4
      <4> QED
        BY <2>1, <3>2, <4>1, <4>2, <1>w DEF Forward, TypeOK
    <3>3. CASE Drop(h, pkg, wires)
      BY <2>1, <3>3 DEF Drop, TypeOK
    <3> QED
      BY <2>3, <3>1, <3>2, <3>3
  <2> QED
    BY <2>3, <2>4, <2>5, <2>6 DEF TypeOK
<1>5. ASSUME NEW p \in Port, Lose(p)
      PROVE  TypeOK'
  BY <1>5, ArrivingPkg DEF Lose, TypeOK
<1>6. CASE UNCHANGED vars
  BY <1>6 DEF vars, TypeOK
<1> QED
  BY <1>1, <1>2, <1>3, <1>4, <1>5, <1>6 DEF Next

(* Every variable keeps its type: counters stay in their bits, wires carry *)
(* packages of known hosts only.                                           *)
THEOREM NetTypes == Spec => []TypeOK
BY TypeInit, TypeStep, PTL DEF Spec

-----------------------------------------------------------------------------
(***************************************************************************)
(* The forward limit.  Inductive strengthening: the count a package        *)
(* carries is the number of its forwards, which the four-bit counter can   *)
(* hold as long as the limit is at most 15.                                *)
(***************************************************************************)
Counted == {pkg \in Pkg : pkg.hops = pkg.forword_cnt /\ pkg.hops <= MaxForward}

HopInv == \A q \in Port : wire[q] \in Seq(Counted)

LEMMA HopStep ==
  ASSUME MaxForward <= 15, TypeOK, HopInv, [Next]_vars
  PROVE  HopInv'
<1> DEFINE AllCounted == [q \in Port |-> Counted]
<1>w. ASSUME NEW wires, NEW ports \in Seq(Port), NEW pkgs \in Seq(Counted),
             \A q \in Port : wires[q] \in Seq(Counted)
      PROVE  \A q \in Port : Written(wires, ports, pkgs)[q] \in Seq(Counted)
  <2>1. \A q \in Port : wires[q] \in Seq(AllCounted[q])
    BY <1>w
  <2>2. \A q \in Port : \A i \in DOMAIN ports :
          q \in Peers[ports[i]] => pkgs \in Seq(AllCounted[q])
    OBVIOUS
  <2>3. \E n \in Nat : n = Len(pkgs)
    OBVIOUS
  <2>4. \A q \in Port : Written(wires, ports, pkgs)[q] \in Seq(AllCounted[q])
    BY <2>1, <2>2, <2>3, WrittenGood
  <2> QED
    BY <2>4
<1>1. ASSUME NEW h \in Host, NEW t \in Host, NEW p \in Port, AddRoute(h, t, p)
      PROVE  HopInv'
  BY <1>1 DEF AddRoute, HopInv
<1>n. ASSUME NEW h \in Host, NEW t \in Host, NEW n \in Nat, NEW need_ack \in BOOLEAN
      PROVE  NewPkg(h, t, n, need_ack) \in Counted
  <2>1. NewPkg(h, t, n, need_ack) \in Pkg
    BY NewPkgType
  <2>2. /\ NewPkg(h, t, n, need_ack).hops = 0
        /\ NewPkg(h, t, n, need_ack).forword_cnt = 0
    BY DEF NewPkg
  <2> QED
    BY <2>1, <2>2, LimitAssumption DEF Counted
<1>2. ASSUME NEW h \in Host, NEW t \in Host, NEW n \in 1..MaxBatch,
             NEW need_ack \in BOOLEAN, SendMsgs(h, t, n, need_ack)
      PROVE  HopInv'
  <2> DEFINE batch == [i \in 1..n |-> NewPkg(h, t, i - 1, need_ack)]
  <2>1. \A i \in 1..n : NewPkg(h, t, i - 1, need_ack) \in Counted
    BY <1>n
  <2>2. batch \in Seq(Counted)
    BY <2>1
  <2>3. routes[h][t] \in Seq(Port)
    BY DEF TypeOK
  <2>4. wire' = Written(wire, routes[h][t], batch)
    BY <1>2 DEF SendMsgs
  <2> HIDE DEF batch
  <2> QED
    BY <1>w, <2>2, <2>3, <2>4 DEF HopInv
<1>3. ASSUME NEW h \in Host, NEW t \in Host, NEW p \in Port,
             NEW need_ack \in BOOLEAN, SendMsgByPort(h, p, t, need_ack)
      PROVE  HopInv'
  <2>1. <<NewPkg(h, t, 0, need_ack)>> \in Seq(Counted) /\ <<p>> \in Seq(Port)
    BY <1>n
  <2>2. wire' = Written(wire, <<p>>, <<NewPkg(h, t, 0, need_ack)>>)
    BY <1>3 DEF SendMsgByPort
  <2> QED
    BY <1>w, <2>1, <2>2 DEF HopInv
<1>t. ASSUME NEW p \in Port, wire[p] # <<>>
      PROVE  /\ Head(wire[p]) \in Counted
             /\ \A q \in Port : [wire EXCEPT ![p] = Tail(@)][q] \in Seq(Counted)
  BY <1>t DEF HopInv, TypeOK
<1>4. ASSUME NEW p \in Port, Receive(p)
      PROVE  HopInv'
  <2> DEFINE h == Owner[p]
             pkg == Head(wire[p])
             wires == [wire EXCEPT ![p] = Tail(@)]
  <2>1. h \in Host /\ pkg \in Pkg
    BY <1>4, ArrivingPkg DEF Receive
  <2>2. pkg \in Counted /\ \A q \in Port : wires[q] \in Seq(Counted)
    BY <1>4, <1>t DEF Receive
  <2>3. Dispatch(h, p, pkg, wires) \/ Forward(h, p, pkg, wires) \/ Drop(h, pkg, wires)
    BY <1>4 DEF Receive
  <2> HIDE DEF h, pkg, wires
  <2>4. CASE Dispatch(h, p, pkg, wires)
    <3>1. AckOf(h, pkg).hops = 0 /\ AckOf(h, pkg).forword_cnt = 0
      BY DEF AckOf
    <3>2. <<AckOf(h, pkg)>> \in Seq(Counted) /\ <<p>> \in Seq(Port)
      BY <2>1, <3>1, AckOfType, LimitAssumption DEF Counted
    <3> QED
      BY <1>w, <2>2, <2>4, <3>2 DEF Dispatch, HopInv
  <2>5. CASE Forward(h, p, pkg, wires)
    <3>1. pkg.hops = pkg.forword_cnt /\ pkg.forword_cnt \in 0..15 /\ pkg.forword_cnt < MaxForward
      BY <2>2, <2>5 DEF Forward, Counted, Pkg
    <3>2. /\ Forwarded(pkg).hops = pkg.hops + 1
          /\ Forwarded(pkg).forword_cnt = pkg.forword_cnt + 1
      BY <2>1, <3>1, ForwardedType, LimitAssumption
    <3>3. Forwarded(pkg) \in Counted
      BY <2>1, <3>1, <3>2, ForwardedType, LimitAssumption DEF Counted
    <3>4. pkg.target \in Host /\ Learned(h, p, pkg) \in [Host -> [Host -> Seq(Port)]]
      BY <2>1, LearnedFacts DEF Pkg
    <3>5. Learned(h, p, pkg)[h][pkg.target] \in Seq(Port)
      BY <2>1, <3>4
    <3>6. <<Forwarded(pkg)>> \in Seq(Counted)
      BY <3>3
    <3>7. wire' = Written(wires, Learned(h, p, pkg)[h][pkg.target], <<Forwarded(pkg)>>)
      BY <2>5 DEF Forward
    <3>8. \A q \in Port : wire'[q] \in Seq(Counted)
      BY <1>w, <2>2, <3>5, <3>6, <3>7
    <3> QED
      BY <3>8 DEF HopInv
  <2>6. CASE Drop(h, pkg, wires)
    BY <2>2, <2>6 DEF Drop, HopInv
  <2> QED
    BY <2>3, <2>4, <2>5, <2>6
<1>5. ASSUME NEW p \in Port, Lose(p)
      PROVE  HopInv'
  BY <1>5, <1>t DEF Lose, HopInv
<1>6. CASE UNCHANGED vars
  BY <1>6 DEF vars, HopInv
<1> QED
  BY <1>1, <1>2, <1>3, <1>4, <1>5, <1>6 DEF Next

(* No package is forwarded more than NANO_NET_MAX_ROUTE_FORWARD_CNT times, *)
(* in any network and with any routes, if that limit is at most 15; the    *)
(* run net_hops17 shows why the assumption is needed.                      *)
THEOREM NetHopLimit ==
  ASSUME MaxForward <= 15
  PROVE  Spec => []HopLimit
<1>1. Init => HopInv
  BY DEF Init, HopInv
<1>2. TypeOK /\ HopInv /\ [Next]_vars => HopInv'
  BY HopStep
<1>3. TypeOK /\ HopInv => HopLimit
  <2> SUFFICES ASSUME TypeOK, HopInv, NEW p \in Port, NEW k \in DOMAIN wire[p]
               PROVE  wire[p][k].hops <= MaxForward
    BY DEF HopLimit
  <2>1. wire[p] \in Seq(Counted)
    BY DEF HopInv
  <2>2. wire[p][k] \in Counted
    BY <2>1
  <2> QED
    BY <2>2 DEF Counted
<1> QED
  BY <1>1, <1>2, <1>3, NetTypes, PTL DEF Spec

-----------------------------------------------------------------------------
(***************************************************************************)
(* The way back.  Inductive strengthening: routes only name a host's own   *)
(* ports; a package on its way to a port was written by a host that is its *)
(* sender or can reach its sender; every route that was learned, used or   *)
(* not, leads to such a host.                                              *)
(***************************************************************************)
Own(h) == {p \in Port : Owner[p] = h}

RoutesOwned == \A h, t \in Host : routes[h][t] \in Seq(Own(h))

\* The packages a host that has the routes r may send towards port q.
TracedBy(r, q) ==
  {pkg \in Pkg : \E p \in Port :
     q \in Peers[p] /\ (Owner[p] = pkg.sender \/ r[Owner[p]][pkg.sender] # <<>>)}

WiresTraced == \A q \in Port : wire[q] \in Seq(TracedBy(routes, q))

Leads(r, h, s) ==
  \E q \in Peers[r[h][s][1]] : Owner[q] = s \/ r[Owner[q]][s] # <<>>

RoutesLead ==
  \A h, s \in Host :
    routes[h][s] # <<>> /\ (\A p \in Port : ~Configured(h, s, p)) => Leads(routes, h, s)

HeardRouted == \A h \in Host : \A s \in heard[h] : routes[h][s] # <<>>

PathInv == RoutesOwned /\ WiresTraced /\ RoutesLead /\ HeardRouted

SymmetricPeers == \A p, q \in Port : q \in Peers[p] => p \in Peers[q]

\* What h writes through its own ports is traced wherever it is heard.
LEMMA WrittenTraced ==
  ASSUME NEW r, NEW wires, NEW h \in Host, NEW ports \in Seq(Own(h)), NEW pkgs \in Seq(Pkg),
         \A q \in Port : wires[q] \in Seq(TracedBy(r, q)),
         \A j \in DOMAIN pkgs : h = pkgs[j].sender \/ r[h][pkgs[j].sender] # <<>>
  PROVE  \A q \in Port : Written(wires, ports, pkgs)[q] \in Seq(TracedBy(r, q))
<1> DEFINE Good == [q \in Port |-> TracedBy(r, q)]
<1>1. ports \in Seq(Port) /\ \A i \in DOMAIN ports : ports[i] \in Port /\ Owner[ports[i]] = h
  BY DEF Own
<1>2. ASSUME NEW q \in Port, NEW i \in DOMAIN ports, q \in Peers[ports[i]]
      PROVE  pkgs \in Seq(TracedBy(r, q))
  <2>1. ASSUME NEW j \in DOMAIN pkgs
        PROVE  pkgs[j] \in TracedBy(r, q)
    <3>1. pkgs[j] \in Pkg
      OBVIOUS
    <3>2. /\ ports[i] \in Port /\ q \in Peers[ports[i]]
          /\ Owner[ports[i]] = pkgs[j].sender \/ r[Owner[ports[i]]][pkgs[j].sender] # <<>>
      BY <1>1, <1>2
    <3> QED
      BY <3>1, <3>2 DEF TracedBy
  <2> QED
    BY <2>1
<1>3. \A q \in Port : wires[q] \in Seq(Good[q])
  OBVIOUS
<1>4. \A q \in Port : \A i \in DOMAIN ports : q \in Peers[ports[i]] => pkgs \in Seq(Good[q])
  BY <1>2
<1>5. \E n \in Nat : n = Len(pkgs)
  OBVIOUS
<1>6. \A q \in Port : Written(wires, ports, pkgs)[q] \in Seq(Good[q])
  BY <1>1, <1>3, <1>4, <1>5, WrittenGood
<1> QED
  BY <1>6

\* A host that has a route keeps one.
LEMMA RoutesGrow ==
  ASSUME TypeOK, [Next]_vars, NEW h \in Host, NEW t \in Host, routes[h][t] # <<>>
  PROVE  routes'[h][t] # <<>>
<1>1. ASSUME NEW g \in Host, NEW u \in Host, NEW p \in Port, AddRoute(g, u, p)
      PROVE  routes'[h][t] # <<>>
  <2>1. AddElement(routes[g][u], p) # <<>>
    BY DEF AddElement, TypeOK
  <2> QED
    BY <1>1, <2>1 DEF AddRoute, TypeOK
<1>2. ASSUME NEW p \in Port, Receive(p)
      PROVE  routes'[h][t] # <<>>
  <2> DEFINE g == Owner[p]
             pkg == Head(wire[p])
  <2>1. g \in Host /\ pkg \in Pkg /\ routes' = Learned(g, p, pkg)
    BY <1>2, ArrivingPkg DEF Receive
  <2> HIDE DEF g, pkg
  <2>2. \A k, u \in Host :
          routes'[k][u] = IF k = g /\ u = pkg.sender /\ routes[k][u] = <<>>
                          THEN <<p>> ELSE routes[k][u]
    BY <2>1, LearnedFacts
  <2>3. routes'[h][t] = routes[h][t]
    BY <2>2
  <2> QED
    BY <2>3
<1>3. CASE UNCHANGED routes
  BY <1>3
<1> QED
  BY <1>1, <1>2, <1>3 DEF Next, SendMsgs, SendMsgByPort, Lose, vars

LEMMA TracedGrows ==
  ASSUME TypeOK, [Next]_vars, NEW q \in Port
  PROVE  TracedBy(routes, q) \subseteq TracedBy(routes', q)
<1> SUFFICES ASSUME NEW pkg \in TracedBy(routes, q)
             PROVE  pkg \in TracedBy(routes', q)
  OBVIOUS
<1>1. PICK p \in Port : q \in Peers[p] /\
        (Owner[p] = pkg.sender \/ routes[Owner[p]][pkg.sender] # <<>>)
  BY DEF TracedBy
<1>2. pkg \in Pkg /\ pkg.sender \in Host /\ Owner[p] \in Host
  BY TopologyAssumption DEF TracedBy, Pkg
<1>3. Owner[p] = pkg.sender \/ routes'[Owner[p]][pkg.sender] # <<>>
  BY <1>1, <1>2, RoutesGrow
<1> QED
  BY <1>1, <1>2, <1>3 DEF TracedBy

\* An entry that a step leaves alone goes on leading to the same host.
LEMMA LeadsGrows ==
  ASSUME TypeOK, [Next]_vars, NEW h \in Host, NEW s \in Host,
         routes[h][s] # <<>>, routes'[h][s] = routes[h][s], Leads(routes, h, s)
  PROVE  Leads(routes', h, s)
<1>1. PICK q \in Peers[routes[h][s][1]] : Owner[q] = s \/ routes[Owner[q]][s] # <<>>
  BY DEF Leads
<1>2. routes[h][s][1] \in Port
  BY DEF TypeOK
<1>3. q \in Port /\ Owner[q] \in Host
  BY <1>1, <1>2, TopologyAssumption
<1>4. Owner[q] = s \/ routes'[Owner[q]][s] # <<>>
  BY <1>1, <1>3, RoutesGrow
<1> QED
  BY <1>1, <1>4 DEF Leads

LEMMA PathInit == Init => PathInv
<1> SUFFICES ASSUME Init
             PROVE  PathInv
  OBVIOUS
<1>1. ASSUME NEW h \in Host, NEW t \in Host
      PROVE  routes[h][t] \in Seq(Own(h))
  <2>1. CASE \E p \in Port : <<h, t, p>> \in InitRoutes
    <3> DEFINE first == CHOOSE p \in Port : <<h, t, p>> \in InitRoutes
    <3>1. first \in Port /\ <<h, t, first>> \in InitRoutes
      BY <2>1
    <3>2. first \in Own(h)
      BY <3>1, RouteAssumption DEF OwnRoutes, Own
    <3>3. routes[h][t] = <<first>>
      BY <2>1 DEF Init, RoutesOf
    <3> QED
      BY <3>2, <3>3
  <2>2. CASE ~ \E p \in Port : <<h, t, p>> \in InitRoutes
    BY <2>2 DEF Init, RoutesOf
  <2> QED
    BY <2>1, <2>2
<1>2. RoutesLead
  BY DEF Init, RoutesOf, RoutesLead, Configured
<1> QED
  BY <1>1, <1>2 DEF Init, PathInv, RoutesOwned, WiresTraced, HeardRouted

LEMMA OwnedStep ==
  ASSUME TypeOK, RoutesOwned, [Next]_vars
  PROVE  RoutesOwned'
<1> SUFFICES ASSUME NEW g \in Host, NEW u \in Host
             PROVE  routes'[g][u] \in Seq(Own(g))
  BY DEF RoutesOwned, Own
<1>1. ASSUME NEW h \in Host, NEW t \in Host, NEW p \in Port, AddRoute(h, t, p)
      PROVE  routes'[g][u] \in Seq(Own(g))
  <2>1. p \in Own(h)
    BY <1>1, RouteAssumption DEF AddRoute, TypeOK, OwnRoutes, Own
  <2>2. AddElement(routes[h][t], p) \in Seq(Own(h))
    BY <2>1 DEF AddElement, RoutesOwned
  <2>3. routes'[g][u] = IF g = h /\ u = t THEN AddElement(routes[h][t], p) ELSE routes[g][u]
    BY <1>1 DEF AddRoute, TypeOK
  <2> QED
    BY <2>2, <2>3 DEF RoutesOwned
<1>2. ASSUME NEW p \in Port, Receive(p)
      PROVE  routes'[g][u] \in Seq(Own(g))
  <2> DEFINE h == Owner[p]
             pkg == Head(wire[p])
  <2>1. h \in Host /\ pkg \in Pkg /\ routes' = Learned(h, p, pkg) /\ p \in Own(h)
    BY <1>2, ArrivingPkg DEF Receive, Own
  <2> HIDE DEF h, pkg
  <2>2. routes'[g][u] =
          IF g = h /\ u = pkg.sender /\ routes[g][u] = <<>> THEN <<p>> ELSE routes[g][u]
    BY <2>1, LearnedFacts
  <2> QED
    BY <2>1, <2>2 DEF RoutesOwned
<1>3. CASE UNCHANGED routes
  BY <1>3 DEF RoutesOwned
<1> QED
  BY <1>1, <1>2, <1>3 DEF Next, SendMsgs, SendMsgByPort, Lose, vars

LEMMA TracedStep ==
  ASSUME TypeOK, PathInv, [Next]_vars
  PROVE  WiresTraced'
<1>o. RoutesOwned /\ RoutesOwned'
  BY OwnedStep DEF PathInv
<1>g. \A q \in Port : wire[q] \in Seq(TracedBy(routes', q))
  <2> SUFFICES ASSUME NEW q \in Port
               PROVE  wire[q] \in Seq(TracedBy(routes', q))
    OBVIOUS
  <2>1. wire[q] \in Seq(TracedBy(routes, q))
    BY DEF PathInv, WiresTraced
  <2>2. TracedBy(routes, q) \subseteq TracedBy(routes', q)
    BY TracedGrows
  <2> QED
    BY <2>1, <2>2
<1>t. ASSUME NEW p \in Port, wire[p] # <<>>
      PROVE  \A q \in Port : [wire EXCEPT ![p] = Tail(@)][q] \in Seq(TracedBy(routes', q))
  BY <1>g, <1>t DEF TypeOK
<1>1. ASSUME NEW h \in Host, NEW t \in Host, NEW p \in Port, AddRoute(h, t, p)
      PROVE  WiresTraced'
  BY <1>1, <1>g DEF AddRoute, WiresTraced
<1>2. ASSUME NEW h \in Host, NEW t \in Host, NEW n \in 1..MaxBatch,
             NEW need_ack \in BOOLEAN, SendMsgs(h, t, n, need_ack)
      PROVE  WiresTraced'
  <2> DEFINE batch == [i \in 1..n |-> NewPkg(h, t, i - 1, need_ack)]
  <2>1. batch \in Seq(Pkg)
    BY BatchType
  <2>2. \A j \in DOMAIN batch : batch[j].sender = h
    BY DEF NewPkg
  <2>3. routes[h][t] \in Seq(Own(h))
    BY <1>o DEF RoutesOwned
  <2>4. wire' = Written(wire, routes[h][t], batch)
    BY <1>2 DEF SendMsgs
  <2> HIDE DEF batch
  <2>5. \A q \in Port : Written(wire, routes[h][t], batch)[q] \in Seq(TracedBy(routes', q))
    BY <1>g, <2>1, <2>2, <2>3, WrittenTraced
  <2> QED
    BY <2>4, <2>5 DEF WiresTraced
<1>3. ASSUME NEW h \in Host, NEW t \in Host, NEW p \in Port,
             NEW need_ack \in BOOLEAN, SendMsgByPort(h, p, t, need_ack)
      PROVE  WiresTraced'
  <2> DEFINE msg == <<NewPkg(h, t, 0, need_ack)>>
  <2>1. msg \in Seq(Pkg)
    BY NewPkgType
  <2>2. \A j \in DOMAIN msg : msg[j].sender = h
    BY DEF NewPkg
  <2>3. <<p>> \in Seq(Own(h))
    BY <1>3, RouteAssumption DEF SendMsgByPort, OwnRoutes, Own
  <2>4. wire' = Written(wire, <<p>>, msg)
    BY <1>3 DEF SendMsgByPort
  <2> HIDE DEF msg
  <2>5. \A q \in Port : Written(wire, <<p>>, msg)[q] \in Seq(TracedBy(routes', q))
    BY <1>g, <2>1, <2>2, <2>3, WrittenTraced
  <2> QED
    BY <2>4, <2>5 DEF WiresTraced
<1>4. ASSUME NEW p \in Port, Receive(p)
      PROVE  WiresTraced'
  <2> DEFINE h == Owner[p]
             pkg == Head(wire[p])
             wires == [wire EXCEPT ![p] = Tail(@)]
  <2>1. /\ h \in Host /\ pkg \in Pkg /\ p \in Own(h)
        /\ routes' = Learned(h, p, pkg)
        /\ \A q \in Port : wires[q] \in Seq(TracedBy(routes', q))
        /\ Dispatch(h, p, pkg, wires) \/ Forward(h, p, pkg, wires) \/ Drop(h, pkg, wires)
    BY <1>4, <1>t, ArrivingPkg DEF Receive, Own
  <2>2. pkg.sender \in Host /\ pkg.target \in Host
    BY <2>1 DEF Pkg
  <2> HIDE DEF h, pkg, wires
  <2>3. CASE Dispatch(h, p, pkg, wires)
    <3>1. /\ <<AckOf(h, pkg)>> \in Seq(Pkg)
          /\ \A j \in DOMAIN <<AckOf(h, pkg)>> : <<AckOf(h, pkg)>>[j].sender = h
          /\ <<p>> \in Seq(Own(h))
      BY <2>1, AckOfType DEF AckOf
    <3>2. \A q \in Port : Written(wires, <<p>>, <<AckOf(h, pkg)>>)[q] \in Seq(TracedBy(routes', q))
      BY <2>1, <3>1, WrittenTraced
    <3> QED
      BY <2>1, <2>3, <3>2 DEF Dispatch, WiresTraced
  <2>4. CASE Forward(h, p, pkg, wires)
    <3> DEFINE ports == routes'[h][pkg.target]
    <3>1. ports \in Seq(Own(h))
      BY <1>o, <2>1, <2>2 DEF RoutesOwned, Own
    <3>2. routes'[h][pkg.sender] # <<>>
      <4>1. \A g, u \in Host :
              routes'[g][u] = IF g = h /\ u = pkg.sender /\ routes[g][u] = <<>>
                              THEN <<p>> ELSE routes[g][u]
        BY <2>1, LearnedFacts
      <4> QED
        BY <2>1, <2>2, <4>1
    <3>3. /\ <<Forwarded(pkg)>> \in Seq(Pkg)
          /\ \A j \in DOMAIN <<Forwarded(pkg)>> : <<Forwarded(pkg)>>[j].sender = pkg.sender
      BY <2>1, ForwardedType
    <3>4. wire' = Written(wires, ports, <<Forwarded(pkg)>>)
      BY <2>1, <2>4 DEF Forward
    <3> HIDE DEF ports
    <3>5. \A q \in Port : Written(wires, ports, <<Forwarded(pkg)>>)[q] \in Seq(TracedBy(routes', q))
      BY <2>1, <3>1, <3>2, <3>3, WrittenTraced
    <3> QED
      BY <3>4, <3>5 DEF WiresTraced
  <2>5. CASE Drop(h, pkg, wires)
    BY <2>1, <2>5 DEF Drop, WiresTraced
  <2> QED
    BY <2>1, <2>3, <2>4, <2>5
<1>5. ASSUME NEW p \in Port, Lose(p)
      PROVE  WiresTraced'
  BY <1>5, <1>t DEF Lose, WiresTraced
<1>6. CASE UNCHANGED vars
  BY <1>6, <1>g DEF vars, WiresTraced
<1> QED
  BY <1>1, <1>2, <1>3, <1>4, <1>5, <1>6 DEF Next

LEMMA LeadStep ==
  ASSUME SymmetricPeers, TypeOK, PathInv, [Next]_vars
  PROVE  RoutesLead'
<1> SUFFICES ASSUME NEW g \in Host, NEW u \in Host, routes'[g][u] # <<>>,
                    \A p \in Port : ~Configured(g, u, p)
             PROVE  Leads(routes', g, u)
  BY DEF RoutesLead, Leads, Configured
<1>s. ASSUME routes'[g][u] = routes[g][u]
      PROVE  Leads(routes', g, u)
  <2>1. routes[g][u] # <<>> /\ Leads(routes, g, u)
    BY <1>s DEF PathInv, RoutesLead
  <2> QED
    BY <1>s, <2>1, LeadsGrows
<1>1. ASSUME NEW h \in Host, NEW t \in Host, NEW p \in Port, AddRoute(h, t, p)
      PROVE  Leads(routes', g, u)
  <2>1. Configured(h, t, p)
    BY <1>1 DEF AddRoute, TypeOK, Configured
  <2>2. ~(g = h /\ u = t)
    BY <2>1
  <2>3. routes'[g][u] = routes[g][u]
    BY <1>1, <2>2 DEF AddRoute, TypeOK
  <2> QED
    BY <1>s, <2>3
<1>2. ASSUME NEW p \in Port, Receive(p)
      PROVE  Leads(routes', g, u)
  <2> DEFINE h == Owner[p]
             pkg == Head(wire[p])
  <2>1. h \in Host /\ pkg \in Pkg /\ routes' = Learned(h, p, pkg)
    BY <1>2, ArrivingPkg DEF Receive
  <2>2. pkg \in TracedBy(routes, p)
    <3>1. wire[p] \in Seq(TracedBy(routes, p)) /\ wire[p] # <<>>
      BY <1>2 DEF PathInv, WiresTraced, Receive
    <3> QED
      BY <3>1
  <2> HIDE DEF h, pkg
  <2>3. routes'[g][u] =
          IF g = h /\ u = pkg.sender /\ routes[g][u] = <<>> THEN <<p>> ELSE routes[g][u]
    BY <2>1, LearnedFacts
  <2>4. CASE g = h /\ u = pkg.sender /\ routes[g][u] = <<>>
    <3>1. routes'[g][u] = <<p>>
      BY <2>3, <2>4
    <3>2. PICK q \in Port : p \in Peers[q] /\ (Owner[q] = u \/ routes[Owner[q]][u] # <<>>)
      BY <2>2, <2>4 DEF TracedBy
    <3>3. q \in Peers[p]
      BY <3>2 DEF SymmetricPeers
    <3>4. Owner[q] = u \/ routes'[Owner[q]][u] # <<>>
      BY <3>2, RoutesGrow, TopologyAssumption
    <3> QED
      BY <3>1, <3>3, <3>4 DEF Leads
  <2>5. CASE ~(g = h /\ u = pkg.sender /\ routes[g][u] = <<>>)
    <3>1. routes'[g][u] = routes[g][u]
      BY <2>3, <2>5
    <3> QED
      BY <1>s, <3>1
  <2> QED
    BY <2>4, <2>5
<1>3. CASE UNCHANGED routes
  BY <1>s, <1>3
<1> QED
  BY <1>1, <1>2, <1>3 DEF Next, SendMsgs, SendMsgByPort, Lose, vars

LEMMA HeardStep ==
  ASSUME TypeOK, PathInv, [Next]_vars
  PROVE  HeardRouted'
<1> SUFFICES ASSUME NEW g \in Host, NEW u \in heard'[g]
             PROVE  routes'[g][u] # <<>>
  BY DEF HeardRouted
<1>s. ASSUME u \in heard[g]
      PROVE  routes'[g][u] # <<>>
  <2>1. u \in Host /\ routes[g][u] # <<>>
    BY <1>s DEF PathInv, HeardRouted, TypeOK
  <2> QED
    BY <2>1, RoutesGrow
<1>1. ASSUME NEW p \in Port, Receive(p)
      PROVE  routes'[g][u] # <<>>
  <2> DEFINE h == Owner[p]
             pkg == Head(wire[p])
  <2>1. /\ h \in Host /\ pkg \in Pkg /\ routes' = Learned(h, p, pkg)
        /\ heard' = [heard EXCEPT ![h] = @ \cup {pkg.sender}]
    BY <1>1, ArrivingPkg DEF Receive
  <2>2. pkg.sender \in Host
    BY <2>1 DEF Pkg
  <2> HIDE DEF h, pkg
  <2>3. CASE g = h /\ u = pkg.sender
    <3>1. routes'[g][u] = IF routes[g][u] = <<>> THEN <<p>> ELSE routes[g][u]
      BY <2>1, <2>2, <2>3, LearnedFacts
    <3> QED
      BY <3>1
  <2>4. CASE ~(g = h /\ u = pkg.sender)
    <3>1. u \in heard[g]
      BY <2>1, <2>4 DEF TypeOK
    <3> QED
      BY <1>s, <3>1
  <2> QED
    BY <2>3, <2>4
<1>2. CASE UNCHANGED heard
  BY <1>s, <1>2
<1> QED
  BY <1>1, <1>2 DEF Next, AddRoute, SendMsgs, SendMsgByPort, Lose, vars

(* Whoever a host has heard, it has a way to answer, in every network whose *)
(* lines carry both ways: each host on the learned way back is the one     *)
(* looked for or knows how to go on.                                       *)
THEOREM NetAnswerPath ==
  ASSUME SymmetricPeers
  PROVE  Spec => []AnswerPath
<1>1. TypeOK /\ PathInv /\ [Next]_vars => PathInv'
  BY OwnedStep, TracedStep, LeadStep, HeardStep DEF PathInv
<1>2. TypeOK /\ PathInv => AnswerPath
  BY DEF TypeOK, PathInv, HeardRouted, RoutesLead, Leads, AnswerPath, Knows
<1> QED
  BY PathInit, <1>1, <1>2, NetTypes, PTL DEF Spec
=============================================================================
