------------------------------ MODULE NetPath ------------------------------
(***************************************************************************)
(* Net where one path joins any two hosts: lines between two ports each, a *)
(* tree of hosts, all routes configured before any traffic, and no more    *)
(* messages than seq can tell apart.  Duplicates and overtaking have no    *)
(* other cause here than the code, so this is where order is promised.     *)
(***************************************************************************)
EXTENDS Net

CONSTANTS
  Behind,    \* Behind[p]: the hosts that are reached through port p
  Distance   \* Distance[h][t]: the lines on the path from h to t

ASSUME PathAssumption ==
  /\ Behind \in [Port -> SUBSET Host]
  \* A line joins two ports, and every host is behind one of them.
  /\ \A p \in Port : \A q \in Peers[p] : Peers[q] = {p} /\ Behind[q] = Host \ Behind[p]
  /\ \A p \in Port : Owner[p] \notin Behind[p]
  \* Two ports that look away from each other see different hosts; a port
  \* that looks away from another one and is seen by it sees fewer.
  /\ \A p, q \in Port :
       p # q /\ Owner[q] \notin Behind[p] /\ Owner[p] \notin Behind[q]
         => Behind[p] \cap Behind[q] = {}
  /\ \A p, q \in Port :
       Owner[q] \in Behind[p] /\ Owner[p] \notin Behind[q] => Behind[q] \subseteq Behind[p]
  \* The routes of the application lead to their targets.
  /\ \A r \in InitRoutes \cup ByPort : r[2] \in Behind[r[3]]
  /\ LateRoutes = {}

ASSUME TrafficAssumption == MaxSends < SeqMod /\ MaxBatch >= 1

(* For answers: routes lead all the way, and the forward count can grow to *)
(* the limit.                                                              *)
ASSUME AnswerAssumption ==
  /\ Distance \in [Host -> [Host -> Nat]]
  /\ \A h, t \in Host : Distance[h][t] = 0 <=> h = t
  /\ \A p \in Port : \A q \in Peers[p] : \A t \in Behind[p] :
       Distance[Owner[p]][t] = Distance[Owner[q]][t] + 1
  /\ \A r \in InitRoutes : \E q \in Peers[r[3]] :
       r[2] = Owner[q] \/ \E p \in Port : <<Owner[q], r[2], p>> \in InitRoutes
  /\ MaxForward <= 15

-----------------------------------------------------------------------------
(* The handlers of a host see what another one sent in the order it was    *)
(* sent and nothing twice, with other traffic, losses and forwarding in    *)
(* between.  So too for answers.                                           *)
InOrderOnce ==
  \A h, s \in Host : \A i, j \in DOMAIN handled[h][s] :
    i < j /\ handled[h][s][i].is_ack = handled[h][s][j].is_ack
      => handled[h][s][i].seq < handled[h][s][j].seq

(* On the way back an answer always finds a route and a forward count to   *)
(* spare at the next host: a message that arrived can be answered.         *)
AckNeverStranded ==
  \A p \in Port : \A k \in DOMAIN wire[p] :
    LET pkg == wire[p][k]
    IN  pkg.is_ack /\ pkg.target # Owner[p] =>
          routes[Owner[p]][pkg.target] # <<>> /\ pkg.forword_cnt < MaxForward

\* A package without the forwards it went through.
Bare(pkg) ==
  [sender |-> pkg.sender, target |-> pkg.target, seq |-> pkg.seq,
   need_ack |-> pkg.need_ack, is_ack |-> pkg.is_ack]

OnWires == UNION {{Bare(wire[p][k]) : k \in DOMAIN wire[p]} : p \in Port}

EndToEnd == INSTANCE Messaging WITH
  MayTalk <- MayTalk \cup {<<r[1], r[2]>> : r \in ByPort},
  inflight <- OnWires,
  taken <- [h \in Host |-> [s \in Host |->
             [k \in DOMAIN handled[h][s] |-> Bare(handled[h][s][k])]]]

(* The network is a lossy FIFO channel between the applications of any two *)
(* hosts: routes, wires, the hosts in between and the learning of routes   *)
(* cannot be told from it.                                                 *)
ImplementsMessaging == EndToEnd!Spec
=============================================================================
