-------------------------------- MODULE Net --------------------------------
(***************************************************************************)
(* A network of nano_net hosts (nano_net.c): sending, the callback that    *)
(* learns routes, dispatches and forwards, acknowledgements, and the wires *)
(* between the ports.                                                      *)
(*                                                                         *)
(* A port's packager and line are one queue here: wire[p] holds the        *)
(* packages on their way to port p, and a package that is damaged or timed *)
(* out on the way (see UnpackStream) is lost.  Every allocation succeeds,  *)
(* every pack buffer is large enough.  A message is told apart by its      *)
(* sender and its seq; msg_id, data and clocks are left out, except that   *)
(* heard[h] is the set of hosts whose last_recv_time at h has been set.    *)
(***************************************************************************)
EXTENDS Integers, Sequences, FiniteSets

CONSTANTS
  Host,          \* host ids
  Port,          \* all ports of all hosts
  Owner,         \* Owner[p]: the host p was added to by nano_net_add_port
  Peers,         \* Peers[p]: the ports that receive what p writes
  MaxForward,    \* NANO_NET_MAX_ROUTE_FORWARD_CNT
  SeqMod,        \* 256 in the code: host->seq is a uint8_t
  InitRoutes,    \* <<h, t, p>>: routes added before any traffic
  LateRoutes,    \* <<h, t, p>>: routes the application adds later on
  MayTalk,       \* <<h, t>>: h's application sends messages to t
  ByPort,        \* <<h, t, p>>: h's application sends to t by its port p
  MaxBatch,      \* bound on the messages of one nano_net_send_msgs call
  MaxSends,      \* bound on the messages sent
  LossyPorts     \* ports whose line loses packages

ASSUME TopologyAssumption ==
  /\ IsFiniteSet(Port)
  /\ Owner \in [Port -> Host]
  /\ Peers \in [Port -> SUBSET Port]
ASSUME LimitAssumption ==
  /\ MaxForward \in Nat
  /\ SeqMod \in Nat \ {0}
  /\ MaxBatch \in Nat /\ MaxSends \in Nat
\* <<h, t, p>>: host h, the target t, a port p of h.
OwnRoutes == {r \in Host \X Host \X Port : Owner[r[3]] = r[1]}

ASSUME RouteAssumption ==
  /\ InitRoutes \subseteq OwnRoutes
  /\ LateRoutes \subseteq OwnRoutes
  /\ MayTalk \subseteq Host \X Host
  /\ ByPort \subseteq OwnRoutes

VARIABLES
  routes,    \* routes[h][t]: the routable_port_list of t at h, <<>> when t is
             \* not in the routable_host_list
  seq,       \* host->seq
  heard,     \* see above
  wire,      \* wire[p]: packages on their way to port p
  handled,   \* handled[h][s]: packages from s given to a handler of h, in order
  late,      \* LateRoutes still to be added
  sent       \* messages sent so far

vars == <<routes, seq, heard, wire, handled, late, sent>>

-----------------------------------------------------------------------------
\* msg_package_t.  hops, which the code does not have, counts the forwards.
Pkg == [sender : Host, target : Host, seq : 0..(SeqMod - 1), need_ack : BOOLEAN,
        is_ack : BOOLEAN, forword_cnt : 0..15, hops : Nat]

\* nano_net_list_add_element puts a new element in front.
AddElement(list, element) == <<element>> \o list

\* pkgs as often as q hears one of the ports.
Heard(q, ports, pkgs) ==
  LET copies == Cardinality({i \in DOMAIN ports : q \in Peers[ports[i]]})
  IN  [k \in 1..(copies * Len(pkgs)) |-> pkgs[1 + ((k - 1) % Len(pkgs))]]

\* The wires after each of the ports, in order, has written the packages
\* (nano_net_port_send_msg_packages).
Written(wires, ports, pkgs) ==
  [q \in Port |-> wires[q] \o Heard(q, ports, pkgs)]

\* The package of a message sent by h; n counts the messages of a batch.
NewPkg(h, t, n, need_ack) ==
  [sender |-> h, target |-> t, seq |-> (seq[h] + n) % SeqMod, need_ack |-> need_ack,
   is_ack |-> FALSE, forword_cnt |-> 0, hops |-> 0]

-----------------------------------------------------------------------------
RoutesOf(config) ==
  [h \in Host |-> [t \in Host |->
     IF \E p \in Port : <<h, t, p>> \in config
     THEN <<CHOOSE p \in Port : <<h, t, p>> \in config>> ELSE <<>>]]

Init ==
  /\ routes = RoutesOf(InitRoutes)
  /\ seq = [h \in Host |-> 0]
  /\ heard = [h \in Host |-> {}]
  /\ wire = [p \in Port |-> <<>>]
  /\ handled = [h \in Host |-> [s \in Host |-> <<>>]]
  /\ late = LateRoutes
  /\ sent = 0

\* nano_net_add_route: the port joins the list of the target even when it is
\* there already.
AddRoute(h, t, p) ==
  /\ <<h, t, p>> \in late
  /\ late' = late \ {<<h, t, p>>}
  /\ routes' = [routes EXCEPT ![h][t] = AddElement(@, p)]
  /\ UNCHANGED <<seq, heard, wire, handled, sent>>

\* Mutant: seq is wider than a byte.
SendMsgs_NoWrap(h, t, n, need_ack) ==
  /\ <<h, t>> \in MayTalk
  /\ n <= MaxBatch /\ sent + n <= MaxSends
  /\ sent' = sent + n
  /\ seq' = [seq EXCEPT ![h] = @ + n]
  /\ wire' = Written(wire, routes[h][t],
                     [i \in 1..n |-> NewPkg(h, t, i - 1, need_ack)])
  /\ UNCHANGED <<routes, heard, handled, late>>

\* nano_net_send_msgs, and nano_net_send_msg when n = 1: the messages take
\* their seq whether or not there is a route.
SendMsgs(h, t, n, need_ack) ==
  /\ <<h, t>> \in MayTalk
  /\ n <= MaxBatch /\ sent + n <= MaxSends
  /\ sent' = sent + n
  /\ seq' = [seq EXCEPT ![h] = (@ + n) % SeqMod]
  /\ wire' = Written(wire, routes[h][t],
                     [i \in 1..n |-> NewPkg(h, t, i - 1, need_ack)])
  /\ UNCHANGED <<routes, heard, handled, late>>

\* nano_net_send_msg_by_port: past the routes.
SendMsgByPort(h, p, t, need_ack) ==
  /\ <<h, t, p>> \in ByPort
  /\ sent < MaxSends
  /\ sent' = sent + 1
  /\ seq' = [seq EXCEPT ![h] = (@ + 1) % SeqMod]
  /\ wire' = Written(wire, <<p>>, <<NewPkg(h, t, 0, need_ack)>>)
  /\ UNCHANGED <<routes, heard, handled, late>>

-----------------------------------------------------------------------------
(* nano_net_port_unpack_callback, for the next package arriving at port p. *)

\* Mutant: only a package addressed to this host teaches a route.
Learned_AtTargetOnly(h, p, pkg) ==
  IF routes[h][pkg.sender] = <<>> /\ pkg.target = h
  THEN [routes EXCEPT ![h][pkg.sender] = AddElement(@, p)]
  ELSE routes

\* Mutant: the route to the sender is learned even when there is one.
Learned_Always(h, p, pkg) ==
  [routes EXCEPT ![h][pkg.sender] = AddElement(@, p)]

\* The routes once the one to the sender is known.
Learned(h, p, pkg) ==
  IF routes[h][pkg.sender] = <<>>
  THEN [routes EXCEPT ![h][pkg.sender] = AddElement(@, p)]
  ELSE routes

\* Mutant: the answer takes a seq of its own, as a message would.
AckOf_NextSeq(h, pkg) ==
  [sender |-> h, target |-> pkg.sender, seq |-> seq[h], need_ack |-> FALSE,
   is_ack |-> TRUE, forword_cnt |-> 0, hops |-> 0]

\* Mutant: the answer is made of the message, its forward count included.
AckOf_KeepsCount(h, pkg) ==
  [pkg EXCEPT !.sender = h, !.target = pkg.sender, !.need_ack = FALSE, !.is_ack = TRUE]

\* The application's handler answers a message that wants an ack through the
\* port it came from, with its seq (nano_net_send_ack).
AckOf(h, pkg) ==
  [sender |-> h, target |-> pkg.sender, seq |-> pkg.seq, need_ack |-> FALSE,
   is_ack |-> TRUE, forword_cnt |-> 0, hops |-> 0]

Dispatch(h, p, pkg, wires) ==
  /\ pkg.target = h
  /\ handled' = [handled EXCEPT ![h][pkg.sender] = Append(@, pkg)]
  /\ wire' = IF pkg.need_ack
             THEN Written(wires, <<p>>, <<AckOf(h, pkg)>>)
             ELSE wires

\* Mutant: the package is sent on as it came, uncounted.
Forwarded_AsItCame(pkg) == pkg

\* The counter has four bits in the header and stops at 15.
Forwarded(pkg) ==
  [pkg EXCEPT !.forword_cnt = IF @ < 15 THEN @ + 1 ELSE @, !.hops = @ + 1]

\* Mutant: one forward too many.
Forward_UpToMax(h, p, pkg, wires) ==
  /\ pkg.target # h
  /\ pkg.forword_cnt <= MaxForward
  /\ wire' = Written(wires, Learned(h, p, pkg)[h][pkg.target], <<Forwarded(pkg)>>)
  /\ UNCHANGED handled

Forward(h, p, pkg, wires) ==
  /\ pkg.target # h
  /\ pkg.forword_cnt < MaxForward
  /\ wire' = Written(wires, Learned(h, p, pkg)[h][pkg.target], <<Forwarded(pkg)>>)
  /\ UNCHANGED handled

Drop(h, pkg, wires) ==
  /\ pkg.target # h
  /\ pkg.forword_cnt >= MaxForward
  /\ wire' = wires
  /\ UNCHANGED handled

Receive(p) ==
  /\ wire[p] # <<>>
  /\ LET h == Owner[p]
         pkg == Head(wire[p])
         wires == [wire EXCEPT ![p] = Tail(@)]
     IN  /\ routes' = Learned(h, p, pkg)
         /\ heard' = [heard EXCEPT ![h] = @ \cup {pkg.sender}]
         /\ \/ Dispatch(h, p, pkg, wires)
            \/ Forward(h, p, pkg, wires)
            \/ Drop(h, pkg, wires)
  /\ UNCHANGED <<seq, late, sent>>

\* The line or the receiving packager loses a package.
Lose(p) ==
  /\ p \in LossyPorts
  /\ wire[p] # <<>>
  /\ wire' = [wire EXCEPT ![p] = Tail(@)]
  /\ UNCHANGED <<routes, seq, heard, handled, late, sent>>

Next ==
  \/ \E h, t \in Host, p \in Port : AddRoute(h, t, p)
  \/ \E h, t \in Host, n \in 1..MaxBatch, need_ack \in BOOLEAN : SendMsgs(h, t, n, need_ack)
  \/ \E h, t \in Host, p \in Port, need_ack \in BOOLEAN : SendMsgByPort(h, p, t, need_ack)
  \/ \E p \in Port : Receive(p)
  \/ \E p \in Port : Lose(p)

Spec == Init /\ [][Next]_vars

\* Every host calls nano_net_run again and again, and a run reads each of
\* its ports.
FairSpec == Spec /\ \A p \in Port : WF_vars(Receive(p))

-----------------------------------------------------------------------------
TypeOK ==
  /\ routes \in [Host -> [Host -> Seq(Port)]]
  /\ seq \in [Host -> 0..(SeqMod - 1)]
  /\ heard \in [Host -> SUBSET Host]
  /\ wire \in [Port -> Seq(Pkg)]
  /\ handled \in [Host -> [Host -> Seq(Pkg)]]
  /\ late \subseteq LateRoutes
  /\ sent \in 0..MaxSends

(* No package is forwarded more often than NANO_NET_MAX_ROUTE_FORWARD_CNT  *)
(* allows, through however many hosts and however wrong their routes: the  *)
(* count the package itself carries is its real number of forwards.        *)
HopLimit ==
  \A p \in Port : \A k \in DOMAIN wire[p] : wire[p][k].hops <= MaxForward

\* h is s, or has a route to it.
Knows(h, s) == h = s \/ routes[h][s] # <<>>

\* The application has, or is going to, put p on h's way to s.
Configured(h, s, p) == <<h, s, p>> \in InitRoutes \cup LateRoutes

(* Whoever has been heard can be answered: the route back from h to s that *)
(* was learned leads to s itself or to a host that has a route to s too.   *)
(* A route the application configured is its own responsibility.           *)
AnswerPath ==
  \A h, s \in Host :
    s \in heard[h] /\ (\A p \in Port : ~Configured(h, s, p)) =>
      /\ routes[h][s] # <<>>
      /\ \E q \in Peers[routes[h][s][1]] : Knows(Owner[q], s)

\* A handler of h has been given the package s sent with number n.
HasTaken(h, s, n, is_ack) ==
  \E i \in DOMAIN handled[h][s] :
    /\ handled[h][s][i].seq = n
    /\ IF is_ack THEN handled[h][s][i].is_ack ELSE handled[h][s][i].need_ack

(* Without loss, every message that was handled and wants an answer is     *)
(* answered in the end, hop by hop along learned routes.  (What a handler  *)
(* was given stays given, so this says the same as ~> for each message.)   *)
RequestAnswered ==
  <>[](\A h, s \in Host, n \in 0..(SeqMod - 1) :
         HasTaken(h, s, n, FALSE) => HasTaken(s, h, n, TRUE))

(* Whatever the routes, loops included, traffic dies out: when the         *)
(* applications stop sending, the hosts do not keep each other busy.       *)
EventuallyQuiet == <>[](\A p \in Port : wire[p] = <<>>)
=============================================================================
