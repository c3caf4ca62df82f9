----------------------------- MODULE HostTables -----------------------------
(***************************************************************************)
(* One host's tables (nano_net.c): its ports, routable hosts and message   *)
(* handlers, built by the application and by what arrives, out of a pool   *)
(* that may refuse any of the blocks a call asks for; and what sending,    *)
(* receiving and forwarding do with tables that were left half built.      *)
(*                                                                         *)
(* A port's handle is told apart by its descriptor; seq, clocks and the    *)
(* wires are left to Net.  A list is a sequence, its head first.           *)
(***************************************************************************)
EXTENDS Integers, Sequences, FiniteSets

CONSTANTS
  HostId,         \* host ids in use
  Self,           \* this host's
  Port,           \* the ports the application may add
  Desc,           \* Desc[p]: the descriptor of p, a PortDesc
  MsgId, Handler, \* message ids and handler functions
  NoHandler,      \* NULL
  PkgSize,        \* sizes of packages on the line
  MultiHandler,   \* NANO_NET_MULTI_MSG_HANDLER_ENABLE
  MaxForward,     \* NANO_NET_MAX_ROUTE_FORWARD_CNT
  MaxPorts        \* bound on the ports of a route and the handlers

\* nano_net_port_desc_t: attr, and whether the application gives the buffers.
PortDesc == [readable : BOOLEAN, writeable : BOOLEAN, pack_buf : BOOLEAN,
             unpack_buf : BOOLEAN, pack_buf_size : Nat, unpack_buf_size : Nat]

ASSUME HostAssumption ==
  /\ Self \in HostId
  /\ Desc \in [Port -> PortDesc]
  /\ NoHandler \notin Handler
  /\ PkgSize \subseteq Nat \ {0}
  /\ MultiHandler \in BOOLEAN
  /\ MaxForward \in Nat /\ MaxPorts \in Nat

VARIABLES
  phase,     \* the pool's (see Pool)
  created,   \* nano_net_create has returned a host
  ports,     \* port_handle_list
  routes,    \* routes[t]: the element of routable_host_list for t, if listed;
             \* heard: its last_recv_time has been set
  handlers,  \* msg_handler_list
  default,   \* default_msg_handler
  outcome,   \* history: what the last call returned and did
  granted,   \* history: granted[t]: the ports add_route returned 0 for
  known      \* history: the hosts a package has been received from

tables == <<created, ports, routes, handlers>>
vars == <<phase, tables, default, outcome, granted, known>>

Memory == INSTANCE Pool

-----------------------------------------------------------------------------
NoRoute == [listed |-> FALSE, ports |-> <<>>, heard |-> FALSE]

\* nano_net_list_add_element puts a new element in front.
AddElement(list, element) == <<element>> \o list

\* What a call did: the ports that wrote and the handlers called, at their
\* places in the list the call goes through.
Did(call, ok, target, size, written, called) ==
  [call |-> call, ok |-> ok, target |-> target, size |-> size,
   written |-> written, called |-> called]

Returned(call, ok) == outcome' = Did(call, ok, Self, 0, <<>>, <<>>)

Init ==
  /\ Memory!Init
  /\ created = FALSE /\ ports = <<>> /\ handlers = <<>>
  /\ routes = [t \in HostId |-> NoRoute]
  /\ default = NoHandler
  /\ outcome = Did("none", TRUE, Self, 0, <<>>, <<>>)
  /\ granted = [t \in HostId |-> <<>>]
  /\ known = {}

\* nano_net_init.
Setup ==
  /\ Memory!Setup
  /\ Returned("init", TRUE)
  /\ UNCHANGED <<tables, default, granted, known>>

\* nano_net_create: the host and its three lists.
Create ==
  /\ ~created
  /\ \E k \in 0..4 :
       /\ Memory!Take(4, k)
       /\ created' = (k = 4)
       /\ Returned("create", k = 4)
  /\ UNCHANGED <<ports, routes, handlers, default, granted, known>>

-----------------------------------------------------------------------------
(* nano_net_add_port and the calls under it.  A list element is two blocks:*)
(* the copy of the element and its node.                                   *)

\* What nano_net_port_create leaves of the buffers for the packager.
PackSize(p) == IF Desc[p].writeable THEN Desc[p].pack_buf_size ELSE 0
UnpackSize(p) == IF Desc[p].readable THEN Desc[p].unpack_buf_size ELSE 0

\* The packager's own buffers, where the application gives none.
OwnBuffers(p) ==
  Cardinality({b \in {"pack", "unpack"} :
    IF b = "pack" THEN PackSize(p) > 0 /\ ~Desc[p].pack_buf
    ELSE UnpackSize(p) > 0 /\ ~Desc[p].unpack_buf})

\* The smallest packet: header and checksum.
MinPacket == 14

\* The packager's create, after its blocks have been served.
BigEnough(p) == UnpackSize(p) >= MinPacket

\* The port, the packager, its implementation and their buffers.
PortBlocks(p) == 3 + OwnBuffers(p)

\* The port joins the list when all blocks were served, the element's too;
\* else it is lost with what it took (free does nothing).
AddPort(p) ==
  /\ created
  /\ \A i \in DOMAIN ports : ports[i] # p
  /\ LET n == IF BigEnough(p) THEN PortBlocks(p) + 2 ELSE PortBlocks(p)
     IN  \E k \in 0..n :
           /\ Memory!Take(n, k)
           /\ LET ok == k = n /\ BigEnough(p)
              IN  /\ ports' = IF ok THEN AddElement(ports, p) ELSE ports
                  /\ Returned("add_port", ok)
  /\ UNCHANGED <<created, routes, handlers, default, granted, known>>

-----------------------------------------------------------------------------
(* nano_net_add_route for target t and port p, of whose blocks k are       *)
(* served: a new target takes its record, its port list and its element,   *)
(* every port its own element.                                             *)

RouteBlocks(t) == IF routes[t].listed THEN 2 ELSE 6

\* Mutant: the port is written into the list before its node is there.
RoutesWith_HalfElement(t, p, k) ==
  [routes EXCEPT ![t] =
     [listed |-> @.listed \/ k >= 4,
      ports |-> IF k >= RouteBlocks(t) - 1 THEN AddElement(@.ports, p) ELSE @.ports,
      heard |-> @.heard]]

\* Mutant: a known target gets the new port instead of the others.
RoutesWith_Replaced(t, p, k) ==
  [routes EXCEPT ![t] =
     [listed |-> @.listed \/ k >= 4,
      ports |-> IF k = RouteBlocks(t) THEN <<p>> ELSE @.ports,
      heard |-> @.heard]]

\* A new target is listed when its own element was served, the fourth block;
\* it stays listed without a port when the port's element is refused.
RoutesWith(t, p, k) ==
  [routes EXCEPT ![t] =
     [listed |-> @.listed \/ k >= 4,
      ports |-> IF k = RouteBlocks(t) THEN AddElement(@.ports, p) ELSE @.ports,
      heard |-> @.heard]]

GrantedWith(t, p, k) ==
  IF k = RouteBlocks(t) THEN [granted EXCEPT ![t] = AddElement(@, p)] ELSE granted

\* nano_net_add_route as the application calls it.
AddRoute(t, p) ==
  /\ created
  /\ \E i \in DOMAIN ports : ports[i] = p
  /\ Len(routes[t].ports) < MaxPorts
  /\ \E k \in 0..RouteBlocks(t) :
       /\ Memory!Take(RouteBlocks(t), k)
       /\ routes' = RoutesWith(t, p, k)
       /\ granted' = GrantedWith(t, p, k)
       /\ outcome' = Did("add_route", k = RouteBlocks(t), t, 0, <<>>, <<>>)
  /\ UNCHANGED <<created, ports, handlers, default, known>>

-----------------------------------------------------------------------------
\* The places in the list of the handlers for a message.
HandlersFor(m) == {i \in DOMAIN handlers : handlers[i].msg_id = m}

\* Mutant: the existing handler is not looked for.
Refused_Never(m) == FALSE

\* A second handler for a message is refused where the macro is set.
Refused(m) == MultiHandler /\ HandlersFor(m) # {}

\* nano_net_add_msg_handler: the handler's record is copied into an element.
AddMsgHandler(m, f) ==
  /\ created
  /\ Len(handlers) < MaxPorts
  /\ \E k \in 0..3 :
       LET ok == ~Refused(m) /\ k = 3
       IN  /\ IF Refused(m) THEN k = 0 /\ UNCHANGED phase ELSE Memory!Take(3, k)
           /\ handlers' = IF ok THEN AddElement(handlers, [msg_id |-> m, handler |-> f])
                          ELSE handlers
           /\ Returned("add_msg_handler", ok)
  /\ UNCHANGED <<created, ports, routes, default, granted, known>>

\* nano_net_add_default_msg_handler: once.
AddDefaultMsgHandler(f) ==
  /\ created
  /\ default' = IF default = NoHandler THEN f ELSE default
  /\ Returned("add_default_msg_handler", default = NoHandler)
  /\ UNCHANGED <<phase, tables, granted, known>>

-----------------------------------------------------------------------------
\* pack returns NULL when the buffer is too small, and nothing is written.
Fits(p, size) == PackSize(p) >= size

\* The ports of a route that write a package (nano_net_port_send_msg_packages).
Writers(list, size) == [i \in {j \in DOMAIN list : Fits(list[j], size)} |-> list[i]]

\* nano_net_send_msg and nano_net_send_msgs: 0 is returned when the target
\* is listed, whatever was written.
Send(t, size) ==
  /\ created
  /\ outcome' = Did("send", routes[t].listed, t, size,
                    Writers(routes[t].ports, size), <<>>)
  /\ UNCHANGED <<phase, tables, default, granted, known>>

\* nano_net_target_direct_write: the bytes go to every port of the target as
\* they are; the size is returned in any case.
DirectWrite(t, size) ==
  /\ created
  /\ outcome' = Did("direct_write", TRUE, t, size, routes[t].ports, <<>>)
  /\ UNCHANGED <<phase, tables, default, granted, known>>

\* The loop over the handlers ends at the first that matches, or goes on.
Reached(found) == {i \in found : MultiHandler => \A j \in found : i <= j}

\* Mutant: the default handler is called without being set.
Called_UnsetDefault(m) ==
  IF HandlersFor(m) = {} THEN <<default>>
  ELSE [i \in Reached(HandlersFor(m)) |-> handlers[i].handler]

\* The handlers called for a message, or else the default one.
Called(m) ==
  IF HandlersFor(m) # {} THEN [i \in Reached(HandlersFor(m)) |-> handlers[i].handler]
  ELSE IF default = NoHandler THEN <<>> ELSE <<default>>

\* What becomes of a package for t, with the routes after learning.
Delivered(m) == Did("deliver", TRUE, Self, 0, <<>>, Called(m))
Forwarded(after, t, size, cnt) ==
  IF cnt < MaxForward
  THEN Did("forward", TRUE, t, size, Writers(after[t].ports, size), <<>>)
  ELSE Did("drop", TRUE, t, size, <<>>, <<>>)

\* Mutant: the time is kept before the route is learned.
Noted_BeforeLearning(after, s) ==
  [after EXCEPT ![s].heard = @ \/ routes[s].listed]

\* The sender's last_recv_time, if it is listed by now.
Noted(after, s) == [after EXCEPT ![s].heard = @ \/ after[s].listed]

\* Mutant: a route is learned only from a package for this host.
Learns_AtTargetOnly(s, t) == ~routes[s].listed /\ t = Self

\* A sender that is not listed is learned.
Learns(s, t) == ~routes[s].listed

\* nano_net_port_unpack_callback: a package from s to t comes in at port p.
Receive(p, s, t, m, size, cnt) ==
  /\ \E i \in DOMAIN ports : ports[i] = p
  /\ \E k \in 0..6 :
       LET after == IF Learns(s, t) THEN RoutesWith(s, p, k) ELSE routes
       IN  /\ IF Learns(s, t) THEN Memory!Take(6, k) ELSE k = 0 /\ UNCHANGED phase
           /\ granted' = IF Learns(s, t) THEN GrantedWith(s, p, k) ELSE granted
           /\ routes' = Noted(after, s)
           /\ outcome' = IF t = Self THEN Delivered(m) ELSE Forwarded(after, t, size, cnt)
  /\ known' = known \cup {s}
  /\ UNCHANGED <<created, ports, handlers, default>>

Next ==
  \/ Setup
  \/ Create
  \/ \E p \in Port : AddPort(p)
  \/ \E t \in HostId, p \in Port : AddRoute(t, p)
  \/ \E m \in MsgId, f \in Handler : AddMsgHandler(m, f)
  \/ \E f \in Handler : AddDefaultMsgHandler(f)
  \/ \E t \in HostId, size \in PkgSize : Send(t, size) \/ DirectWrite(t, size)
  \/ \E p \in Port, s, t \in HostId, m \in MsgId, size \in PkgSize,
        cnt \in {0, MaxForward} : Receive(p, s, t, m, size, cnt)

Spec == Init /\ [][Next]_vars

-----------------------------------------------------------------------------
Route == [listed : BOOLEAN, ports : Seq(Port), heard : BOOLEAN]

Calls == {"none", "init", "create", "add_port", "add_route", "add_msg_handler",
          "add_default_msg_handler", "send", "direct_write", "deliver", "forward", "drop"}

TypeOK ==
  /\ phase \in Memory!Phases
  /\ created \in BOOLEAN
  /\ ports \in Seq(Port)
  /\ routes \in [HostId -> Route]
  /\ handlers \in Seq([msg_id : MsgId, handler : Handler])
  /\ default \in Handler \cup {NoHandler}
  /\ outcome.call \in Calls /\ outcome.ok \in BOOLEAN
  /\ outcome.target \in HostId /\ outcome.size \in Nat
  /\ \A i \in DOMAIN outcome.written : outcome.written[i] \in Port
  /\ \A i \in DOMAIN outcome.called : outcome.called[i] \in Handler
  /\ granted \in [HostId -> Seq(Port)]
  /\ known \subseteq HostId

(* What a send or a forward writes is settled by the add_route calls that  *)
(* returned 0, of the application and of the receive callback: each such   *)
(* port whose buffer holds the package, once per call, newest first, and   *)
(* no other, however many calls failed before or since.                    *)
SendsFollowGrants ==
  outcome.call \in {"send", "forward"} /\ outcome.ok =>
    outcome.written = Writers(granted[outcome.target], outcome.size)

(* While memory lasts a listed target has a port, and whoever has been     *)
(* heard can be reached.                                                   *)
RoutableWhileMemoryLasts ==
  phase = "open" =>
    \A t \in HostId : /\ routes[t].listed <=> routes[t].ports # <<>>
                      /\ t \in known => routes[t].listed

(* nano_net_last_recv_time: the time of a listed host is set exactly when  *)
(* something was received from it, even when learning it failed half way.  *)
LastRecvTimeTrue ==
  \A t \in HostId : routes[t].heard <=> (routes[t].listed /\ t \in known)

(* Every handler whose registration returned 0 is called for its message,  *)
(* whatever was registered after it.                                       *)
NoHandlerShadowed ==
  \A i \in DOMAIN handlers :
    LET called == Called(handlers[i].msg_id)
    IN  \E j \in DOMAIN called : called[j] = handlers[i].handler

(* A call that fails half way, or a route whose learning does, has no      *)
(* effect on what is sent, run or called from then on.  (A target may stay *)
(* listed without a port.)                                                 *)
FailureAtomic ==
  [][/\ ~outcome'.ok => ports' = ports /\ handlers' = handlers /\ default' = default
     /\ granted' = granted => \A t \in HostId : routes'[t].ports = routes[t].ports]_vars
=============================================================================
