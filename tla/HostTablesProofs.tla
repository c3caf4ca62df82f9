-------------------------- MODULE HostTablesProofs --------------------------
(***************************************************************************)
(* One host's tables, for every set of ports, hosts and handlers and every *)
(* allocation that may fail: what is sent, what is learned and what a      *)
(* failed call leaves behind.                                              *)
(***************************************************************************)
EXTENDS HostTables, TLAPS

TablesTyped ==
  /\ phase \in Memory!Phases
  /\ routes \in [HostId -> Route]
  /\ granted \in [HostId -> Seq(Port)]
  /\ known \subseteq HostId

\* A route's ports are those whose add_route returned 0.
GrantsAreRoutes == \A t \in HostId : granted[t] = routes[t].ports

\* Before nano_net_init nothing can be built, and without a port nothing is
\* received.
NothingBuilt ==
  /\ phase = "unset" => ~created /\ known = {} /\ \A t \in HostId : routes[t] = NoRoute
  /\ ~created => ports = <<>>

(* RoutableWhileMemoryLasts is what keeps LastRecvTimeTrue: a host that    *)
(* was heard but not listed stays unlisted, since memory has run out.      *)
IInv ==
  /\ TablesTyped /\ GrantsAreRoutes /\ NothingBuilt
  /\ RoutableWhileMemoryLasts /\ LastRecvTimeTrue /\ SendsFollowGrants

-----------------------------------------------------------------------------
\* What n requests in a row leave.
LEMMA TakeFacts ==
  ASSUME TablesTyped, NEW n \in Nat, NEW k, Memory!Take(n, k)
  PROVE  /\ k \in 0..n
         /\ phase' \in Memory!Phases
         /\ phase' = "open" => phase = "open" /\ k = n
         /\ phase # "open" => k = 0
         /\ phase = "unset" <=> phase' = "unset"
BY DEF TablesTyped, Memory!Take, Memory!Phases

\* Elements in front of a list.
LEMMA FrontElement ==
  ASSUME NEW S, NEW list \in Seq(S), NEW e \in S
  PROVE  AddElement(list, e) \in Seq(S) /\ AddElement(list, e) # <<>>
<1>1. <<e>> \in Seq(S)
  OBVIOUS
<1>2. <<e>> \o list \in Seq(S) /\ Len(<<e>> \o list) = 1 + Len(list)
  BY <1>1
<1>. QED  BY <1>2 DEF AddElement

\* f with t listed or not, and with new ports.
Relisted(f, t, l, list) ==
  [f EXCEPT ![t] = [listed |-> l, ports |-> list, heard |-> f[t].heard]]

LEMMA RelistedFacts ==
  ASSUME NEW f \in [HostId -> Route], NEW t \in HostId, NEW l \in BOOLEAN,
         NEW list \in Seq(Port)
  PROVE  /\ Relisted(f, t, l, list) \in [HostId -> Route]
         /\ Relisted(f, t, l, list)[t].listed = l
         /\ Relisted(f, t, l, list)[t].ports = list
         /\ Relisted(f, t, l, list)[t].heard = f[t].heard
         /\ \A u \in HostId : u # t => Relisted(f, t, l, list)[u] = f[u]
         /\ (l = f[t].listed /\ list = f[t].ports) => Relisted(f, t, l, list) = f
<1> DEFINE e == [listed |-> l, ports |-> list, heard |-> f[t].heard]
           g == [f EXCEPT ![t] = e]
<1>1. f[t] \in Route
  OBVIOUS
<1>2. e \in Route /\ e.listed = l /\ e.ports = list /\ e.heard = f[t].heard
  BY <1>1 DEF Route
<1>3. (l = f[t].listed /\ list = f[t].ports) => e = f[t]
  BY <1>1 DEF Route
<1>0. Relisted(f, t, l, list) = g
  BY DEF Relisted
<1> HIDE DEF e
<1>4. g \in [HostId -> Route] /\ g[t] = e /\ \A u \in HostId : u # t => g[u] = f[u]
  BY <1>2
<1>5. e = f[t] => g = f
  OBVIOUS
<1>. QED  BY <1>0, <1>2, <1>3, <1>4, <1>5

\* nano_net_add_route, k of its blocks being served.
LEMMA RoutesWithFacts ==
  ASSUME TablesTyped, GrantsAreRoutes, NEW t \in HostId, NEW p \in Port,
         NEW k \in 0..RouteBlocks(t)
  PROVE  /\ RoutesWith(t, p, k) \in [HostId -> Route]
         /\ GrantedWith(t, p, k) \in [HostId -> Seq(Port)]
         /\ \A u \in HostId : GrantedWith(t, p, k)[u] = RoutesWith(t, p, k)[u].ports
         /\ \A u \in HostId : u # t => RoutesWith(t, p, k)[u] = routes[u]
         /\ RoutesWith(t, p, k)[t].heard = routes[t].heard
         /\ routes[t].listed => RoutesWith(t, p, k)[t].listed
         /\ k = RouteBlocks(t) =>
              RoutesWith(t, p, k)[t].listed /\ RoutesWith(t, p, k)[t].ports # <<>>
         /\ k = 0 => RoutesWith(t, p, k) = routes
<1> DEFINE r == routes[t]
           l == r.listed \/ k >= 4
           new == IF k = RouteBlocks(t) THEN AddElement(r.ports, p) ELSE r.ports
<1>1. /\ r \in Route /\ r.listed \in BOOLEAN /\ r.ports \in Seq(Port)
      /\ routes \in [HostId -> Route] /\ granted \in [HostId -> Seq(Port)]
  BY DEF TablesTyped, Route
<1>2. RoutesWith(t, p, k) = Relisted(routes, t, l, new)
  BY <1>1 DEF RoutesWith, Relisted
<1>3. /\ new \in Seq(Port)
      /\ k = RouteBlocks(t) => new # <<>> /\ new = AddElement(r.ports, p)
      /\ k # RouteBlocks(t) => new = r.ports
  BY <1>1, FrontElement
<1>4. RouteBlocks(t) \in {2, 6} /\ (~r.listed => RouteBlocks(t) = 6)
  BY DEF RouteBlocks
<1>5. granted[t] = r.ports /\ \A u \in HostId : granted[u] = routes[u].ports
  BY DEF GrantsAreRoutes
<1>6. GrantedWith(t, p, k) = [granted EXCEPT ![t] = new]
  <2>1. CASE k = RouteBlocks(t)
    BY <1>3, <1>5, <2>1 DEF GrantedWith
  <2>2. CASE k # RouteBlocks(t)
    BY <1>1, <1>3, <1>5, <2>2 DEF GrantedWith
  <2>. QED  BY <2>1, <2>2
<1>7. l \in BOOLEAN
  OBVIOUS
<1>8. (r.listed => l) /\ (k = 0 => l = r.listed) /\ (k = RouteBlocks(t) => l)
  BY <1>1, <1>4
<1>9. k = 0 => new = r.ports
  BY <1>3, <1>4
<1> HIDE DEF l, new
<1> DEFINE g == Relisted(routes, t, l, new)
<1>10. /\ g \in [HostId -> Route] /\ g[t].listed = l /\ g[t].ports = new
       /\ g[t].heard = r.heard /\ \A u \in HostId : u # t => g[u] = routes[u]
       /\ (l = r.listed /\ new = r.ports) => g = routes
  BY <1>1, <1>3, <1>7, RelistedFacts
<1> HIDE DEF g
<1>11. \A u \in HostId : GrantedWith(t, p, k)[u] = g[u].ports
  BY <1>1, <1>5, <1>6, <1>10
<1>12. GrantedWith(t, p, k) \in [HostId -> Seq(Port)]
  BY <1>1, <1>3, <1>6
<1>13. (r.listed => g[t].listed) /\ (k = RouteBlocks(t) => g[t].listed)
  BY <1>8, <1>10
<1>14. k = 0 => g = routes
  BY <1>8, <1>9, <1>10
<1>. QED  BY <1>2, <1>3, <1>10, <1>11, <1>12, <1>13, <1>14 DEF g

-----------------------------------------------------------------------------
LEMMA InitHolds == Init => IInv
<1> SUFFICES ASSUME Init PROVE IInv
  OBVIOUS
<1>1. \A t \in HostId : routes[t] = NoRoute /\ granted[t] = <<>>
  BY DEF Init
<1>2. phase = "unset" /\ known = {} /\ ~created /\ ports = <<>>
  BY DEF Init, Memory!Init
<1>3. NoRoute \in Route /\ NoRoute.ports = <<>> /\ ~NoRoute.heard
  BY DEF NoRoute, Route
<1>4. TablesTyped
  BY <1>2, <1>3 DEF Init, TablesTyped, Memory!Phases
<1>5. SendsFollowGrants
  BY DEF Init, SendsFollowGrants, Did
<1>. QED  BY <1>1, <1>2, <1>3, <1>4, <1>5
          DEF IInv, GrantsAreRoutes, NothingBuilt, RoutableWhileMemoryLasts, LastRecvTimeTrue

\* Calls that leave routes, grants and what was heard alone.
LEMMA TablesKept ==
  ASSUME IInv, UNCHANGED <<routes, granted, known>>,
         phase' \in Memory!Phases, phase = "unset" => ~created',
         phase' = "unset" => phase = "unset",
         phase' = "open" => phase = "open" \/ phase = "unset",
         ~created' => ports' = <<>>,
         SendsFollowGrants'
  PROVE  IInv'
<1>1. TablesTyped'
  BY DEF IInv, TablesTyped
<1>2. GrantsAreRoutes' /\ LastRecvTimeTrue'
  BY DEF IInv, GrantsAreRoutes, LastRecvTimeTrue
<1>3. NothingBuilt'
  BY DEF IInv, NothingBuilt
<1>4. RoutableWhileMemoryLasts'
  <2>1. phase = "unset" => \A t \in HostId : ~routes[t].listed /\ routes[t].ports = <<>> /\ t \notin known
    BY DEF IInv, NothingBuilt, NoRoute
  <2>. QED  BY <2>1 DEF IInv, RoutableWhileMemoryLasts
<1>. QED  BY <1>1, <1>2, <1>3, <1>4 DEF IInv

\* A call that sends nothing.
LEMMA NothingSent ==
  ASSUME NEW call, NEW ok, call \notin {"send", "forward"},
         NEW t, NEW size, NEW written, NEW called,
         outcome' = Did(call, ok, t, size, written, called)
  PROVE  SendsFollowGrants'
<1>1. outcome'.call = call
  BY DEF Did
<1>. QED  BY <1>1 DEF SendsFollowGrants

LEMMA CreateStep == IInv /\ Create => IInv'
<1> SUFFICES ASSUME IInv, Create PROVE IInv'
  OBVIOUS
<1>1. PICK k \in 0..4 : Memory!Take(4, k) /\ created' = (k = 4) /\ Returned("create", k = 4)
  BY DEF Create
<1>2. SendsFollowGrants'
  BY <1>1, NothingSent DEF Returned
<1>3. UNCHANGED <<routes, granted, known, ports>> /\ ~created
  BY DEF Create
<1>4. TablesTyped
  BY DEF IInv
<1>5. /\ phase' \in Memory!Phases
      /\ phase' = "open" => phase = "open"
      /\ phase # "open" => k = 0
      /\ phase = "unset" <=> phase' = "unset"
  BY <1>1, <1>4, TakeFacts
<1>6. ports' = <<>>
  BY <1>3 DEF IInv, NothingBuilt
<1>7. phase = "unset" => ~created'
  <2>1. phase = "unset" => k = 0
    BY <1>5
  <2>2. 0 # 4
    OBVIOUS
  <2>. QED  BY <1>1, <2>1, <2>2
<1>. QED  BY <1>2, <1>3, <1>5, <1>6, <1>7, TablesKept

\* Requests do not change whether the pool is set up, and never open it.
LEMMA TakeKeeps ==
  ASSUME TablesTyped, NEW n, NEW k, Memory!Take(n, k)
  PROVE  /\ phase' \in Memory!Phases
         /\ phase' = "open" => phase = "open"
         /\ phase = "unset" <=> phase' = "unset"
BY DEF TablesTyped, Memory!Take, Memory!Phases

\* The calls on a host that is there and whose routes they leave alone.
LEMMA HostKept ==
  ASSUME IInv, created, UNCHANGED <<created, routes, granted, known>>,
         UNCHANGED phase \/ \E n, k : Memory!Take(n, k),
         SendsFollowGrants'
  PROVE  IInv'
<1>1. TablesTyped /\ phase # "unset"
  BY DEF IInv, NothingBuilt
<1>2. /\ phase' \in Memory!Phases
      /\ phase' = "open" => phase = "open"
      /\ phase = "unset" <=> phase' = "unset"
  <2>1. CASE UNCHANGED phase
    BY <1>1, <2>1 DEF TablesTyped
  <2>2. CASE \E n, k : Memory!Take(n, k)
    BY <1>1, <2>2, TakeKeeps
  <2>. QED  BY <2>1, <2>2
<1>3. created'
  OBVIOUS
<1>. QED  BY <1>1, <1>2, <1>3, TablesKept

LEMMA AddPortStep == ASSUME IInv, NEW p \in Port, AddPort(p) PROVE IInv'
<1>1. created /\ UNCHANGED <<created, routes, granted, known>>
  BY DEF AddPort
<1>2. \E n, k : Memory!Take(n, k)
  BY DEF AddPort
<1>3. PICK ok : Returned("add_port", ok)
  BY DEF AddPort
<1>4. SendsFollowGrants'
  BY <1>3, NothingSent DEF Returned
<1>. QED  BY <1>1, <1>2, <1>4, HostKept

LEMMA AddMsgHandlerStep ==
  ASSUME IInv, NEW m \in MsgId, NEW f \in Handler, AddMsgHandler(m, f) PROVE IInv'
<1>1. created /\ UNCHANGED <<created, routes, granted, known>>
  BY DEF AddMsgHandler
<1>2. UNCHANGED phase \/ \E n, k : Memory!Take(n, k)
  BY DEF AddMsgHandler
<1>3. PICK ok : Returned("add_msg_handler", ok)
  BY DEF AddMsgHandler
<1>4. SendsFollowGrants'
  BY <1>3, NothingSent DEF Returned
<1>. QED  BY <1>1, <1>2, <1>4, HostKept

LEMMA AddDefaultStep ==
  ASSUME IInv, NEW f \in Handler, AddDefaultMsgHandler(f) PROVE IInv'
<1>1. created /\ UNCHANGED <<created, routes, granted, known, phase>>
  BY DEF AddDefaultMsgHandler, tables
<1>2. SendsFollowGrants'
  BY NothingSent DEF AddDefaultMsgHandler, Returned
<1>. QED  BY <1>1, <1>2, HostKept

LEMMA SetupStep == IInv /\ Setup => IInv'
<1> SUFFICES ASSUME IInv, Setup PROVE IInv'
  OBVIOUS
<1>1. phase = "unset" /\ phase' = "open" /\ UNCHANGED <<created, ports, routes, granted, known>>
  BY DEF Setup, Memory!Setup, tables
<1>2. ~created /\ ports = <<>>
  BY <1>1 DEF IInv, NothingBuilt
<1>3. SendsFollowGrants'
  BY NothingSent DEF Setup, Returned
<1>4. phase' \in Memory!Phases
  BY <1>1 DEF Memory!Phases
<1>. QED  BY <1>1, <1>2, <1>3, <1>4, TablesKept

LEMMA SendStep ==
  ASSUME IInv, NEW t \in HostId, NEW size, Send(t, size) \/ DirectWrite(t, size)
  PROVE  IInv'
<1>1. created /\ UNCHANGED <<created, routes, granted, known, phase>>
  BY DEF Send, DirectWrite, tables
<1>2. SendsFollowGrants'
  <2>1. CASE Send(t, size)
    <3>1. /\ outcome'.target = t /\ outcome'.size = size
          /\ outcome'.written = Writers(routes[t].ports, size)
      BY <2>1 DEF Send, Did
    <3>2. granted'[t] = routes[t].ports
      BY <1>1 DEF IInv, GrantsAreRoutes
    <3>. QED  BY <3>1, <3>2 DEF SendsFollowGrants
  <2>2. CASE DirectWrite(t, size)
    BY <2>2, NothingSent DEF DirectWrite
  <2>. QED  BY <2>1, <2>2
<1>. QED  BY <1>1, <1>2, HostKept

-----------------------------------------------------------------------------
(* What a pass through nano_net_add_route does to the invariant, whoever   *)
(* calls it: routes go from routes to after.                               *)
LEMMA RouteAdded ==
  ASSUME IInv, NEW t \in HostId, NEW p \in Port, NEW k \in 0..RouteBlocks(t),
         Memory!Take(RouteBlocks(t), k)
  PROVE  /\ phase' \in Memory!Phases
         /\ phase = "unset" <=> phase' = "unset"
         /\ phase' = "open" =>
              /\ phase = "open"
              /\ RoutesWith(t, p, k)[t].listed /\ RoutesWith(t, p, k)[t].ports # <<>>
         /\ phase # "open" => RoutesWith(t, p, k) = routes
<1>1. TablesTyped /\ GrantsAreRoutes
  BY DEF IInv
<1>2. RouteBlocks(t) \in Nat
  BY DEF RouteBlocks
<1>3. /\ phase' \in Memory!Phases
      /\ phase' = "open" => phase = "open" /\ k = RouteBlocks(t)
      /\ phase # "open" => k = 0
      /\ phase = "unset" <=> phase' = "unset"
  BY <1>1, <1>2, TakeFacts
<1>4. k = RouteBlocks(t) =>
        RoutesWith(t, p, k)[t].listed /\ RoutesWith(t, p, k)[t].ports # <<>>
  BY <1>1, RoutesWithFacts
<1>5. k = 0 => RoutesWith(t, p, k) = routes
  BY <1>1, RoutesWithFacts
<1>. QED  BY <1>3, <1>4, <1>5

LEMMA AddRouteStep ==
  ASSUME IInv, NEW t \in HostId, NEW p \in Port, AddRoute(t, p) PROVE IInv'
<1>1. PICK k \in 0..RouteBlocks(t) :
        /\ Memory!Take(RouteBlocks(t), k)
        /\ routes' = RoutesWith(t, p, k) /\ granted' = GrantedWith(t, p, k)
        /\ outcome' = Did("add_route", k = RouteBlocks(t), t, 0, <<>>, <<>>)
  BY DEF AddRoute
<1>2. created /\ UNCHANGED <<created, ports, known>>
  BY DEF AddRoute
<1>3. TablesTyped /\ GrantsAreRoutes /\ phase # "unset"
  BY <1>2 DEF IInv, NothingBuilt
<1>4. /\ routes' \in [HostId -> Route] /\ granted' \in [HostId -> Seq(Port)]
      /\ \A u \in HostId : granted'[u] = routes'[u].ports
      /\ \A u \in HostId : u # t => routes'[u] = routes[u]
      /\ routes'[t].heard = routes[t].heard
      /\ routes[t].listed => routes'[t].listed
  BY <1>1, <1>3, RoutesWithFacts
<1>5. /\ phase' \in Memory!Phases /\ phase' # "unset"
      /\ phase' = "open" => phase = "open" /\ routes'[t].listed /\ routes'[t].ports # <<>>
      /\ phase # "open" => routes' = routes
  BY <1>1, <1>3, RouteAdded
<1>6. TablesTyped'
  BY <1>2, <1>3, <1>4, <1>5 DEF TablesTyped
<1>7. GrantsAreRoutes'
  BY <1>4 DEF GrantsAreRoutes
<1>8. NothingBuilt'
  BY <1>2, <1>5 DEF NothingBuilt, IInv
<1>9. RoutableWhileMemoryLasts'
  BY <1>2, <1>4, <1>5 DEF RoutableWhileMemoryLasts, IInv
<1>10. LastRecvTimeTrue'
  <2>1. CASE phase # "open"
    BY <1>2, <1>5, <2>1 DEF LastRecvTimeTrue, IInv
  <2>2. CASE phase = "open"
    <3>1. t \in known => routes[t].listed
      BY <2>2 DEF IInv, RoutableWhileMemoryLasts
    <3>2. routes[t].heard <=> (routes[t].listed /\ t \in known)
      BY DEF IInv, LastRecvTimeTrue
    <3>3. routes'[t].heard <=> (routes'[t].listed /\ t \in known')
      BY <1>2, <1>4, <3>1, <3>2
    <3>. QED  BY <1>2, <1>4, <3>3 DEF LastRecvTimeTrue, IInv
  <2>. QED  BY <2>1, <2>2
<1>11. SendsFollowGrants'
  BY <1>1, NothingSent
<1>. QED  BY <1>6, <1>7, <1>8, <1>9, <1>10, <1>11 DEF IInv

\* The receive time is noted for a sender that is listed.
LEMMA NotedFacts ==
  ASSUME NEW after \in [HostId -> Route], NEW s \in HostId
  PROVE  /\ Noted(after, s) \in [HostId -> Route]
         /\ \A u \in HostId : /\ Noted(after, s)[u].ports = after[u].ports
                              /\ Noted(after, s)[u].listed = after[u].listed
                              /\ u # s => Noted(after, s)[u].heard = after[u].heard
         /\ Noted(after, s)[s].heard = (after[s].heard \/ after[s].listed)
<1> DEFINE h == after[s].heard \/ after[s].listed
           g == [after EXCEPT ![s].heard = h]
<1>1. Noted(after, s) = g
  BY DEF Noted
<1>2. h \in BOOLEAN
  OBVIOUS
<1> HIDE DEF h
<1>3. g \in [HostId -> Route]
  BY <1>2 DEF Route
<1>4. g[s].heard = h /\ g[s].ports = after[s].ports /\ g[s].listed = after[s].listed
  BY <1>2 DEF Route
<1>5. \A u \in HostId : u # s => g[u] = after[u]
  OBVIOUS
<1> HIDE DEF g
<1>. QED  BY <1>1, <1>3, <1>4, <1>5 DEF h

\* A package in: its sender is listed already, or is learned.
LEMMA Learning ==
  ASSUME IInv, phase # "unset", NEW p \in Port, NEW s \in HostId, NEW t \in HostId,
         NEW k \in 0..6,
         NEW after, after = IF Learns(s, t) THEN RoutesWith(s, p, k) ELSE routes,
         IF Learns(s, t) THEN Memory!Take(6, k) ELSE k = 0 /\ UNCHANGED phase,
         granted' = IF Learns(s, t) THEN GrantedWith(s, p, k) ELSE granted
  PROVE  /\ phase' \in Memory!Phases /\ phase' # "unset"
         /\ phase' = "open" => phase = "open" /\ after[s].listed /\ after[s].ports # <<>>
         /\ after \in [HostId -> Route] /\ granted' \in [HostId -> Seq(Port)]
         /\ \A u \in HostId : granted'[u] = after[u].ports
         /\ \A u \in HostId : u # s => after[u] = routes[u]
         /\ after[s].heard => after[s].listed
<1>1. TablesTyped /\ GrantsAreRoutes
  BY DEF IInv
<1>2. routes[s].heard => routes[s].listed
  BY DEF IInv, LastRecvTimeTrue
<1>3. CASE Learns(s, t)
  <2>1. RouteBlocks(s) = 6
    BY <1>3 DEF Learns, RouteBlocks
  <2>2. k \in 0..RouteBlocks(s) /\ Memory!Take(RouteBlocks(s), k)
    BY <1>3, <2>1
  <2>3. after = RoutesWith(s, p, k) /\ granted' = GrantedWith(s, p, k)
    BY <1>3
  <2>4. /\ after \in [HostId -> Route] /\ granted' \in [HostId -> Seq(Port)]
        /\ \A u \in HostId : granted'[u] = after[u].ports
        /\ \A u \in HostId : u # s => after[u] = routes[u]
        /\ after[s].heard = routes[s].heard
        /\ routes[s].listed => after[s].listed
    BY <1>1, <2>2, <2>3, RoutesWithFacts
  <2>5. /\ phase' \in Memory!Phases /\ phase' # "unset"
        /\ phase' = "open" => phase = "open" /\ after[s].listed /\ after[s].ports # <<>>
    BY <2>2, <2>3, RouteAdded
  <2>. QED  BY <1>2, <2>4, <2>5
<1>4. CASE ~Learns(s, t)
  <2>1. after = routes /\ UNCHANGED <<phase, granted>>
    BY <1>4
  <2>2. phase = "open" => routes[s].listed /\ routes[s].ports # <<>>
    BY <1>4 DEF Learns, IInv, RoutableWhileMemoryLasts
  <2>. QED  BY <1>1, <1>2, <2>1, <2>2 DEF TablesTyped, GrantsAreRoutes
<1>. QED  BY <1>3, <1>4

LEMMA ReceiveStep ==
  ASSUME IInv, NEW p \in Port, NEW s \in HostId, NEW t \in HostId, NEW m \in MsgId,
         NEW size, NEW cnt, Receive(p, s, t, m, size, cnt)
  PROVE  IInv'
<1>1. PICK k \in 0..6 :
        LET after == IF Learns(s, t) THEN RoutesWith(s, p, k) ELSE routes
        IN  /\ IF Learns(s, t) THEN Memory!Take(6, k) ELSE k = 0 /\ UNCHANGED phase
            /\ granted' = IF Learns(s, t) THEN GrantedWith(s, p, k) ELSE granted
            /\ routes' = Noted(after, s)
            /\ outcome' = IF t = Self THEN Delivered(m) ELSE Forwarded(after, t, size, cnt)
  BY DEF Receive
<1> DEFINE after == IF Learns(s, t) THEN RoutesWith(s, p, k) ELSE routes
<1>2. known' = known \cup {s} /\ UNCHANGED <<created, ports>>
  BY DEF Receive
<1>3. phase # "unset" /\ created
  <2>1. \E i \in DOMAIN ports : ports[i] = p
    BY DEF Receive
  <2>2. ports # <<>>
    BY <2>1
  <2>. QED  BY <2>2 DEF IInv, NothingBuilt
<1>4. after = IF Learns(s, t) THEN RoutesWith(s, p, k) ELSE routes
  OBVIOUS
<1>5. /\ IF Learns(s, t) THEN Memory!Take(6, k) ELSE k = 0 /\ UNCHANGED phase
      /\ granted' = IF Learns(s, t) THEN GrantedWith(s, p, k) ELSE granted
  BY <1>1
<1>6. /\ routes' = Noted(after, s)
      /\ outcome' = IF t = Self THEN Delivered(m) ELSE Forwarded(after, t, size, cnt)
  BY <1>1
<1> HIDE DEF after
<1>7. /\ phase' \in Memory!Phases /\ phase' # "unset"
      /\ phase' = "open" => phase = "open" /\ after[s].listed /\ after[s].ports # <<>>
      /\ after \in [HostId -> Route] /\ granted' \in [HostId -> Seq(Port)]
      /\ \A u \in HostId : granted'[u] = after[u].ports
      /\ \A u \in HostId : u # s => after[u] = routes[u]
      /\ after[s].heard => after[s].listed
  BY <1>3, <1>4, <1>5, Learning
<1>8. /\ routes' \in [HostId -> Route]
      /\ \A u \in HostId : /\ routes'[u].ports = after[u].ports
                           /\ routes'[u].listed = after[u].listed
                           /\ u # s => routes'[u].heard = after[u].heard
      /\ routes'[s].heard = (after[s].heard \/ after[s].listed)
  BY <1>6, <1>7, NotedFacts, SMTT(30)
<1>9. TablesTyped'
  BY <1>2, <1>7, <1>8 DEF TablesTyped, IInv
<1>10. GrantsAreRoutes'
  BY <1>7, <1>8 DEF GrantsAreRoutes
<1>11. NothingBuilt'
  BY <1>2, <1>3, <1>7 DEF NothingBuilt
<1>12. RoutableWhileMemoryLasts'
  <2>1. SUFFICES ASSUME phase' = "open", NEW u \in HostId
                 PROVE  /\ routes'[u].listed <=> routes'[u].ports # <<>>
                        /\ u \in known' => routes'[u].listed
    BY DEF RoutableWhileMemoryLasts
  <2>2. CASE u = s
    BY <1>7, <1>8, <2>1, <2>2
  <2>3. CASE u # s
    <3>1. after[u] = routes[u] /\ (u \in known' <=> u \in known)
      BY <1>2, <1>7, <2>3
    <3>2. /\ routes[u].listed <=> routes[u].ports # <<>>
          /\ u \in known => routes[u].listed
      BY <1>7, <2>1 DEF IInv, RoutableWhileMemoryLasts
    <3>. QED  BY <1>8, <3>1, <3>2
  <2>. QED  BY <2>2, <2>3
<1>13. LastRecvTimeTrue'
  <2>1. SUFFICES ASSUME NEW u \in HostId
                 PROVE  routes'[u].heard <=> (routes'[u].listed /\ u \in known')
    BY DEF LastRecvTimeTrue
  <2>2. CASE u = s
    <3>1. s \in known'
      BY <1>2
    <3>. QED  BY <1>7, <1>8, <2>2, <3>1
  <2>3. CASE u # s
    <3>1. after[u] = routes[u] /\ (u \in known' <=> u \in known)
      BY <1>2, <1>7, <2>3
    <3>2. routes[u].heard <=> (routes[u].listed /\ u \in known)
      BY DEF IInv, LastRecvTimeTrue
    <3>. QED  BY <1>8, <2>3, <3>1, <3>2
  <2>. QED  BY <2>2, <2>3
<1>14. SendsFollowGrants'
  <2>1. CASE t = Self
    <3>1. outcome'.call = "deliver"
      BY <1>6, <2>1 DEF Delivered, Did
    <3>. QED  BY <3>1 DEF SendsFollowGrants
  <2>2. CASE t # Self /\ cnt < MaxForward
    <3>1. /\ outcome'.target = t /\ outcome'.size = size
          /\ outcome'.written = Writers(after[t].ports, size)
      BY <1>6, <2>2 DEF Forwarded, Did
    <3>. QED  BY <1>7, <3>1 DEF SendsFollowGrants
  <2>3. CASE t # Self /\ ~(cnt < MaxForward)
    BY <1>6, <2>3, NothingSent DEF Forwarded
  <2>. QED  BY <2>1, <2>2, <2>3
<1>. QED  BY <1>9, <1>10, <1>11, <1>12, <1>13, <1>14 DEF IInv

-----------------------------------------------------------------------------
LEMMA NextHolds == IInv /\ [Next]_vars => IInv'
<1> SUFFICES ASSUME IInv, [Next]_vars PROVE IInv'
  OBVIOUS
<1>1. CASE Setup
  BY <1>1, SetupStep
<1>2. CASE Create
  BY <1>2, CreateStep
<1>3. CASE \E p \in Port : AddPort(p)
  BY <1>3, AddPortStep
<1>4. CASE \E t \in HostId, p \in Port : AddRoute(t, p)
  BY <1>4, AddRouteStep
<1>5. CASE \E m \in MsgId, f \in Handler : AddMsgHandler(m, f)
  BY <1>5, AddMsgHandlerStep
<1>6. CASE \E f \in Handler : AddDefaultMsgHandler(f)
  BY <1>6, AddDefaultStep
<1>7. CASE \E t \in HostId, size \in PkgSize : Send(t, size) \/ DirectWrite(t, size)
  BY <1>7, SendStep
<1>8. CASE \E p \in Port, s, t \in HostId, m \in MsgId, size \in PkgSize,
             cnt \in {0, MaxForward} : Receive(p, s, t, m, size, cnt)
  BY <1>8, ReceiveStep
<1>9. CASE UNCHANGED vars
  <2>1. UNCHANGED <<phase, created, ports, routes, outcome, granted, known>>
    BY <1>9 DEF vars, tables
  <2>2. SendsFollowGrants'
    BY <2>1 DEF IInv, SendsFollowGrants
  <2>3. (phase = "unset" => ~created') /\ (~created' => ports' = <<>>) /\ phase' \in Memory!Phases
    BY <2>1 DEF IInv, NothingBuilt, TablesTyped
  <2>. QED  BY <2>1, <2>2, <2>3, TablesKept
<1>. QED  BY <1>1, <1>2, <1>3, <1>4, <1>5, <1>6, <1>7, <1>8, <1>9 DEF Next

LEMMA HostInv == Spec => []IInv
BY InitHolds, NextHolds, PTL DEF Spec

(* Whatever calls failed, a send and a forward write to the ports whose    *)
(* add_route returned 0 and whose buffers hold the package.                *)
THEOREM HostSends == Spec => []SendsFollowGrants
<1>1. IInv => SendsFollowGrants
  BY DEF IInv
<1>. QED  BY <1>1, HostInv, PTL

(* While memory lasts whoever was heard is routable.                       *)
THEOREM HostRoutable == Spec => []RoutableWhileMemoryLasts
<1>1. IInv => RoutableWhileMemoryLasts
  BY DEF IInv
<1>. QED  BY <1>1, HostInv, PTL

(* The receive times of the listed hosts are those of the hosts heard.     *)
THEOREM HostTimes == Spec => []LastRecvTimeTrue
<1>1. IInv => LastRecvTimeTrue
  BY DEF IInv
<1>. QED  BY <1>1, HostInv, PTL

-----------------------------------------------------------------------------
\* Where ports and grants stay, and the ports of the routes are the grants,
\* a call that was refused has changed nothing.
Atomic ==
  /\ ~outcome'.ok => ports' = ports /\ handlers' = handlers /\ default' = default
  /\ granted' = granted => \A t \in HostId : routes'[t].ports = routes[t].ports

LEMMA GrantsTellPorts ==
  ASSUME GrantsAreRoutes, GrantsAreRoutes', granted' = granted
  PROVE  \A t \in HostId : routes'[t].ports = routes[t].ports
BY DEF GrantsAreRoutes

(* A call that fails half way changes nothing that is sent, run or called  *)
(* from then on.                                                           *)
THEOREM HostFailureAtomic == Spec => FailureAtomic
<1>1. IInv /\ IInv' /\ [Next]_vars => [Atomic]_vars
  <2> SUFFICES ASSUME IInv, IInv', Next PROVE Atomic
    OBVIOUS
  <2>1. granted' = granted => \A t \in HostId : routes'[t].ports = routes[t].ports
    BY GrantsTellPorts DEF IInv
  <2>2. ~outcome'.ok => ports' = ports /\ handlers' = handlers /\ default' = default
    <3>1. CASE Setup
      BY <3>1 DEF Setup, tables
    <3>2. CASE Create
      BY <3>2 DEF Create
    <3>3. CASE \E p \in Port : AddPort(p)
      <4>1. PICK p \in Port : AddPort(p)
        BY <3>3
      <4>2. PICK ok : /\ ports' = IF ok THEN AddElement(ports, p) ELSE ports
                      /\ Returned("add_port", ok)
        BY <4>1 DEF AddPort
      <4>3. outcome'.ok = ok
        BY <4>2 DEF Returned, Did
      <4>. QED  BY <4>1, <4>2, <4>3 DEF AddPort
    <3>4. CASE \E t \in HostId, p \in Port : AddRoute(t, p)
      BY <3>4 DEF AddRoute
    <3>5. CASE \E m \in MsgId, f \in Handler : AddMsgHandler(m, f)
      <4>1. PICK m \in MsgId, f \in Handler : AddMsgHandler(m, f)
        BY <3>5
      <4>2. PICK ok : /\ ok \/ handlers' = handlers
                      /\ Returned("add_msg_handler", ok)
        BY <4>1 DEF AddMsgHandler
      <4>3. outcome'.ok = ok
        BY <4>2 DEF Returned, Did
      <4>. QED  BY <4>1, <4>2, <4>3 DEF AddMsgHandler
    <3>6. CASE \E f \in Handler : AddDefaultMsgHandler(f)
      <4>1. PICK f \in Handler : AddDefaultMsgHandler(f)
        BY <3>6
      <4>2. outcome'.ok = (default = NoHandler)
        BY <4>1 DEF AddDefaultMsgHandler, Returned, Did
      <4>3. default # NoHandler => default' = default
        BY <4>1 DEF AddDefaultMsgHandler
      <4>. QED  BY <4>1, <4>2, <4>3 DEF AddDefaultMsgHandler, tables
    <3>7. CASE \E t \in HostId, size \in PkgSize : Send(t, size) \/ DirectWrite(t, size)
      BY <3>7 DEF Send, DirectWrite, tables
    <3>8. CASE \E p \in Port, s, t \in HostId, m \in MsgId, size \in PkgSize,
                 cnt \in {0, MaxForward} : Receive(p, s, t, m, size, cnt)
      <4>1. PICK p \in Port, s, t \in HostId, m \in MsgId, size \in PkgSize,
                 cnt \in {0, MaxForward} : Receive(p, s, t, m, size, cnt)
        BY <3>8
      <4>2. UNCHANGED <<ports, handlers, default>>
        BY <4>1 DEF Receive
      <4>. QED  BY <4>2
    <3>. QED  BY <3>1, <3>2, <3>3, <3>4, <3>5, <3>6, <3>7, <3>8 DEF Next
  <2>. QED  BY <2>1, <2>2 DEF Atomic
<1>2. [][Atomic]_vars <=> FailureAtomic
  BY PTL DEF Atomic, FailureAtomic
<1>. QED  BY <1>1, <1>2, HostInv, PTL DEF Spec
-----------------------------------------------------------------------------
(* Types of what a call did, and what keeps a handler from hiding another: *)
(* where the loop over the handlers ends at the first match, a message has *)
(* one handler, since a second one was refused.                            *)
OutcomeTyped ==
  /\ outcome.call \in Calls /\ outcome.ok \in BOOLEAN
  /\ outcome.target \in HostId /\ outcome.size \in Nat
  /\ \A i \in DOMAIN outcome.written : outcome.written[i] \in Port
  /\ \A i \in DOMAIN outcome.called : outcome.called[i] \in Handler

ListsTyped ==
  /\ created \in BOOLEAN
  /\ ports \in Seq(Port)
  /\ handlers \in Seq([msg_id : MsgId, handler : Handler])
  /\ default \in Handler \cup {NoHandler}

OneHandlerEach ==
  MultiHandler => \A i, j \in DOMAIN handlers :
                    handlers[i].msg_id = handlers[j].msg_id => i = j

CallsInv == ListsTyped /\ OutcomeTyped /\ OneHandlerEach

LEMMA DidFacts ==
  ASSUME NEW call \in Calls, NEW ok \in BOOLEAN, NEW t \in HostId, NEW size \in Nat,
         NEW written, NEW called,
         \A i \in DOMAIN written : written[i] \in Port,
         \A i \in DOMAIN called : called[i] \in Handler,
         outcome' = Did(call, ok, t, size, written, called)
  PROVE  OutcomeTyped'
BY DEF OutcomeTyped, Did

\* Nothing was written and nothing called.
LEMMA ReturnedFacts ==
  ASSUME NEW call \in Calls, NEW ok \in BOOLEAN, Returned(call, ok)
  PROVE  OutcomeTyped'
<1>1. Self \in HostId /\ 0 \in Nat
  BY HostAssumption
<1>2. DOMAIN <<>> = {}
  OBVIOUS
<1>. QED  BY <1>1, <1>2, DidFacts DEF Returned

LEMMA WritersFacts ==
  ASSUME NEW list \in Seq(Port), NEW size
  PROVE  \A i \in DOMAIN Writers(list, size) : Writers(list, size)[i] \in Port
BY DEF Writers

LEMMA CalledFacts ==
  ASSUME ListsTyped, NEW m
  PROVE  \A i \in DOMAIN Called(m) : Called(m)[i] \in Handler
<1> DEFINE Record == [msg_id : MsgId, handler : Handler]
<1>0. \A e \in Record : e.handler \in Handler
  OBVIOUS
<1>1. \A i \in DOMAIN handlers : handlers[i].handler \in Handler
  <2>1. handlers \in Seq(Record)
    BY DEF ListsTyped
  <2> HIDE DEF Record
  <2>2. \A i \in DOMAIN handlers : handlers[i] \in Record
    BY <2>1
  <2>. QED  BY <1>0, <2>2
<1>2. CASE HandlersFor(m) # {}
  BY <1>1, <1>2 DEF Called, Reached, HandlersFor
<1>3. CASE HandlersFor(m) = {} /\ default = NoHandler
  BY <1>3 DEF Called
<1>4. CASE HandlersFor(m) = {} /\ default # NoHandler
  <2>1. Called(m) = <<default>> /\ default \in Handler
    BY <1>4 DEF Called, ListsTyped
  <2>2. DOMAIN <<default>> = {1} /\ <<default>>[1] = default
    OBVIOUS
  <2>. QED  BY <2>1, <2>2
<1>. QED  BY <1>2, <1>3, <1>4

LEMMA CallsStart == Init => CallsInv
<1> SUFFICES ASSUME Init PROVE CallsInv
  OBVIOUS
<1>1. ListsTyped
  <2>1. <<>> \in Seq(Port) /\ <<>> \in Seq([msg_id : MsgId, handler : Handler])
    OBVIOUS
  <2>2. created = FALSE /\ ports = <<>> /\ handlers = <<>> /\ default = NoHandler
    BY DEF Init
  <2>. QED  BY <2>1, <2>2 DEF ListsTyped
<1>2. OutcomeTyped
  <2>1. outcome = Did("none", TRUE, Self, 0, <<>>, <<>>)
    BY DEF Init
  <2>2. Self \in HostId /\ 0 \in Nat /\ DOMAIN <<>> = {}
    BY HostAssumption
  <2>. QED  BY <2>1, <2>2 DEF OutcomeTyped, Did, Calls
<1>3. OneHandlerEach
  BY DEF Init, OneHandlerEach
<1>. QED  BY <1>1, <1>2, <1>3 DEF CallsInv

\* A handler in front of the others.
LEMMA HandlerAdded ==
  ASSUME CallsInv, NEW m \in MsgId, NEW f \in Handler, ~Refused(m),
         handlers' = AddElement(handlers, [msg_id |-> m, handler |-> f])
  PROVE  /\ handlers' \in Seq([msg_id : MsgId, handler : Handler])
         /\ OneHandlerEach'
<1> DEFINE Record == [msg_id : MsgId, handler : Handler]
           e == [msg_id |-> m, handler |-> f]
<1>1. e \in Record /\ e.msg_id = m
  OBVIOUS
<1>2. handlers \in Seq(Record)
  BY DEF CallsInv, ListsTyped
<1>3. handlers' \in Seq(Record)
  BY <1>1, <1>2, FrontElement
<1>4. MultiHandler => \A i \in DOMAIN handlers : handlers[i].msg_id # m
  BY DEF Refused, HandlersFor
<1>5. handlers' = <<e>> \o handlers
  BY DEF AddElement
<1> HIDE DEF e, Record
<1>6. /\ Len(handlers') = Len(handlers) + 1
      /\ handlers'[1] = e
      /\ \A i \in 2..Len(handlers') : handlers'[i] = handlers[i - 1]
  BY <1>1, <1>2, <1>5
<1>7. OneHandlerEach'
  <2>1. SUFFICES ASSUME MultiHandler, NEW i \in 1..Len(handlers'), NEW j \in 1..Len(handlers'),
                        handlers'[i].msg_id = handlers'[j].msg_id, i < j
                 PROVE  FALSE
    <3>1. DOMAIN handlers' = 1..Len(handlers')
      BY <1>3
    <3>. QED  BY <3>1 DEF OneHandlerEach
  <2>2. Len(handlers) \in Nat /\ DOMAIN handlers = 1..Len(handlers)
    BY <1>2
  <2>3. j - 1 \in DOMAIN handlers /\ handlers'[j] = handlers[j - 1]
    BY <1>6, <2>1, <2>2
  <2>4. CASE i = 1
    BY <1>1, <1>4, <1>6, <2>1, <2>3, <2>4
  <2>5. CASE i # 1
    <3>1. i - 1 \in DOMAIN handlers /\ handlers'[i] = handlers[i - 1]
      BY <1>6, <2>1, <2>2, <2>5
    <3>2. i - 1 = j - 1
      BY <2>1, <2>3, <3>1 DEF CallsInv, OneHandlerEach
    <3>. QED  BY <2>1, <3>2
  <2>. QED  BY <2>4, <2>5
<1>. QED  BY <1>3, <1>7 DEF Record

LEMMA CallsStep == IInv /\ IInv' /\ CallsInv /\ [Next]_vars => CallsInv'
<1> SUFFICES ASSUME IInv, IInv', CallsInv, [Next]_vars PROVE CallsInv'
  OBVIOUS
<1>1. \A t \in HostId : routes[t].ports \in Seq(Port)
  BY DEF IInv, TablesTyped, Route
<1>2. ASSUME UNCHANGED <<handlers, default>>, created' \in BOOLEAN, ports' \in Seq(Port)
      PROVE  ListsTyped' /\ OneHandlerEach'
  BY <1>2 DEF CallsInv, ListsTyped, OneHandlerEach
<1>3. created \in BOOLEAN /\ ports \in Seq(Port) /\ ListsTyped
  BY DEF CallsInv, ListsTyped
<1>4. CASE Setup
  <2>1. OutcomeTyped'
    BY <1>4, ReturnedFacts DEF Setup, Calls
  <2>. QED  BY <1>2, <1>3, <1>4, <2>1 DEF Setup, tables, CallsInv
<1>5. CASE Create
  <2>1. PICK k \in 0..4 : created' = (k = 4) /\ Returned("create", k = 4)
    BY <1>5 DEF Create
  <2>2. OutcomeTyped'
    BY <2>1, ReturnedFacts DEF Calls
  <2>3. created' \in BOOLEAN
    BY <2>1
  <2>. QED  BY <1>2, <1>3, <1>5, <2>2, <2>3 DEF Create, CallsInv
<1>6. CASE \E p \in Port : AddPort(p)
  <2>1. PICK p \in Port : AddPort(p)
    BY <1>6
  <2>2. PICK n, k : LET ok == k = n /\ BigEnough(p)
                    IN  /\ ports' = IF ok THEN AddElement(ports, p) ELSE ports
                        /\ Returned("add_port", ok)
    BY <2>1 DEF AddPort
  <2>3. OutcomeTyped'
    BY <2>2, ReturnedFacts DEF Calls
  <2>4. ports' \in Seq(Port)
    BY <1>3, <2>2, FrontElement
  <2>. QED  BY <1>2, <1>3, <2>1, <2>3, <2>4 DEF AddPort, CallsInv
<1>7. CASE \E t \in HostId, p \in Port : AddRoute(t, p)
  <2>1. PICK t \in HostId, p \in Port : AddRoute(t, p)
    BY <1>7
  <2>2. PICK k : outcome' = Did("add_route", k = RouteBlocks(t), t, 0, <<>>, <<>>)
    BY <2>1 DEF AddRoute
  <2>3. DOMAIN <<>> = {} /\ 0 \in Nat
    OBVIOUS
  <2>4. OutcomeTyped'
    BY <2>2, <2>3, DidFacts DEF Calls
  <2>. QED  BY <1>2, <1>3, <2>1, <2>4 DEF AddRoute, CallsInv
<1>8. CASE \E m \in MsgId, f \in Handler : AddMsgHandler(m, f)
  <2>1. PICK m \in MsgId, f \in Handler : AddMsgHandler(m, f)
    BY <1>8
  <2>2. PICK k : LET ok == ~Refused(m) /\ k = 3
                 IN  /\ handlers' = IF ok THEN AddElement(handlers, [msg_id |-> m, handler |-> f])
                                    ELSE handlers
                     /\ Returned("add_msg_handler", ok)
    BY <2>1 DEF AddMsgHandler
  <2>3. OutcomeTyped'
    BY <2>2, ReturnedFacts DEF Calls
  <2>4. UNCHANGED <<created, ports, default>>
    BY <2>1 DEF AddMsgHandler
  <2>5. handlers' \in Seq([msg_id : MsgId, handler : Handler]) /\ OneHandlerEach'
    <3>1. CASE ~Refused(m) /\ k = 3
      BY <2>2, <3>1, HandlerAdded
    <3>2. CASE ~(~Refused(m) /\ k = 3)
      BY <2>2, <3>2 DEF CallsInv, ListsTyped, OneHandlerEach
    <3>. QED  BY <3>1, <3>2
  <2>. QED  BY <2>3, <2>4, <2>5 DEF CallsInv, ListsTyped
<1>9. CASE \E f \in Handler : AddDefaultMsgHandler(f)
  <2>1. PICK f \in Handler : AddDefaultMsgHandler(f)
    BY <1>9
  <2>2. OutcomeTyped'
    BY <2>1, ReturnedFacts DEF AddDefaultMsgHandler, Calls
  <2>. QED  BY <2>1, <2>2 DEF AddDefaultMsgHandler, tables, CallsInv, ListsTyped, OneHandlerEach
<1>10. CASE \E t \in HostId, size \in PkgSize : Send(t, size) \/ DirectWrite(t, size)
  <2>1. PICK t \in HostId, size \in PkgSize : Send(t, size) \/ DirectWrite(t, size)
    BY <1>10
  <2>2. size \in Nat /\ DOMAIN <<>> = {}
    BY HostAssumption
  <2>3. \A i \in DOMAIN Writers(routes[t].ports, size) : Writers(routes[t].ports, size)[i] \in Port
    BY <1>1, WritersFacts
  <2>4. \A i \in DOMAIN routes[t].ports : routes[t].ports[i] \in Port
    BY <1>1
  <2>5. routes[t].listed \in BOOLEAN
    BY DEF IInv, TablesTyped, Route
  <2>6. OutcomeTyped'
    <3>1. CASE Send(t, size)
      BY <2>2, <2>3, <2>5, <3>1, DidFacts DEF Send, Calls
    <3>2. CASE DirectWrite(t, size)
      BY <2>2, <2>4, <3>2, DidFacts DEF DirectWrite, Calls
    <3>. QED  BY <2>1, <3>1, <3>2
  <2>7. UNCHANGED <<created, ports, handlers, default>>
    BY <2>1 DEF Send, DirectWrite, tables
  <2>. QED  BY <1>2, <1>3, <2>6, <2>7 DEF CallsInv
<1>11. CASE \E p \in Port, s, t \in HostId, m \in MsgId, size \in PkgSize,
              cnt \in {0, MaxForward} : Receive(p, s, t, m, size, cnt)
  <2>1. PICK p \in Port, s \in HostId, t \in HostId, m \in MsgId, size \in PkgSize,
             cnt \in {0, MaxForward} : Receive(p, s, t, m, size, cnt)
    BY <1>11
  <2>2. PICK after : /\ routes' = Noted(after, s)
                     /\ \A u \in HostId : after[u].ports \in Seq(Port)
                     /\ outcome' = IF t = Self THEN Delivered(m)
                                   ELSE Forwarded(after, t, size, cnt)
    <3>1. PICK k \in 0..6 :
            LET after == IF Learns(s, t) THEN RoutesWith(s, p, k) ELSE routes
            IN  /\ routes' = Noted(after, s)
                /\ outcome' = IF t = Self THEN Delivered(m) ELSE Forwarded(after, t, size, cnt)
      BY <2>1 DEF Receive
    <3> DEFINE after == IF Learns(s, t) THEN RoutesWith(s, p, k) ELSE routes
    <3>2. \A u \in HostId : after[u].ports \in Seq(Port)
      <4>1. CASE Learns(s, t)
        <5>1. k \in 0..RouteBlocks(s) /\ TablesTyped /\ GrantsAreRoutes
          BY <4>1 DEF Learns, RouteBlocks, IInv
        <5>. QED  BY <4>1, <5>1, RoutesWithFacts DEF Route
      <4>2. CASE ~Learns(s, t)
        BY <1>1, <4>2
      <4>. QED  BY <4>1, <4>2
    <3>. QED  BY <3>1, <3>2
  <2>3. size \in Nat /\ DOMAIN <<>> = {} /\ Self \in HostId
    BY HostAssumption
  <2>4. OutcomeTyped'
    <3>1. CASE t = Self
      BY <1>3, <2>2, <2>3, <3>1, CalledFacts, DidFacts DEF Delivered, Calls
    <3>2. CASE t # Self /\ cnt < MaxForward
      <4>1. \A i \in DOMAIN Writers(after[t].ports, size) : Writers(after[t].ports, size)[i] \in Port
        BY <2>2, WritersFacts
      <4>. QED  BY <2>2, <2>3, <3>2, <4>1, DidFacts DEF Forwarded, Calls
    <3>3. CASE t # Self /\ ~(cnt < MaxForward)
      BY <2>2, <2>3, <3>3, DidFacts DEF Forwarded, Calls
    <3>. QED  BY <3>1, <3>2, <3>3
  <2>5. UNCHANGED <<created, ports, handlers, default>>
    BY <2>1 DEF Receive
  <2>. QED  BY <1>2, <1>3, <2>4, <2>5 DEF CallsInv
<1>12. CASE UNCHANGED vars
  BY <1>12 DEF vars, tables, CallsInv, ListsTyped, OutcomeTyped, OneHandlerEach
<1>. QED  BY <1>4, <1>5, <1>6, <1>7, <1>8, <1>9, <1>10, <1>11, <1>12 DEF Next

LEMMA CallsKept == Spec => []CallsInv
BY CallsStart, CallsStep, HostInv, PTL DEF Spec

(* The tables and what each call does with them have their types: no place *)
(* of a list that a send, a forward or a dispatch goes through names       *)
(* anything but a port or a handler, the default one included.             *)
THEOREM HostTypes == Spec => []TypeOK
<1>1. IInv /\ CallsInv => TypeOK
  BY DEF IInv, CallsInv, TablesTyped, ListsTyped, OutcomeTyped, TypeOK
<1>. QED  BY <1>1, HostInv, CallsKept, PTL

(* A handler whose registration returned 0 is called for its message: the  *)
(* loop may end at the first match because a second one was refused.       *)
THEOREM HostShadowsNone == Spec => []NoHandlerShadowed
<1>1. CallsInv => NoHandlerShadowed
  <2>1. SUFFICES ASSUME CallsInv, NEW i \in DOMAIN handlers
                 PROVE  LET called == Called(handlers[i].msg_id)
                        IN  \E j \in DOMAIN called : called[j] = handlers[i].handler
    BY DEF NoHandlerShadowed
  <2> DEFINE found == HandlersFor(handlers[i].msg_id)
  <2>2. i \in found /\ found \subseteq DOMAIN handlers
    BY DEF HandlersFor
  <2>3. i \in Reached(found)
    <3>1. MultiHandler => \A j \in found : j = i
      BY <2>1 DEF CallsInv, OneHandlerEach, HandlersFor
    <3>2. i <= i
      BY <2>1 DEF CallsInv, ListsTyped
    <3>. QED  BY <2>2, <3>1, <3>2 DEF Reached
  <2>4. Called(handlers[i].msg_id) = [j \in Reached(found) |-> handlers[j].handler]
    BY <2>2 DEF Called
  <2>. QED  BY <2>3, <2>4
<1>. QED  BY <1>1, CallsKept, PTL
=============================================================================
