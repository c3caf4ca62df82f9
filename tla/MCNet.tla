------------------------------- MODULE MCNet -------------------------------
(***************************************************************************)
(* A ring of three hosts for Net, A - B - C - A, whose routes to an absent *)
(* D go round in a circle and to which the application adds more later on. *)
(***************************************************************************)
EXTENDS Net, TLC

CONSTANTS A, B, C, D, a, b1, b2, c1, c2, d

RingHosts == {A, B, C, D}
RingPorts == {a, b1, b2, c1, c2, d}
RingOwner == (d :> A) @@ (a :> A) @@ (b1 :> B) @@ (b2 :> B) @@ (c1 :> C) @@ (c2 :> C)
RingPeers == (a :> {b1}) @@ (b1 :> {a}) @@ (b2 :> {c1}) @@ (c1 :> {b2}) @@
             (c2 :> {d}) @@ (d :> {c2})
Around == {<<A, D, a>>, <<B, D, b2>>, <<C, D, c2>>, <<A, C, a>>, <<B, C, b2>>}
ShortCut == {<<A, C, d>>, <<C, D, c1>>}
RingTalk == {<<A, D>>, <<A, C>>}
RingByPort == {<<A, D, d>>}

None == {}
=============================================================================
