----------------------------- MODULE MCNetPath -----------------------------
(***************************************************************************)
(* A line of four hosts for NetPath, A - B - C - D, in which only the      *)
(* routes towards D are configured and those back are learned.             *)
(***************************************************************************)
EXTENDS NetPath, TLC

CONSTANTS A, B, C, D, a, b1, b2, c1, c2, d

LineHosts == {A, B, C, D}
LinePorts == {a, b1, b2, c1, c2, d}
LineOwner == (a :> A) @@ (b1 :> B) @@ (b2 :> B) @@ (c1 :> C) @@ (c2 :> C) @@ (d :> D)
LinePeers == (a :> {b1}) @@ (b1 :> {a}) @@ (b2 :> {c1}) @@ (c1 :> {b2}) @@
             (c2 :> {d}) @@ (d :> {c2})
TowardsD == {<<A, C, a>>, <<A, D, a>>, <<B, C, b2>>, <<B, D, b2>>, <<C, D, c2>>}
LineTalk == {<<A, C>>, <<A, D>>, <<B, D>>, <<D, A>>}
LineByPort == {<<A, D, a>>, <<D, A, d>>, <<C, A, c1>>}

LineBehind == (a :> {B, C, D}) @@ (b1 :> {A}) @@ (b2 :> {C, D}) @@ (c1 :> {A, B}) @@
              (c2 :> {D}) @@ (d :> {A, B, C})
Place == (A :> 0) @@ (B :> 1) @@ (C :> 2) @@ (D :> 3)
LineDistance ==
  [h \in LineHosts |-> [t \in LineHosts |->
     IF Place[h] < Place[t] THEN Place[t] - Place[h] ELSE Place[h] - Place[t]]]

None == {}
=============================================================================
