-------------------------------- MODULE Pool --------------------------------
(***************************************************************************)
(* What the rest of nano_net may rely on about its memory                  *)
(* (nano_net_ll_heap_malloc): before nano_net_init nothing is handed out,  *)
(* then every request is served until one is refused, and from then on     *)
(* every request is refused, since nothing is ever given back.  Heap shows *)
(* that the pool does so; HostTables builds on it.                         *)
(***************************************************************************)
EXTENDS Naturals

VARIABLE phase   \* "full" once a request has been refused

Phases == {"unset", "open", "full"}

Init == phase = "unset"

\* nano_net_init: only the first call counts.
Setup ==
  /\ phase = "unset"
  /\ phase' = "open"

\* n requests in a row, of which the first k are served: the code stops
\* asking at the first refusal.
Take(n, k) ==
  /\ k \in 0..n
  /\ phase # "open" => k = 0
  /\ phase' = IF phase = "open" /\ k < n THEN "full" ELSE phase
=============================================================================
