------------------------------ MODULE RunLoop ------------------------------
(***************************************************************************)
(* nano_net_run when handlers run the host again or add ports.  A list has *)
(* one iterator (nano_net_list.c), so all runs in progress share it: a run *)
(* inside another leaves the iterator at the end, and the outer one stops  *)
(* after the port it is at.                                                *)
(*                                                                         *)
(* The nodes of port_handle_list are numbered from the end, the first one  *)
(* being number list_head: the node after n is n - 1, and 0 is NULL.       *)
(***************************************************************************)
EXTENDS Integers, Sequences

CONSTANTS
  InitPorts,   \* ports added before the host runs
  MaxPorts,    \* bound on the ports
  MaxRuns,     \* bound on the calls of nano_net_run
  MaxDepth     \* bound on the runs in progress

ASSUME RunAssumption ==
  /\ InitPorts \in Nat /\ MaxPorts \in Nat
  /\ MaxRuns \in Nat /\ MaxDepth \in Nat

VARIABLES
  list_head,   \* list->head
  iterator,    \* list->iterator.node
  loops,       \* the runs in progress, outermost first: [at: the port that is
               \* being unpacked, 0 after the last, due: the head when the run
               \* began, seen: the ports unpacked since]
  runs         \* calls of nano_net_run so far

runVars == <<list_head, iterator, loops, runs>>

LoopInit ==
  /\ list_head = InitPorts
  /\ iterator = 0
  /\ loops = <<>>
  /\ runs = 0

\* Mutant: the node is not tested for NULL.
Following_NoTest(n) == n - 1

\* Where the iterator stands after nano_net_list_iterator_get_element has
\* returned node n.
Following(n) == IF n = 0 THEN 0 ELSE n - 1

Unpacked(n) == IF n = 0 THEN {} ELSE {n}

\* Every run in progress has n unpacked.
Witnessed(n) ==
  [i \in DOMAIN loops |-> [loops[i] EXCEPT !.seen = @ \cup Unpacked(n)]]

\* The application's own call, or one from a handler called in the midst of a
\* port's unpacking.
MayRun == loops # <<>> => loops[Len(loops)].at # 0

\* Mutant: the iterator is not reset while another run is in progress.
RunBegins_OnlyOutermostResets ==
  LET first == IF loops = <<>> THEN list_head ELSE iterator
  IN  /\ MayRun
      /\ runs < MaxRuns /\ Len(loops) < MaxDepth
      /\ runs' = runs + 1
      /\ iterator' = Following(first)
      /\ loops' = Append(Witnessed(first),
                         [at |-> first, due |-> list_head,
                          seen |-> Unpacked(first)])
      /\ UNCHANGED list_head

\* nano_net_run up to the first port: foreach_nano_net_list resets the
\* iterator and gets the first element.
RunBegins ==
  /\ MayRun
  /\ runs < MaxRuns /\ Len(loops) < MaxDepth
  /\ runs' = runs + 1
  /\ iterator' = Following(list_head)
  /\ loops' = Append(Witnessed(list_head),
                     [at |-> list_head, due |-> list_head,
                      seen |-> Unpacked(list_head)])
  /\ UNCHANGED list_head

\* The innermost run has unpacked a port and gets the next element.
RunContinues ==
  /\ loops # <<>> /\ loops[Len(loops)].at # 0
  /\ iterator' = Following(iterator)
  /\ loops' = [Witnessed(iterator) EXCEPT ![Len(loops)].at = iterator]
  /\ UNCHANGED <<list_head, runs>>

\* There was no next element: the run returns.
RunReturns ==
  /\ loops # <<>> /\ loops[Len(loops)].at = 0
  /\ loops' = SubSeq(loops, 1, Len(loops) - 1)
  /\ UNCHANGED <<list_head, iterator, runs>>

\* nano_net_add_port, from a handler or between runs: in front of the list.
AddPort ==
  /\ MayRun
  /\ list_head < MaxPorts
  /\ list_head' = list_head + 1
  /\ UNCHANGED <<iterator, loops, runs>>

LoopNext == RunBegins \/ RunContinues \/ RunReturns \/ AddPort

LoopSpec == LoopInit /\ [][LoopNext]_runVars

-----------------------------------------------------------------------------
Loop == [at : Nat, due : Nat, seen : SUBSET Nat]

LoopTypeOK ==
  /\ list_head \in Nat /\ runs \in Nat
  /\ iterator \in 0..list_head
  /\ loops \in Seq(Loop)

(* When a run returns, every port that was there when it began has been    *)
(* unpacked since, if not by itself then by a run inside it: sharing the   *)
(* iterator cuts loops short but starves no port, at any depth, with ports *)
(* added meanwhile.                                                        *)
NoPortStarved ==
  [][RunReturns => 1..loops[Len(loops)].due \subseteq loops[Len(loops)].seen]_runVars
=============================================================================
