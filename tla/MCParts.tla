------------------------------ MODULE MCParts ------------------------------
(***************************************************************************)
(* The parts below the host that do not touch each other: the checksum,    *)
(* pack(), the pool, the ring buffer, the loop over the port list, and the *)
(* read loop of a port, with a driver that may receive without end.  Every *)
(* behaviour is one of a single part; the others stay as they begin.       *)
(***************************************************************************)
EXTENDS MCCrc16, MCPackBatch, MCHeap, RingBuf, RunLoop, Port

VARIABLE part

partVars == <<part, fed, pkgs, heapVars, ringVars, runVars, vars>>

SomeByte == CHOOSE b \in RingByte : TRUE

PartsInit ==
  /\ part \in {"crc", "pack", "heap", "ring", "loop", "port"}
  /\ IF part = "crc" THEN CrcInit ELSE fed = <<>>
  /\ PackInit /\ HeapUnset /\ RingInit /\ LoopInit /\ Init
  /\ part # "ring" => buffer = [i \in Index |-> SomeByte]

CrcPart ==
  /\ part = "crc" /\ CrcNext
  /\ UNCHANGED <<part, pkgs, heapVars, ringVars, runVars, vars>>

PackPart ==
  /\ part = "pack" /\ PackNext
  /\ UNCHANGED <<part, fed, heapVars, ringVars, runVars, vars>>

HeapPart ==
  /\ part = "heap" /\ HeapNext
  /\ UNCHANGED <<part, fed, pkgs, ringVars, runVars, vars>>

RingPart ==
  /\ part = "ring" /\ RingNext
  /\ UNCHANGED <<part, fed, pkgs, heapVars, runVars, vars>>

LoopPart ==
  /\ part = "loop" /\ LoopNext
  /\ UNCHANGED <<part, fed, pkgs, heapVars, ringVars, vars>>

PortPart(A) ==
  /\ part = "port" /\ A
  /\ UNCHANGED <<part, fed, pkgs, heapVars, ringVars, runVars>>

PartsNext == CrcPart \/ PackPart \/ HeapPart \/ RingPart \/ LoopPart \/ PortPart(Next)

(* As in Port: nano_net_run is called in a loop, and its code does not     *)
(* block.                                                                  *)
PartsSpec ==
  /\ PartsInit /\ [][PartsNext]_partVars
  /\ WF_partVars(PortPart(Run)) /\ WF_partVars(PortPart(Running))
=============================================================================
