--------------------------------- MODULE MCCpu ---------------------------------
(* Instances of Cpu for TLC: up to three routers, r1 to r3, an unanswered       *)
(* request nr and a measurement v1.                                            *)
EXTENDS Cpu, TLC

CONSTANTS r1, r2, r3, nr, v1

UmHost == <<r1>>
\* r3 is in the list and belongs to neither domain; r2 may stop the collector.
ComFalha == <<r3, r1, r2>>
===============================================================================
