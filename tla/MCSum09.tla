-------------------------------- MODULE MCSum09 --------------------------------
(* An instance of Sum09 for TLC: two hosts, the loads around every threshold,  *)
(* and up to three memory lines in any order.                                  *)
EXTENDS Sum09

CONSTANTS r1, r2, nada

Cargas == {nada, 0, 30, 31, 60, 61, 90, 91, 95, 96, 100}
LinhasCpu == [host : {r1, r2}, t : {1}, cpu5 : Cargas]
LinhasMem == [host : {r1, r2}, t : {2}, pct : {10}]
               \cup [host : {r1}, t : {3}, pct : {20}]
===============================================================================
