-------------------------------- MODULE MCIpi --------------------------------
(* Workloads for module Ipi. *)
EXTENDS Ipi

CONSTANTS v1, v2, nest   \* calls

\* Every CPU makes calls of its own.
AllCall == [c \in CPUs |-> Calls]

\* tests/lab6_3: CPU 0 calls a function that makes CPU 1 call back.
CallBack == [c \in CPUs |-> IF c = 0 THEN Calls ELSE {}]
==============================================================================
