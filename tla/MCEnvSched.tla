----------------------------- MODULE MCEnvSched ------------------------------
(* Workloads for module EnvSched. *)
EXTENDS EnvSched

\* The first env is pinned to CPU 0, as fs_serv is, or none is.
PinFirst == [e \in Envs |-> IF e = 1 THEN 0 ELSE NoCPU]
NoPins == [e \in Envs |-> NoCPU]
\* The second env has two time slices in a row.
TwoSlices == [e \in Envs |-> IF e = 2 THEN 2 ELSE 1]
OneSlice == [e \in Envs |-> 1]

\* Who makes which system calls; env 1 is the parent, or the server.
OnlyYield == [e \in Envs |-> {"yield"}]
Lifecycle == [e \in Envs |-> {"yield", "exofork", "setstatus", "destroy"}]
SendRecv == [e \in Envs |-> {"recv", "send"}]
Server == [e \in Envs |-> IF e = 1 THEN {"recv"} ELSE {"send"}]
Kills == [e \in Envs |-> IF e = 1 THEN {"exofork", "start", "destroy"} ELSE {"yield", "destroy"}]
WakesReceiver == [e \in Envs |-> IF e = 1 THEN {"exofork", "setstatus", "send"} ELSE {"recv"}]
\* Env 1 destroys its child, env 3, to which env 2 sends.
SendsToVictim == [e \in Envs |-> CASE e = 1 -> {"exofork", "start", "destroy"}
                                   [] e = 2 -> {"send"}
                                   [] OTHER -> {"recv"}]

\* All exoforks are over before the first destroy: env_alloc, which holds no lock,
\* does not meet env_free on the other CPU.
CreateFirst == \A c \in CPUs : cpu[c].pc = "user" /\ cpu'[c].pc = "destroy"
                  => next_id = MaxId /\ \A d \in CPUs : cpu[d].pc \notin {"alloc", "take"}
==============================================================================
