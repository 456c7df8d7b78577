-------------------------------- MODULE Mutex --------------------------------
(***************************************************************************)
(* What a spinlock promises its callers: a CPU that asks for the lock      *)
(* (spin_lock) comes back holding it, at most one CPU holds it, and only   *)
(* its holder gives it back (spin_unlock).  This is the view of            *)
(* env_sched_lock, pmap_lock, asid_lock, console_lock and                  *)
(* ipi_mailbox_lock[] that the other modules of the project use.           *)
(***************************************************************************)
CONSTANTS CPUs,     \* the processors that use the lock
          NoCPU     \* "nobody holds the lock"

VARIABLES holder,   \* the CPU between spin_lock and spin_unlock, or NoCPU
          waiting   \* the CPUs inside spin_lock

mvars == <<holder, waiting>>

Init == /\ holder = NoCPU
        /\ waiting = {}

Request(c) == /\ c \notin waiting
              /\ holder # c
              /\ waiting' = waiting \cup {c}
              /\ UNCHANGED holder

Acquire(c) == /\ c \in waiting
              /\ holder = NoCPU
              /\ holder' = c
              /\ waiting' = waiting \ {c}

Release(c) == /\ holder = c
              /\ holder' = NoCPU
              /\ UNCHANGED waiting

Next == \E c \in CPUs : Request(c) \/ Acquire(c) \/ Release(c)

Spec == Init /\ [][Next]_mvars
==============================================================================
