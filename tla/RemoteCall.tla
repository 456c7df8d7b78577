------------------------------ MODULE RemoteCall -----------------------------
(***************************************************************************)
(* What smp_group_function_call promises: when it returns, every other CPU *)
(* that was online when its turn came has run the function exactly once,   *)
(* with exactly the caller's function and arguments.  A function is run    *)
(* only by Run, and every Run flips a bit of the CPU it happens on, so that*)
(* running a function again, with whatever arguments, is never a           *)
(* stuttering step of this specification.                                  *)
(***************************************************************************)
EXTENDS Naturals

CONSTANTS NR_CPUS,  \* number of processors
          Calls,    \* the (function, arg0, arg1) triples that are passed
          Nil       \* "no call"

CPUs == 0..(NR_CPUS - 1)
Slots == {"FN", "ARG0", "ARG1"}

VARIABLES online,   \* the CPUs that take calls
          call,     \* call[c]: the call c is inside of, or Nil
          left,     \* left[c]: the CPUs that have not yet run c's call
          ran       \* ran[c]: what the last function run on c was given, and
                    \* whether the number of functions run on c is odd

rvars == <<online, call, left, ran>>

Init == /\ online = {0}
        /\ call = [c \in CPUs |-> Nil]
        /\ left = [c \in CPUs |-> {}]
        /\ ran = [c \in CPUs |-> [given |-> [s \in Slots |-> Nil], odd |-> FALSE]]

Online(c) == /\ online' = online \cup {c}
             /\ UNCHANGED <<call, left, ran>>

Begin(c, v) == /\ call[c] = Nil
               /\ call' = [call EXCEPT ![c] = v]
               /\ left' = [left EXCEPT ![c] = CPUs \ {c}]
               /\ UNCHANGED <<online, ran>>

\* A CPU that is not online is left out of the call.
Skip(c, t) == /\ t \in left[c] \ online
              /\ left' = [left EXCEPT ![c] = @ \ {t}]
              /\ UNCHANGED <<online, call, ran>>

\* CPU t runs c's function: all of it, and not if it has run it already.
Run(c, t) == /\ t \in left[c]
             /\ left' = [left EXCEPT ![c] = @ \ {t}]
             /\ ran' = [ran EXCEPT ![t] = [given |-> [s \in Slots |-> call[c]],
                                           odd |-> ~ran[t].odd]]
             /\ UNCHANGED <<online, call>>

End(c) == /\ call[c] # Nil
          /\ left[c] = {}
          /\ call' = [call EXCEPT ![c] = Nil]
          /\ UNCHANGED <<online, left, ran>>

Next == \E c \in CPUs : \/ Online(c)
                        \/ \E v \in Calls : Begin(c, v)
                        \/ \E t \in CPUs : Skip(c, t) \/ Run(c, t)
                        \/ End(c)

Spec == Init /\ [][Next]_rvars
==============================================================================
