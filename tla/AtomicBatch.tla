---------------------------- MODULE AtomicBatch ----------------------------
(***************************************************************************)
(* What a call that creates machines promises its caller: the machines it  *)
(* was asked for come into being together, complete, at the moment the     *)
(* call succeeds; a call that fails brings none.  How the promise is kept, *)
(* and what a failure leaves on disk, is MachineCreation's business.       *)
(***************************************************************************)
CONSTANT Machine

VARIABLES
    asked,      \* the machines of the call
    machines,   \* recorded machines that can be powered on
    answer

Init == asked = {} /\ machines = {} /\ answer = "none"

Ask ==
    /\ answer = "none"
    /\ asked' \in (SUBSET Machine) \ {{}}
    /\ answer' = "pending"
    /\ UNCHANGED machines

Succeed ==
    /\ answer = "pending"
    /\ machines' = asked
    /\ answer' = "success"
    /\ UNCHANGED asked

Fail ==
    /\ answer = "pending"
    /\ answer' = "failure"
    /\ UNCHANGED <<asked, machines>>

Spec == Init /\ [][Ask \/ Succeed \/ Fail]_<<asked, machines, answer>>
=============================================================================
