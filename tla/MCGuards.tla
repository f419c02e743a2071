------------------------------ MODULE MCGuards ------------------------------
(***************************************************************************)
(* The breaker in front of the backends and the gate in front of the       *)
(* application, each on a small instance.  All the gate learns of the      *)
(* breakers is which are not closed, and Admission lets that be anything   *)
(* at any time; so a behaviour is one of the breaker or one of the gate,   *)
(* and the other stays in its initial state.                               *)
(***************************************************************************)
EXTENDS CircuitBreaker, Admission

VARIABLE part   \* whose behaviour this is; never changes

GuardsInit ==
    /\ part \in {"breaker", "gate"}
    /\ Init /\ (part = "gate" => backend = "cache")
    /\ AdmissionInit /\ (part = "breaker" => port = "python")

GuardsNext ==
    \/ part = "breaker" /\ Next /\ UNCHANGED <<part, admissionVars>>
    \/ part = "gate" /\ AdmissionNext /\ UNCHANGED <<part, vars>>

\* The fairness of FairSpec and of AdmissionFairSpec, each in its own part.
GuardsFairSpec ==
    /\ GuardsInit /\ [][GuardsNext]_<<part, vars, admissionVars>>
    /\ WF_vars(part = "breaker" /\ Second)
    /\ \A t \in Threads : WF_vars(part = "breaker" /\ Thread(t))
    /\ WF_admissionVars(part = "gate" /\ AdmissionSecond)
    /\ WF_admissionVars(part = "gate" /\ Arrive)
    /\ \A r \in Reqs : WF_admissionVars(part = "gate" /\ Finish(r))
=============================================================================
