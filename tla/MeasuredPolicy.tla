--------------------------- MODULE MeasuredPolicy ---------------------------
(***************************************************************************)
(* The sealed embedding policy and the measurements behind it              *)
(* (rag-pipeline/src/runpod_conformance.rs): what a policy vouches for.    *)
(* Module Conformance says how candidates are measured and policies        *)
(* sealed.                                                                 *)
(***************************************************************************)

CONSTANT
    Templates    \* candidate templates with their input roots

VARIABLES
    policy,      \* the sealed policy, <<>> before
    executions   \* history: what was measured

Candidate(c) == Templates[c].candidate

(***************************************************************************)
(* A sealed policy was measured: two different Pods, in two different      *)
(* runs, computed the vectors whose digest it carries, both for the        *)
(* candidate it names, whose engine limits are the policy's.  This holds   *)
(* although a Pod may read the observation an earlier Pod of its run left, *)
(* run twice, or share a prefix with the other one                         *)
(* (seal_conformance_policy, conformance).                                 *)
(***************************************************************************)
PolicyMeasured ==
    \A k \in DOMAIN policy :
        LET p == policy[k]
            measured == {e \in executions : /\ e.candidate = p.conformance.candidate
                                            /\ e.output = p.conformance.output}
        IN  /\ \E a, b \in measured : a.pod # b.pod /\ a.run # b.run
            /\ LET c == Candidate(p.conformance.candidate)
               IN  p.batch = c.execution.batch /\ p.batch_tokens = c.execution.batch_tokens
=============================================================================
