----------------------------- MODULE MCRecovery -----------------------------
(***************************************************************************)
(* The two places where an interrupted embedding task is taken up again,   *)
(* for TLC: on the host's disk (TaskRecovery) and by the Pods that work    *)
(* one after the other on a volume (RunpodWorker).  They share nothing, so *)
(* a behaviour is one of either.                                           *)
(***************************************************************************)
EXTENDS TaskRecovery

CONSTANTS AssignmentCount, TaskCount, Attempts, MaxPodFaults

VARIABLES
    place,
    part, vreceipt, report, query, marker, failed,
    wpc, launch, at, task, hand, outputs, faults

pod_vars == << part, vreceipt, report, query, marker, failed, wpc, launch, at, task, hand,
               outputs, faults >>

Worker ==
    INSTANCE RunpodWorker
    WITH Pods <- {"p"}, None <- NoFile, MaxFaults <- MaxPodFaults,
         receipt <- vreceipt, pc <- wpc

\* embed-tei has more to vary: two execution identities and no reuse without a report.
TaskFaults == [b \in Backends |-> IF b = "tei" THEN 2 ELSE 3]

RecoveryInit == place \in {"host", "pod"} /\ Init /\ Worker!Init

RecoveryNext ==
    /\ UNCHANGED place
    /\ \/ place = "host" /\ Next /\ UNCHANGED pod_vars
       \/ place = "pod" /\ Worker!Next /\ UNCHANGED vars

RecoverySpec ==
    /\ RecoveryInit /\ [][RecoveryNext]_<< place, vars, pod_vars >>
    /\ WF_vars(place = "host" /\ Step)
    /\ SF_vars(place = "host" /\ Execute /\ pc' = "seal_receipt")
    /\ \A c \in Commands \cap {"embed", "quarantine"} : SF_vars(place = "host" /\ Start(c))
    /\ WF_pod_vars(place = "pod" /\ Worker!Step("p"))
    /\ SF_pod_vars(place = "pod" /\ Worker!Launch("p"))
    /\ SF_pod_vars(place = "pod" /\ Worker!Reembeds("p"))

\* The operator also keeps running the restore action.
RestoringSpec == RecoverySpec /\ SF_vars(place = "host" /\ Start("restore"))

\* Module TaskRecovery: once kills end, embed and quarantine complete the task.
HostConverges == place = "host" => Converges

\* Module TaskRecovery: "every interrupted state has a safe restart or quarantine path".
EveryTaskRestarts == place = "host" => EveryTaskConverges

\* Module RunpodWorker: once faults end, Pods complete every assignment, also over
\* parts that a dead Pod left and that a later one first embeds with other bytes,
\* unless one died between the receipt and the report of a task.
PodsRecover == place = "pod" => Worker!RecoversUnlessHalfPublished
=============================================================================
