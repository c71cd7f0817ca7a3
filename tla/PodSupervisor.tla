--------------------------- MODULE PodSupervisor ---------------------------
(***************************************************************************)
(* `rag runpod pod create` and its conformance twin                        *)
(* (rag-builder/src/runpod_cli.rs, run_pod, conformance_pod_create and     *)
(* supervise_pod; runpod_control.rs, the control-plane client): schedule   *)
(* one Pod with a deletion deadline, admit it, watch the volume and the    *)
(* Pod under a runtime and a cost limit, delete it, and leave three        *)
(* receipts.  The conformance command watches no failure key.  Records of  *)
(* an earlier attempt may be on the volume already.                        *)
(*                                                                         *)
(* Every call to the control plane or to the volume may fail, may take     *)
(* effect although its answer is lost, and takes up to MaxCall ticks.      *)
(* The platform starts, stops and at the requested deadline deletes the    *)
(* Pod; the worker in it publishes a marker or a failure record.  The host *)
(* may be killed.  The cost limit is the tick at which the returned price  *)
(* has used up the total.                                                  *)
(***************************************************************************)
EXTENDS Integers, FiniteSetsExt

CONSTANTS
    RuntimeLimit,    \* maximum_runtime_seconds
    CostLimit,       \* tick at which maximum_total_compute_usd is spent
    AdmissionLimit,  \* the 180 seconds of admit_scheduled_pod
    PollInterval,    \* the 5 seconds of supervise_pod
    MaxCall,         \* bound: ticks that one call takes
    MaxDeletes,      \* attempts of delete_pod_with_retries
    MaxErrors        \* bound: failed calls and writes

ASSUME SupervisorAssumption ==
    /\ RuntimeLimit \in Nat \ {0} /\ CostLimit \in Nat \ {0}
    /\ AdmissionLimit \in Nat /\ PollInterval \in Nat \ {0}
    /\ MaxCall \in Nat /\ MaxDeletes \in Nat \ {0} /\ MaxErrors \in Nat

VARIABLES
    command,    \* "worker" or "conformance"
    pod,        \* the Pod on the platform
    completion, \* completion marker of the last assignment on the volume
    failure,    \* failed.json of the attempt on the volume
    clock,      \* ticks since the host's `started`
    host_pc,    \* step of the host
    since,      \* clock at the start of admission, then of supervision
    observed,   \* clock at the top of the supervision loop
    outcome,    \* outcome of supervision, "none" outside it
    tries,      \* delete calls so far
    cleanup,    \* what the host says of the deletion
    receipts,   \* receipts written: schedule, launch, out
    result,     \* how the command returned
    leak,       \* why the host may have left a Pod behind
    errors

host == << command, host_pc, since, observed, outcome, tries, cleanup, receipts, result, leak >>
supervisor_vars == << pod, completion, failure, clock, host, errors >>

Alive == pod \in {"created", "running", "exited"}
Limit == Min({RuntimeLimit, CostLimit})

SupervisorInit ==
    /\ command \in {"worker", "conformance"}
    /\ pod = "none"
    /\ completion \in BOOLEAN       \* an earlier attempt may have completed the range
    /\ failure \in {FALSE, command = "worker"}
    /\ clock = 0
    /\ host_pc = "schedule"
    /\ since = 0
    /\ observed = 0
    /\ outcome = "none"
    /\ tries = 0
    /\ cleanup = "none"
    /\ receipts = {}
    /\ result = "none"
    /\ leak = {}
    /\ errors = 0

-----------------------------------------------------------------------------
(* Moves of the host.                                                      *)

Call == clock' \in clock .. clock + MaxCall

Error == errors < MaxErrors /\ errors' = errors + 1

GoOn(step) ==
    /\ host_pc' = step
    /\ UNCHANGED << command, since, observed, outcome, tries, cleanup, receipts, result, leak >>

\* Return an error, for a reason that may leave the Pod alive.
Abandon(reasons) ==
    /\ host_pc' = "ended"
    /\ result' = "error"
    /\ leak' = leak \cup reasons
    /\ UNCHANGED << command, since, observed, outcome, tries, cleanup, receipts >>

Write(r, step) ==
    /\ host_pc' = step
    /\ receipts' = receipts \cup {r}
    /\ UNCHANGED << command, since, observed, outcome, tries, cleanup, result, leak >>

\* supervise_pod leaves its loop.
Break(o) ==
    /\ host_pc' = "delete"
    /\ outcome' = o
    /\ UNCHANGED << command, since, observed, tries, cleanup, receipts, result, leak >>

-----------------------------------------------------------------------------
(* Scheduling.                                                             *)

Schedule ==
    /\ host_pc = "schedule"
    /\ Call
    /\ pod' = "created"
    /\ GoOn("write_create")
    /\ UNCHANGED << completion, failure, errors >>

(* The request is refused or lost, or the answer is.                       *)
ScheduleFails ==
    /\ host_pc = "schedule"
    /\ Call
    /\ Error
    /\ \/ UNCHANGED pod /\ Abandon({})
       \/ pod' = "created" /\ Abandon({"answer_lost"})
    /\ UNCHANGED << completion, failure >>

(* The schedule receipt; without it the Pod is deleted.                    *)
WriteCreate ==
    /\ host_pc = "write_create"
    /\ \/ Write("schedule", "hash_create") /\ UNCHANGED errors
       \/ Error /\ GoOn("delete")
    /\ UNCHANGED << pod, completion, failure, clock >>

(* object_for_file reads the receipt back; an error returns at once.       *)
HashCreate ==
    /\ host_pc = "hash_create"
    /\ \/ /\ host_pc' = "admit"
          /\ since' = clock
          /\ UNCHANGED << command, observed, outcome, tries, cleanup, receipts, result,
                          leak, errors >>
       \/ Error /\ Abandon({"file_unreadable"})
    /\ UNCHANGED << pod, completion, failure, clock >>

-----------------------------------------------------------------------------
(* admit_scheduled_pod.                                                    *)

(* The Pod runs and is what was requested.                                 *)
Admit ==
    /\ host_pc = "admit"
    /\ pod = "running"
    /\ Call
    /\ GoOn("write_launch")
    /\ UNCHANGED << pod, completion, failure, errors >>

(* A Pod that has ended, or is not what was requested, is rejected.        *)
AdmitRejects ==
    /\ host_pc = "admit"
    /\ Call
    /\ \/ pod = "exited" /\ UNCHANGED errors
       \/ pod = "running" /\ Error
    /\ GoOn("admit_delete")
    /\ UNCHANGED << pod, completion, failure >>

(* The call fails or its answer is malformed.                              *)
AdmitFails ==
    /\ host_pc = "admit"
    /\ Call
    /\ Error
    /\ GoOn("admit_discard")
    /\ UNCHANGED << pod, completion, failure >>

(* 404 or CREATED: wait, up to the admission limit.                        *)
AdmitWaits ==
    /\ host_pc = "admit"
    /\ pod \in {"created", "gone"}
    /\ Call
    /\ GoOn(IF clock' - since >= AdmissionLimit THEN "admit_delete" ELSE "admit_sleep")
    /\ UNCHANGED << pod, completion, failure, errors >>

AdmitSleeps ==
    /\ host_pc = "admit_sleep"
    /\ clock' = clock + 1
    /\ GoOn("admit")
    /\ UNCHANGED << pod, completion, failure, errors >>

(* Admission deletes with a single call and takes any error, 404 too, for  *)
(* a failed cleanup; after a failed status call it says nothing of it.     *)
AdmitDelete ==
    /\ host_pc \in {"admit_delete", "admit_discard"}
    /\ Call
    /\ tries' = tries + 1
    /\ \E answer \in {"succeeded", "failed"} :
        /\ \/ Alive /\ answer = "succeeded" /\ pod' = "gone" /\ UNCHANGED << leak, errors >>
           \/ ~ Alive /\ answer = "failed" /\ UNCHANGED << pod, leak, errors >>
           \/ /\ Error
              /\ answer = "failed"
              /\ pod' \in {pod, "gone"}
              /\ leak' = leak \cup {"delete_failed"}
        /\ cleanup' = IF host_pc = "admit_delete" THEN answer ELSE "none"
    /\ host_pc' = "ended"
    /\ result' = "error"
    /\ UNCHANGED << completion, failure, command, since, observed, outcome, receipts >>

-----------------------------------------------------------------------------
(* The launch receipt and the worker's observation.                        *)

WriteLaunch ==
    /\ host_pc = "write_launch"
    /\ \/ Write("launch", "hash_launch") /\ UNCHANGED errors
       \/ Error /\ GoOn("delete")
    /\ UNCHANGED << pod, completion, failure, clock >>

HashLaunch ==
    /\ host_pc = "hash_launch"
    /\ \/ GoOn("stage") /\ UNCHANGED errors
       \/ Error /\ Abandon({"file_unreadable"})
    /\ UNCHANGED << pod, completion, failure, clock >>

StageObservation ==
    /\ host_pc = "stage"
    /\ Call
    /\ \/ GoOn("hash_bundle") /\ UNCHANGED errors
       \/ Error /\ GoOn("delete")
    /\ UNCHANGED << pod, completion, failure >>

(* The expected failure record names the digest of the bundle, which is    *)
(* read once more.                                                         *)
HashBundle ==
    /\ host_pc = "hash_bundle"
    /\ \/ /\ host_pc' = "limits"
          /\ since' = clock
          /\ UNCHANGED << command, observed, outcome, tries, cleanup, receipts, result,
                          leak, errors >>
       \/ command = "worker" /\ Error /\ Abandon({"file_unreadable"})
    /\ UNCHANGED << pod, completion, failure, clock >>

-----------------------------------------------------------------------------
(* supervise_pod.                                                          *)

CheckLimits ==
    /\ host_pc = "limits"
    /\ IF clock >= RuntimeLimit THEN Break("runtime_limit")
       ELSE IF clock >= CostLimit THEN Break("cost_limit")
       ELSE /\ host_pc' = "completion"
            /\ observed' = clock
            /\ UNCHANGED << command, since, outcome, tries, cleanup, receipts, result, leak >>
    /\ UNCHANGED << pod, completion, failure, clock, errors >>

PollCompletion ==
    /\ host_pc = "completion"
    /\ Call
    /\ \/ Error /\ Break("poll_failed")
       \/ /\ UNCHANGED errors
          /\ IF completion THEN Break("completed")
             ELSE GoOn(IF command = "worker" THEN "failure" ELSE "status")
    /\ UNCHANGED << pod, completion, failure >>

(* The failure record is looked for and read.                              *)
PollFailure ==
    /\ host_pc = "failure"
    /\ Call
    /\ \/ Error /\ Break("poll_failed")
       \/ failure /\ Error /\ Break("worker_failure_invalid")
       \/ /\ UNCHANGED errors
          /\ IF failure THEN Break("worker_failure_published") ELSE GoOn("status")
    /\ UNCHANGED << pod, completion, failure >>

PollStatus ==
    /\ host_pc = "status"
    /\ Call
    /\ \/ Error /\ Break("poll_failed")
       \/ /\ UNCHANGED errors
          /\ \/ pod = "running" /\ GoOn("sleep")
             \/ pod = "exited" /\ Break("pod_exited")
             \/ pod = "gone" /\ Break("poll_failed")
    /\ UNCHANGED << pod, completion, failure >>

\* Mutant: the remaining time is rounded down to whole intervals.
SleepRounded ==
    /\ host_pc = "sleep"
    /\ clock' = clock + PollInterval * (Min({PollInterval, CostLimit - observed,
                                 Max({0, RuntimeLimit - clock})}) \div PollInterval)
    /\ GoOn("limits")
    /\ UNCHANGED << pod, completion, failure, errors >>

\* Mutant: the interval is never shortened.
SleepFull ==
    /\ host_pc = "sleep"
    /\ clock' = clock + PollInterval
    /\ GoOn("limits")
    /\ UNCHANGED << pod, completion, failure, errors >>

(* The sleep ends at the runtime limit by a fresh clock, and at the cost   *)
(* limit by the cost at the top of the loop.                               *)
Sleep ==
    /\ host_pc = "sleep"
    /\ clock' = clock + Min({PollInterval, CostLimit - observed,
                             Max({0, RuntimeLimit - clock})})
    /\ GoOn("limits")
    /\ UNCHANGED << pod, completion, failure, errors >>

-----------------------------------------------------------------------------
(* Deletion and return.                                                    *)

Deleted(ok) ==
    /\ cleanup' = IF ok THEN "succeeded" ELSE "failed"
    /\ leak' = IF ok THEN leak ELSE leak \cup {"delete_failed"}
    /\ outcome' = IF ok \/ outcome = "none" THEN outcome ELSE "cleanup_failed"
    /\ host_pc' = IF outcome = "none" THEN "ended" ELSE "write_out"
    /\ result' = IF outcome = "none" THEN "error" ELSE result
    /\ UNCHANGED << command, since, observed, receipts >>

\* Mutant: the last error counts as a deletion.
DeletePodOptimistic ==
    /\ host_pc = "delete"
    /\ Call
    /\ tries' = tries + 1
    /\ \/ pod' = "gone" /\ Deleted(TRUE) /\ UNCHANGED errors
       \/ /\ Error
          /\ UNCHANGED pod
          /\ IF tries' = MaxDeletes
             THEN Deleted(TRUE)
             ELSE UNCHANGED << command, host_pc, since, observed, outcome, cleanup, receipts,
                               result, leak >>
    /\ UNCHANGED << completion, failure >>

(* delete_pod_with_retries; 404 is success.                                *)
DeletePod ==
    /\ host_pc = "delete"
    /\ Call
    /\ tries' = tries + 1
    /\ \/ pod' = "gone" /\ Deleted(TRUE) /\ UNCHANGED errors
       \/ /\ Error
          /\ pod' \in {pod, "gone"}
          /\ IF tries' = MaxDeletes
             THEN Deleted(FALSE)
             ELSE UNCHANGED << command, host_pc, since, observed, outcome, cleanup, receipts,
                               result, leak >>
    /\ UNCHANGED << completion, failure >>

\* Mutant: completion is all that counts.
WriteOutCompleted ==
    /\ host_pc = "write_out"
    /\ host_pc' = "ended"
    /\ receipts' = receipts \cup {"out"}
    /\ result' = IF outcome \in {"completed", "cleanup_failed"} THEN "ok" ELSE "error"
    /\ UNCHANGED << pod, completion, failure, clock, command, since, observed, outcome, tries,
                    cleanup, leak, errors >>

(* The supervised receipt; the command succeeds only for a completed range *)
(* and a deleted Pod.                                                      *)
WriteOut ==
    /\ host_pc = "write_out"
    /\ host_pc' = "ended"
    /\ \/ /\ receipts' = receipts \cup {"out"}
          /\ result' = IF outcome = "completed" /\ cleanup = "succeeded" THEN "ok" ELSE "error"
          /\ UNCHANGED errors
       \/ /\ Error
          /\ result' = "error"
          /\ UNCHANGED receipts
    /\ UNCHANGED << pod, completion, failure, clock, command, since, observed, outcome, tries,
                    cleanup, leak >>

(* The host process is killed.                                             *)
HostDies ==
    /\ host_pc # "ended"
    /\ Error
    /\ host_pc' = "ended"
    /\ result' = "killed"
    /\ leak' = leak \cup {"host_died"}
    /\ UNCHANGED << pod, completion, failure, clock, command, since, observed, outcome, tries,
                    cleanup, receipts >>

-----------------------------------------------------------------------------
(* The platform and the worker.                                            *)

PodStarts ==
    /\ pod = "created"
    /\ pod' = "running"
    /\ UNCHANGED << completion, failure, clock, host, errors >>

PodExits ==
    /\ pod = "running"
    /\ pod' = "exited"
    /\ UNCHANGED << completion, failure, clock, host, errors >>

(* The scheduler's terminateAfter, or a termination by somebody else.      *)
PodTerminated ==
    /\ Alive
    /\ pod' = "gone"
    /\ UNCHANGED << completion, failure, clock, host, errors >>

WorkerPublishes ==
    /\ pod = "running"
    /\ \/ completion' = TRUE /\ ~ completion /\ UNCHANGED failure
       \/ command = "worker" /\ failure' = TRUE /\ ~ failure /\ UNCHANGED completion
    /\ UNCHANGED << pod, clock, host, errors >>

HostStep ==
    \/ Schedule \/ ScheduleFails \/ WriteCreate \/ HashCreate
    \/ Admit \/ AdmitRejects \/ AdmitFails \/ AdmitWaits \/ AdmitSleeps \/ AdmitDelete
    \/ WriteLaunch \/ HashLaunch \/ StageObservation \/ HashBundle
    \/ CheckLimits \/ PollCompletion \/ PollFailure \/ PollStatus \/ Sleep
    \/ DeletePod \/ WriteOut

SupervisorNext ==
    \/ HostStep
    \/ HostDies
    \/ PodStarts \/ PodExits \/ PodTerminated \/ WorkerPublishes

SupervisorSpec == SupervisorInit /\ [][SupervisorNext]_supervisor_vars

\* Calls return and sleeps end.
SupervisorFairSpec == SupervisorSpec /\ WF_supervisor_vars(HostStep)
-----------------------------------------------------------------------------
(* Properties.                                                             *)

\* The steps of the host, by what it has done before them.
Polling == {"completion", "failure", "status", "sleep"}
Launched == {"hash_launch", "stage", "hash_bundle", "limits"} \cup Polling
Admission == {"admit", "admit_sleep", "admit_delete", "admit_discard"}
Created == {"hash_create", "write_launch"} \cup Admission \cup Launched
HostSteps == {"schedule", "write_create", "delete", "write_out", "ended"} \cup Created

WorldType ==
    /\ pod \in {"none", "created", "running", "exited", "gone"}
    /\ completion \in BOOLEAN /\ failure \in BOOLEAN

HostType ==
    /\ command \in {"worker", "conformance"}
    /\ host_pc \in HostSteps
    /\ outcome \in {"none", "completed", "runtime_limit", "cost_limit", "poll_failed",
                    "worker_failure_published", "worker_failure_invalid", "pod_exited",
                    "cleanup_failed"}
    /\ cleanup \in {"none", "succeeded", "failed"}
    /\ receipts \subseteq {"schedule", "launch", "out"}
    /\ result \in {"none", "ok", "error", "killed"}
    /\ leak \subseteq {"answer_lost", "file_unreadable", "delete_failed", "host_died"}

CountType ==
    /\ clock \in Nat /\ since \in 0 .. clock /\ observed \in 0 .. clock
    /\ tries \in 0 .. MaxDeletes
    /\ errors \in 0 .. MaxErrors

(* The type of every variable; the deletion attempts stay within budget.   *)
SupervisorTypeOK == WorldType /\ HostType /\ CountType

(* pod create succeeds only when the range is complete on the volume, the  *)
(* Pod is gone and all three receipts are on disk.                         *)
OkMeansDone ==
    result = "ok" => completion /\ pod = "gone" /\ receipts = {"schedule", "launch", "out"}

(* A Pod that outlives the host is named by a receipt on disk, unless the  *)
(* scheduler's answer was lost, or the receipt could not be written and    *)
(* the deletion failed or the host died.                                   *)
LeakedPodIsNamed ==
    host_pc = "ended" /\ Alive /\ result = "error" =>
        \/ "schedule" \in receipts
        \/ leak \in {{"answer_lost"}, {"delete_failed"}}

(* A Pod outlives the host only if the host was killed, the scheduler's    *)
(* answer was lost, a local file could not be read back, or the deletion   *)
(* failed; a command that returned has then named it; and "succeeded" is   *)
(* never said of a Pod that is still there.                                *)
NoSilentLeak ==
    /\ cleanup = "succeeded" => ~ Alive
    /\ host_pc = "ended" /\ Alive => leak # {}
    /\ LeakedPodIsNamed

WatchdogStart == Max({Limit, since})

(* "stops at the runtime or total-compute-USD limit": the deletion starts  *)
(* at most three calls after the earlier limit or, if that had passed      *)
(* before, the start of supervision, although the cost that the sleep      *)
(* depends on is read before the calls.                                    *)
WatchdogBound ==
    outcome # "none" /\ host_pc = "delete" /\ tries = 0 =>
        clock <= WatchdogStart + 3 * MaxCall

(* The command returns, whatever the Pod and the worker do.                *)
Returns == <>(host_pc = "ended")

-----------------------------------------------------------------------------
(* The inductive invariant behind the safety properties.                   *)

(* Receipts are on disk before the steps that rely on them.                *)
ReceiptsFirst ==
    /\ host_pc \in Created \cup {"write_out"} => "schedule" \in receipts
    /\ host_pc \in Launched \cup {"write_out"} => "launch" \in receipts
    /\ host_pc = "delete" /\ outcome # "none" => {"schedule", "launch"} \subseteq receipts

(* What the host has not done yet at each step.                            *)
Progress ==
    /\ host_pc \notin {"write_out", "ended"} => leak = {} /\ cleanup = "none"
    /\ host_pc # "ended" => result = "none"
    /\ host_pc \notin {"delete", "write_out", "ended"} => outcome = "none"
    /\ host_pc = "write_out" => outcome # "none"

(* The deletion attempts that are left.                                    *)
TriesLeft ==
    /\ host_pc \notin {"delete", "write_out", "ended"} => tries = 0
    /\ host_pc = "delete" => tries < MaxDeletes

(* Supervision says "completed" of a range whose marker it has seen.       *)
CompletedMarked == outcome = "completed" => completion

(* What the host knows of the Pod.                                         *)
PodKnown ==
    /\ host_pc = "schedule" => pod = "none"
    /\ host_pc \notin {"schedule", "ended"} => pod # "none"
    /\ host_pc \in Launched \cup {"write_launch"} => pod \in {"running", "exited", "gone"}
    /\ cleanup = "succeeded" => pod = "gone"
    /\ host_pc \in {"write_out", "ended"} /\ Alive => leak # {}

(* How far the clock runs in one round of the supervision loop.            *)
RoundBound ==
    /\ host_pc = "limits" => clock <= WatchdogStart + 3 * MaxCall
    /\ host_pc \in Polling => observed < RuntimeLimit /\ observed < CostLimit
    /\ host_pc = "completion" => clock = observed
    /\ host_pc = "failure" => clock <= observed + MaxCall
    /\ host_pc = "status" => clock <= observed + 2 * MaxCall
    /\ host_pc = "sleep" => clock <= observed + 3 * MaxCall

SupervisorInv ==
    /\ SupervisorTypeOK
    /\ ReceiptsFirst
    /\ Progress
    /\ TriesLeft
    /\ CompletedMarked
    /\ PodKnown
    /\ RoundBound
    /\ OkMeansDone
    /\ LeakedPodIsNamed
    /\ WatchdogBound
=============================================================================
