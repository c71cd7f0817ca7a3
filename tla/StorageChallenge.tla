-------------------------- MODULE StorageChallenge --------------------------
(***************************************************************************)
(* `rag runpod storage-challenge create` (rag-builder/src/runpod_cli.rs,   *)
(* storage_challenge_create and supervise_storage_challenge) and the       *)
(* worker it starts (rag-runpod-worker/src/lib.rs, storage_challenge): the *)
(* host finds the run prefix unused, makes the run directory with a        *)
(* bootstrap file, starts a Pod, uploads fresh random bytes, and the       *)
(* worker answers once it has read them through the mount.                 *)
(*                                                                         *)
(* Several commands may be given one prefix.  An object is named by the    *)
(* command whose challenge it holds or names.  Every call may fail, or     *)
(* take effect although its answer is lost; the mount shows an uploaded    *)
(* object late, and in part at first; containers are started again.  The   *)
(* clock of the watchdog is the subject of PodSupervisor: here a limit may *)
(* be reached at any round.  A worker that does not find the run directory *)
(* on its mount ends without a trace, like one that was never started.     *)
(***************************************************************************)
EXTENDS Integers, Sequences

CONSTANTS
    Commands,    \* commands with the same --run-prefix
    MaxStarts,   \* bound: containers of one Pod
    MaxDeletes,  \* attempts of delete_pod_with_retries
    MaxChallengeFaults  \* bound: failed calls and writes, and kills of a host

VARIABLES
    prefix,  \* what every key below the run prefix holds, None if nothing
    host,    \* every command
    pod,     \* the Pod of every command and the worker in it
    challenge_faults  \* failed calls and writes, and kills so far

challenge_vars == << prefix, host, pod, challenge_faults >>

None == "none"

\* RUNPOD_STORAGE_CHALLENGE_FAILURE_CODES, as far as the cases differ.
FailureCodes == << "contract_failure", "io_failure", "storage_challenge_contract", "storage_probe" >>

\* transfer_objects: the keys a command looks for before it begins.
Keys == << "bootstrap", "challenge", "response" >> \o FailureCodes
KeySet == { Keys[k] : k \in 1 .. Len(Keys) }

ChallengeInit ==
    /\ prefix = [k \in KeySet |-> None]
    /\ host = [h \in Commands |->
                 [pc |-> "check", at |-> 1, outcome |-> None, code |-> None, verified |-> FALSE,
                  tries |-> 0, cleanup |-> None, receipts |-> {}, result |-> None, leak |-> {}]]
    /\ pod = [h \in Commands |->
                [state |-> "none", worker |-> "off", starts |-> 0, shown |-> "nothing",
                 answered |-> FALSE]]
    /\ challenge_faults = 0

-----------------------------------------------------------------------------
(* Moves.                                                                  *)

Faulted == challenge_faults < MaxChallengeFaults /\ challenge_faults' = challenge_faults + 1

Proceed(h, step) == host' = [host EXCEPT ![h].pc = step]

Alive(h) == pod[h].state \in {"created", "running", "exited"}

\* Return an error, for a reason that may leave the Pod alive.
Abandon(h, reasons) ==
    host' = [host EXCEPT ![h].pc = "ended", ![h].at = 1, ![h].result = "error",
                         ![h].leak = @ \cup reasons]

\* supervise_storage_challenge leaves its loop, or the challenge upload failed.
Break(h, outcome) ==
    host' = [host EXCEPT ![h].pc = "delete", ![h].at = 1, ![h].outcome = outcome]

\* A Pod that stops takes its worker along.
PodStop(h, state) == pod' = [pod EXCEPT ![h].state = state, ![h].worker = "off"]

Worker(h, step) == pod' = [pod EXCEPT ![h].worker = step]

\* put_object: HEAD, a PUT with If-None-Match, HEAD.  An error may hide a
\* request that took effect.
Put(h, key) ==
    /\ prefix[key] = None
    /\ prefix' = [prefix EXCEPT ![key] = h]

PutLost(h, key) == Put(h, key) \/ UNCHANGED prefix

-----------------------------------------------------------------------------
(* Before the Pod.                                                         *)

(* Every key in turn is looked for; one that is there ends the command.    *)
CheckUnused(h) ==
    /\ host[h].pc = "check"
    /\ IF prefix[Keys[host[h].at]] # None THEN Abandon(h, {})
       ELSE IF host[h].at < Len(Keys) THEN host' = [host EXCEPT ![h].at = @ + 1]
       ELSE host' = [host EXCEPT ![h].pc = "bootstrap", ![h].at = 1]
    /\ UNCHANGED << prefix, pod, challenge_faults >>

(* The run directory, and the claim to it.                                 *)
PutBootstrap(h) ==
    /\ host[h].pc = "bootstrap"
    /\ \/ Put(h, "bootstrap") /\ Proceed(h, "schedule")
       \/ prefix["bootstrap"] # None /\ UNCHANGED prefix /\ Abandon(h, {})
    /\ UNCHANGED << pod, challenge_faults >>

(* A HEAD fails, or the upload does.                                       *)
ClaimFails(h) ==
    /\ host[h].pc \in {"check", "bootstrap"}
    /\ Faulted
    /\ IF host[h].pc = "bootstrap" THEN PutLost(h, "bootstrap") ELSE UNCHANGED prefix
    /\ Abandon(h, {})
    /\ UNCHANGED pod

Created(h) == pod' = [pod EXCEPT ![h].state = "created"]

(* schedule_pod_with_termination.                                          *)
Schedule(h) ==
    /\ host[h].pc = "schedule"
    /\ \/ Created(h) /\ Proceed(h, "write_create") /\ UNCHANGED challenge_faults
       \/ Faulted /\ Abandon(h, {}) /\ UNCHANGED pod
       \/ Faulted /\ Abandon(h, {"answer_lost"}) /\ Created(h)
    /\ UNCHANGED prefix

(* A receipt that cannot be written costs the Pod; one that cannot be read *)
(* back returns at once.                                                   *)
WriteReceipt(h, receipt, from, to) ==
    /\ host[h].pc = from
    /\ \/ /\ host' = [host EXCEPT ![h].pc = to, ![h].receipts = @ \cup {receipt}]
          /\ UNCHANGED challenge_faults
       \/ Faulted /\ Proceed(h, "delete")
       \/ /\ Faulted
          /\ host' = [host EXCEPT ![h].pc = "ended", ![h].result = "error",
                                  ![h].receipts = @ \cup {receipt},
                                  ![h].leak = @ \cup {"file_unreadable"}]
    /\ UNCHANGED << prefix, pod >>

(* admit_scheduled_pod deletes, with one call, a Pod it does not admit.    *)
Admit(h) ==
    /\ host[h].pc = "admit"
    /\ \/ /\ pod[h].state = "running"
          /\ Proceed(h, "write_launch")
          /\ UNCHANGED << pod, challenge_faults >>
       \/ pod[h].state \in {"created", "exited", "gone"} /\ PodStop(h, "gone")
            /\ Abandon(h, {}) /\ UNCHANGED challenge_faults
       \/ Faulted /\ PodStop(h, "gone") /\ Abandon(h, {})
       \/ Faulted /\ Abandon(h, {"delete_failed"}) /\ UNCHANGED pod
    /\ UNCHANGED prefix

(* Only now the challenge.                                                 *)
PutChallenge(h) ==
    /\ host[h].pc = "upload"
    /\ \/ Put(h, "challenge") /\ Proceed(h, "limits") /\ UNCHANGED challenge_faults
       \/ /\ prefix["challenge"] # None
          /\ Break(h, "challenge_upload_failed")
          /\ UNCHANGED << prefix, challenge_faults >>
       \/ Faulted /\ PutLost(h, "challenge") /\ Break(h, "challenge_upload_failed")
    /\ UNCHANGED pod

-----------------------------------------------------------------------------
(* supervise_storage_challenge.                                            *)

CheckLimits(h) ==
    /\ host[h].pc = "limits"
    /\ \/ Proceed(h, "response")
       \/ \E o \in {"runtime_limit", "cost_limit"} : Break(h, o)
    /\ UNCHANGED << prefix, pod, challenge_faults >>

(* Present or missing is all a poll tells; the bytes are read at the end.  *)
PollResponse(h) ==
    /\ host[h].pc = "response"
    /\ IF prefix["response"] # None
       THEN Break(h, "response_published")
       ELSE Proceed(h, "failures")
    /\ UNCHANGED << prefix, pod, challenge_faults >>

PollFailure(h) ==
    /\ host[h].pc = "failures"
    /\ LET code == FailureCodes[host[h].at] IN
       IF prefix[code] # None
       THEN host' = [host EXCEPT ![h].pc = "delete", ![h].at = 1, ![h].code = code,
                                 ![h].outcome = "worker_failure_published"]
       ELSE IF host[h].at < Len(FailureCodes) THEN host' = [host EXCEPT ![h].at = @ + 1]
       ELSE host' = [host EXCEPT ![h].pc = "status", ![h].at = 1]
    /\ UNCHANGED << prefix, pod, challenge_faults >>

PollStatus(h) ==
    /\ host[h].pc = "status"
    /\ \/ pod[h].state = "running" /\ Proceed(h, "limits")
       \/ pod[h].state = "exited" /\ Break(h, "pod_exited")
       \/ pod[h].state = "gone" /\ Break(h, "control_poll_failed")
    /\ UNCHANGED << prefix, pod, challenge_faults >>

PollFails(h) ==
    /\ \/ host[h].pc \in {"response", "failures"} /\ Break(h, "storage_poll_failed")
       \/ host[h].pc = "status" /\ Break(h, "control_poll_failed")
    /\ Faulted
    /\ UNCHANGED << prefix, pod >>

-----------------------------------------------------------------------------
(* The end.                                                                *)

Deleted(h, ok) ==
    LET o == host[h].outcome
        supervised == o \notin {None, "challenge_upload_failed"}
    IN  host' = [host EXCEPT
                   ![h].tries = @ + 1,
                   ![h].cleanup = IF ok THEN "succeeded" ELSE "failed",
                   ![h].leak = IF ok THEN @ ELSE @ \cup {"delete_failed"},
                   ![h].pc = IF supervised THEN "fetch"
                             ELSE IF o = None THEN "ended" ELSE "write_out",
                   ![h].result = IF o = None THEN "error" ELSE @,
                   ![h].outcome = IF supervised /\ ~ ok THEN "cleanup_failed" ELSE @]

(* delete_pod_with_retries; 404 is success.  Without supervision only the  *)
(* error says what became of the Pod.                                      *)
DeletePod(h) ==
    /\ host[h].pc = "delete"
    /\ \/ PodStop(h, "gone") /\ Deleted(h, TRUE) /\ UNCHANGED challenge_faults
       \/ /\ Faulted
          /\ UNCHANGED pod \/ PodStop(h, "gone")
          /\ IF host[h].tries + 1 < MaxDeletes
             THEN host' = [host EXCEPT ![h].tries = @ + 1]
             ELSE Deleted(h, FALSE)
    /\ UNCHANGED prefix

\* What was read and what it makes of the outcome.
Fetched(h, outcome, verified) ==
    host' = [host EXCEPT ![h].pc = "write_out", ![h].outcome = outcome, ![h].verified = verified]

(* get_worker_output reads the response, or the failure record that was    *)
(* seen, and takes only the bytes that were prepared before the Pod.       *)
Fetch(h) ==
    /\ host[h].pc = "fetch"
    /\ \/ /\ host[h].outcome = "response_published"
          /\ \/ /\ prefix["response"] = h
                /\ Fetched(h, "completed", TRUE)
                /\ UNCHANGED challenge_faults
             \/ /\ IF prefix["response"] = h THEN Faulted ELSE UNCHANGED challenge_faults
                /\ Fetched(h, "response_fetch_failed", FALSE)
       \/ /\ host[h].outcome = "worker_failure_published"
          /\ \/ /\ prefix[host[h].code] = h
                /\ Fetched(h, "worker_failure_published", TRUE)
                /\ UNCHANGED challenge_faults
             \/ /\ IF prefix[host[h].code] = h THEN Faulted ELSE UNCHANGED challenge_faults
                /\ Fetched(h, "worker_failure_fetch_failed", FALSE)
       \/ /\ host[h].outcome \notin {"response_published", "worker_failure_published"}
          /\ Proceed(h, "write_out")
          /\ UNCHANGED challenge_faults
    /\ UNCHANGED << prefix, pod >>

(* The receipt; the command succeeds only with it, for an answer that was  *)
(* read and a Pod that is gone.                                            *)
WriteOut(h) ==
    /\ host[h].pc = "write_out"
    /\ \/ /\ host' = [host EXCEPT ![h].pc = "ended", ![h].receipts = @ \cup {"out"},
                                  ![h].result = IF /\ host[h].outcome = "completed"
                                                   /\ host[h].cleanup = "succeeded"
                                                THEN "ok" ELSE "error"]
          /\ UNCHANGED challenge_faults
       \/ Faulted /\ Abandon(h, {})
    /\ UNCHANGED << prefix, pod >>

HostDies(h) ==
    /\ host[h].pc # "ended"
    /\ Faulted
    /\ host' = [host EXCEPT ![h].pc = "ended", ![h].at = 1, ![h].result = "killed",
                            ![h].leak = @ \cup {"host_died"}]
    /\ UNCHANGED << prefix, pod >>

-----------------------------------------------------------------------------
(* The platform.                                                           *)

PodStarts(h) ==
    /\ pod[h].state = "created"
    /\ pod' = [pod EXCEPT ![h].state = "running"]
    /\ UNCHANGED << prefix, host, challenge_faults >>

(* The Pod is stopped, or deleted at its deadline.                         *)
PodStops(h) ==
    /\ \/ pod[h].state = "running" /\ PodStop(h, "exited")
       \/ Alive(h) /\ PodStop(h, "gone")
    /\ UNCHANGED << prefix, host, challenge_faults >>

(* The mount shows more of the challenge.                                  *)
MountShows(h) ==
    /\ pod[h].state = "running"
    /\ prefix["challenge"] # None
    /\ \/ pod[h].shown = "nothing" /\ pod' = [pod EXCEPT ![h].shown = "part"]
       \/ pod[h].shown # "whole" /\ pod' = [pod EXCEPT ![h].shown = "whole"]
    /\ UNCHANGED << prefix, host, challenge_faults >>

-----------------------------------------------------------------------------
(* The worker, storage_challenge and publish_storage_challenge_failure.    *)

\* publish_no_overwrite: hard links that never replace what is there.
Publish(h, keys) ==
    prefix' = [k \in KeySet |-> IF k \in keys /\ prefix[k] = None THEN h ELSE prefix[k]]

\* The worker ends with an error, after publishing the given keys; for a code
\* that has a key it tries to leave a record.
WorkerFails(h, code, published) ==
    /\ Worker(h, "off")
    /\ \E record \in SUBSET ({code} \cap KeySet) : Publish(h, published \cup record)

(* The container starts in the run directory.                              *)
WorkerStarts(h) ==
    /\ pod[h].state = "running"
    /\ pod[h].worker = "off"
    /\ pod[h].starts < MaxStarts
    /\ pod' = [pod EXCEPT ![h].starts = @ + 1, ![h].worker = "probe"]
    /\ UNCHANGED << prefix, host, challenge_faults >>

(* storage_probe publishes and renames files of its own, and removes them. *)
Probe(h) ==
    /\ pod[h].worker = "probe"
    /\ \/ Worker(h, "contract") /\ UNCHANGED << prefix, challenge_faults >>
       \/ Faulted /\ \E code \in {"storage_probe", "io_failure"} : WorkerFails(h, code, {})
    /\ UNCHANGED host

(* A response that is there already is an error.                           *)
CheckContract(h) ==
    /\ pod[h].worker = "contract"
    /\ \/ prefix["response"] = None /\ Worker(h, "wait") /\ UNCHANGED prefix
       \/ prefix["response"] # None /\ WorkerFails(h, "storage_challenge_contract", {})
    /\ UNCHANGED << host, challenge_faults >>

\* Mutant: the file is taken for the challenge as soon as it is there.
ReadChallengePresent(h) ==
    /\ pod[h].worker = "wait"
    /\ pod[h].shown # "nothing"
    /\ pod' = [pod EXCEPT ![h].worker = "publish",
                          ![h].answered = pod[h].shown = "whole" /\ prefix["challenge"] = h]
    /\ UNCHANGED << prefix, host, challenge_faults >>

(* verified_object reads the file as soon as it is there; other bytes, and *)
(* a part of the right ones, are an error without a record.                *)
ReadChallenge(h) ==
    /\ pod[h].worker = "wait"
    /\ pod[h].shown # "nothing"
    /\ IF pod[h].shown = "whole" /\ prefix["challenge"] = h
       THEN /\ pod' = [pod EXCEPT ![h].worker = "publish", ![h].answered = TRUE]
            /\ UNCHANGED prefix
       ELSE WorkerFails(h, "object_digest", {})
    /\ UNCHANGED << host, challenge_faults >>

(* The wait ends without the file, or the file system fails.               *)
WaitFails(h) ==
    /\ pod[h].worker = "wait"
    /\ \/ /\ pod[h].shown = "nothing"
          /\ WorkerFails(h, "contract_failure", {})
          /\ UNCHANGED challenge_faults
       \/ Faulted /\ WorkerFails(h, "io_failure", {})
    /\ UNCHANGED host

(* The response; another one under its name is an error without a record,  *)
(* and an error after the link leaves both.                                *)
PublishResponse(h) ==
    /\ pod[h].worker = "publish"
    /\ \/ Publish(h, {"response"}) /\ Worker(h, "off") /\ UNCHANGED challenge_faults
       \/ Faulted /\ \E linked \in SUBSET {"response"} : WorkerFails(h, "io_failure", linked)
    /\ UNCHANGED host

-----------------------------------------------------------------------------

HostStep(h) ==
    \/ CheckUnused(h) \/ PutBootstrap(h) \/ ClaimFails(h) \/ Schedule(h)
    \/ WriteReceipt(h, "schedule", "write_create", "admit")
    \/ Admit(h)
    \/ WriteReceipt(h, "launch", "write_launch", "upload")
    \/ PutChallenge(h)
    \/ CheckLimits(h) \/ PollResponse(h) \/ PollFailure(h) \/ PollStatus(h) \/ PollFails(h)
    \/ DeletePod(h) \/ Fetch(h) \/ WriteOut(h) \/ HostDies(h)

WorkerStep(h) ==
    \/ WorkerStarts(h) \/ Probe(h) \/ CheckContract(h)
    \/ ReadChallenge(h) \/ WaitFails(h) \/ PublishResponse(h)

ChallengeNext ==
    \E h \in Commands :
        HostStep(h) \/ PodStarts(h) \/ PodStops(h) \/ MountShows(h) \/ WorkerStep(h)

ChallengeSpec == ChallengeInit /\ [][ChallengeNext]_challenge_vars

-----------------------------------------------------------------------------
(* What a storage challenge shows, whatever fails and however two commands *)
(* with one prefix meet.  A command succeeds only if a worker in its own   *)
(* Pod read all of its challenge through the mount and published the       *)
(* answer, and the Pod is gone.  The challenge is on the volume only after *)
(* the Pod was admitted and its launch recorded, so nothing could have     *)
(* answered it before.  At most one of the commands ever has a Pod.  A Pod *)
(* outlives its command only after a kill, an answer or a deletion that    *)
(* was lost, or a receipt that could not be read back.                     *)
ChallengeAnswered ==
    \A h \in Commands :
        /\ host[h].result = "ok" =>
             /\ pod[h].answered /\ prefix["response"] = h
             /\ pod[h].state = "gone"
             /\ host[h].receipts = {"schedule", "launch", "out"}
        /\ prefix["challenge"] = h => {"schedule", "launch"} \subseteq host[h].receipts
        /\ pod[h].state # "none" => \A g \in Commands \ {h} : pod[g].state = "none"
        /\ host[h].pc = "ended" /\ Alive(h) => host[h].leak # {}
-----------------------------------------------------------------------------
(* The inductive invariant behind ChallengeAnswered.                       *)

HostSteps ==
    {"check", "bootstrap", "schedule", "write_create", "admit", "write_launch", "upload",
     "limits", "response", "failures", "status", "delete", "fetch", "write_out", "ended"}
PodStates == {"none", "created", "running", "exited", "gone"}
WorkerSteps == {"off", "probe", "contract", "wait", "publish"}

Outcomes ==
    {None, "challenge_upload_failed", "runtime_limit", "cost_limit", "response_published",
     "worker_failure_published", "pod_exited", "control_poll_failed", "storage_poll_failed",
     "cleanup_failed", "completed", "response_fetch_failed", "worker_failure_fetch_failed"}
Reasons == {"answer_lost", "file_unreadable", "delete_failed", "host_died"}

Hosts ==
    [pc : HostSteps, at : 1 .. Len(Keys), outcome : Outcomes, code : KeySet \cup {None},
     verified : BOOLEAN, tries : Nat, cleanup : {None, "succeeded", "failed"},
     receipts : SUBSET {"schedule", "launch", "out"}, result : {None, "ok", "error", "killed"},
     leak : SUBSET Reasons]
PodRecords ==
    [state : PodStates, worker : WorkerSteps, starts : Nat,
     shown : {"nothing", "part", "whole"}, answered : BOOLEAN]

(* The type of every variable; the cursor over keys and failure codes is   *)
(* where it may index.                                                     *)
ChallengeTypeOK ==
    /\ prefix \in [KeySet -> Commands \cup {None}]
    /\ host \in [Commands -> Hosts]
    /\ pod \in [Commands -> PodRecords]
    /\ challenge_faults \in Nat
    /\ \A h \in Commands :
         host[h].at # 1 =>
             \/ host[h].pc = "check"
             \/ host[h].pc = "failures" /\ host[h].at <= Len(FailureCodes)

\* Only the command that claimed the prefix has a Pod.
Claimed(h) ==
    /\ host[h].pc \notin {"check", "bootstrap", "ended"} => prefix["bootstrap"] = h
    /\ host[h].pc \in {"check", "bootstrap", "schedule"} => pod[h].state = "none"
    /\ pod[h].state # "none" => prefix["bootstrap"] = h

\* The receipts a command has written by the time it uploads the challenge.
Recorded(h) ==
    /\ host[h].pc \in {"admit", "write_launch"} => "schedule" \in host[h].receipts
    /\ \/ host[h].pc \in {"upload", "limits", "response", "failures", "status"}
       \/ host[h].outcome # None
       \/ prefix["challenge"] = h
       => {"schedule", "launch"} \subseteq host[h].receipts

\* The answer was given by a worker that had read the challenge, and taken as such.
Answered(h) ==
    /\ pod[h].worker = "publish" \/ prefix["response"] = h => pod[h].answered
    /\ host[h].outcome = "completed" => prefix["response"] = h

\* What became of the Pod.
PodAccounted(h) ==
    /\ host[h].cleanup = "succeeded" => pod[h].state = "gone"
    /\ host[h].pc \in {"fetch", "write_out", "ended"} /\ Alive(h) => host[h].leak # {}

\* A success is an answer that was read, a Pod that is gone and a receipt.
Succeeded(h) ==
    /\ host[h].pc # "ended" => host[h].result = None
    /\ host[h].result = "ok" =>
         /\ host[h].outcome = "completed" /\ host[h].cleanup = "succeeded"
         /\ "out" \in host[h].receipts

ChallengeInv ==
    /\ ChallengeTypeOK
    /\ \A h \in Commands :
         Claimed(h) /\ Recorded(h) /\ Answered(h) /\ PodAccounted(h) /\ Succeeded(h)
=============================================================================
