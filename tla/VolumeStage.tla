---------------------------- MODULE VolumeStage ----------------------------
(***************************************************************************)
(* `rag runpod stage` (rag-builder/src/runpod_cli.rs, stage and            *)
(* stage_conformance_candidate; runpod_s3.rs, the volume's S3 client):     *)
(* the inputs of a bundle are put on the network volume one after the      *)
(* other, bundle.json last.  An object that is there is verified by its    *)
(* ETag, a small one is uploaded by one conditional request, a large one   *)
(* in parts that a bounded number of tasks send.                           *)
(*                                                                         *)
(* Several operators may stage under one prefix, from one bundle or from   *)
(* different ones that share objects.  A call may fail, or take effect     *)
(* although its answer is lost; a stager may be killed and run again.      *)
(* Model objects that --skip-model-objects leaves out are not in the list. *)
(***************************************************************************)
EXTENDS Common

CONSTANTS
    Stagers,      \* the processes that stage
    ObjectCount,  \* objects.len(); the last one is bundle.json
    Large,        \* the objects above RUNPOD_SINGLE_PUT_MAX_BYTES
    Bundle,       \* content of every object in every stager's bundle
    PartCount,    \* parts of a large object
    Concurrency,  \* RUNPOD_MULTIPART_UPLOAD_CONCURRENCY
    PartAttempts, \* RUNPOD_MULTIPART_PART_ATTEMPTS
    MaxFaults     \* bound: failed calls and kills

Objects == 1 .. ObjectCount
Parts == 1 .. PartCount

\* A content has an identity, which its digests tell, and a length.
NoObject == [content |-> [id |-> 0, bytes |-> 0], parts |-> << >>]

\* bundle.json names every other object by its digest.
ASSUME StageAssumption ==
    /\ ObjectCount \in Nat \ {0}
    /\ \A s \in Stagers, k \in Objects : Bundle[s][k] # NoObject.content
    /\ \A s, t \in Stagers : Bundle[s][ObjectCount] = Bundle[t][ObjectCount] =>
         \A k \in Objects : Bundle[s][k] = Bundle[t][k]
    /\ Large \subseteq Objects
    /\ PartCount \in Nat \ {0}
    /\ Concurrency \in Nat \ {0}
    /\ PartAttempts \in Nat \ {0}
    /\ MaxFaults \in Nat

VARIABLES
    volume,   \* the object at every key, NoObject if there is none
    pc,       \* step of every stager, "idle" between its commands
    at,       \* the object it is staging
    next,     \* next_part
    sending,  \* attempts of every part in the JoinSet, 0 outside it
    done,     \* completed_parts, in the order of their completion
    upload,   \* its multipart upload on the volume
    cleanup,  \* what it has said of the abort
    outcome,  \* how its command returned
    faults

locals == << next, sending, done >>
vars == << volume, pc, at, locals, upload, cleanup, outcome, faults >>

\* What an upload assembles: a single request, or the listed parts.
Assembled(s, list) == [content |-> Bundle[s][at[s]], parts |-> list]

\* The object as it should be; its ETag tells the layout in parts as well.
Whole(s, k) ==
    [content |-> Bundle[s][k],
     parts |-> IF k \in Large THEN [i \in Parts |-> i] ELSE << >>]

NoSending == [i \in Parts |-> 0]
InFlight(s) == { i \in Parts : sending[s][i] > 0 }

Init ==
    /\ volume = [k \in Objects |-> NoObject]
    /\ pc = [s \in Stagers |-> "idle"]
    /\ at = [s \in Stagers |-> 1]
    /\ next = [s \in Stagers |-> 1]
    /\ sending = [s \in Stagers |-> NoSending]
    /\ done = [s \in Stagers |-> << >>]
    /\ upload = [s \in Stagers |-> "none"]
    /\ cleanup = [s \in Stagers |-> "none"]
    /\ outcome = [s \in Stagers |-> "none"]
    /\ faults = 0

-----------------------------------------------------------------------------
(* Moves of a stager.                                                      *)

Fault == faults < MaxFaults /\ faults' = faults + 1

Goto(s, step) == pc' = [pc EXCEPT ![s] = step] /\ UNCHANGED outcome

Return(s, how) ==
    /\ pc' = [pc EXCEPT ![s] = "idle"]
    /\ outcome' = [outcome EXCEPT ![s] = how]

\* The JoinSet and the list of completed parts go out of scope.
DropParts(s) ==
    /\ next' = [next EXCEPT ![s] = 1]
    /\ sending' = [sending EXCEPT ![s] = NoSending]
    /\ done' = [done EXCEPT ![s] = << >>]

(* The loop over the objects.                                              *)
NextObject(s) ==
    IF at[s] = ObjectCount
    THEN Return(s, "ok") /\ UNCHANGED at
    ELSE Goto(s, "head") /\ at' = [at EXCEPT ![s] = @ + 1]

Start(s) ==
    /\ pc[s] = "idle"
    /\ outcome[s] # "ok"
    /\ pc' = [pc EXCEPT ![s] = "head"]
    /\ at' = [at EXCEPT ![s] = 1]
    /\ outcome' = [outcome EXCEPT ![s] = "none"]
    /\ cleanup' = [cleanup EXCEPT ![s] = "none"]
    /\ upload' = [upload EXCEPT ![s] = "none"]
    /\ UNCHANGED << volume, locals, faults >>

(* head_declared: the object is there when a key has the declared length.  *)
HeadDeclared(s) ==
    LET o == volume[at[s]] IN
    CASE o = NoObject -> "missing"
      [] o # NoObject /\ o.content.bytes = Bundle[s][at[s]].bytes -> "present"
      [] OTHER -> "mismatch"

CheckObject(s) ==
    /\ pc[s] = "head"
    /\ \/ HeadDeclared(s) = "missing" /\ Goto(s, "precheck")
       \/ HeadDeclared(s) = "present" /\ Goto(s, "verify")
       \/ HeadDeclared(s) = "mismatch" /\ Return(s, "error")
    /\ UNCHANGED << volume, at, locals, upload, cleanup, faults >>

(* verify_staged_object: the ETag of the local bytes in the fixed layout.  *)
VerifyStaged(s) ==
    /\ pc[s] = "verify"
    /\ IF volume[at[s]] = Whole(s, at[s])
       THEN NextObject(s)
       ELSE Return(s, "error") /\ UNCHANGED at
    /\ UNCHANGED << volume, locals, upload, cleanup, faults >>

(* put_object_with_policy looks once more.                                 *)
Precheck(s) ==
    /\ pc[s] = "precheck"
    /\ IF HeadDeclared(s) = "missing"
       THEN Goto(s, IF at[s] \in Large THEN "create" ELSE "put")
       ELSE Return(s, "error")
    /\ UNCHANGED << volume, at, locals, upload, cleanup, faults >>

(* put_single with If-None-Match.                                          *)
PutSingle(s) ==
    /\ pc[s] = "put"
    /\ IF volume[at[s]] = NoObject
       THEN volume' = [volume EXCEPT ![at[s]] = Assembled(s, << >>)] /\ Goto(s, "confirm")
       ELSE Return(s, "error") /\ UNCHANGED volume
    /\ UNCHANGED << at, locals, upload, cleanup, faults >>

\* Mutant: a failed request is passed over.
PutFailsContinues(s) ==
    /\ pc[s] = "put"
    /\ Fault
    /\ NextObject(s)
    /\ UNCHANGED << volume, locals, upload, cleanup >>

(* The answer is lost: the client's own retry is refused with 412.         *)
PutFails(s) ==
    /\ pc[s] = "put"
    /\ Fault
    /\ \/ UNCHANGED volume
       \/ /\ volume[at[s]] = NoObject
          /\ volume' = [volume EXCEPT ![at[s]] = Assembled(s, << >>)]
    /\ Return(s, "error")
    /\ UNCHANGED << at, locals, upload, cleanup >>

-----------------------------------------------------------------------------
(* put_multipart.                                                          *)

CreateUpload(s) ==
    /\ pc[s] = "create"
    /\ upload' = [upload EXCEPT ![s] = "open"]
    /\ Goto(s, "parts")
    /\ UNCHANGED << volume, at, locals, cleanup, faults >>

(* Without the upload id nothing can be aborted; with a foreign bucket or  *)
(* key in the answer the upload is.                                        *)
CreateFails(s) ==
    /\ pc[s] = "create"
    /\ Fault
    /\ \/ /\ \E u \in {"none", "unnamed"} : upload' = [upload EXCEPT ![s] = u]
          /\ Return(s, "error")
       \/ /\ upload' = [upload EXCEPT ![s] = "open"]
          /\ Goto(s, "abort")
    /\ UNCHANGED << volume, at, locals, cleanup >>

SpawnPart(s) ==
    /\ pc[s] = "parts"
    /\ next[s] <= PartCount
    /\ Cardinality(InFlight(s)) < Concurrency
    /\ sending' = [sending EXCEPT ![s][next[s]] = 1]
    /\ next' = [next EXCEPT ![s] = @ + 1]
    /\ UNCHANGED << volume, pc, at, done, upload, cleanup, outcome, faults >>

(* join_next with a part's ETag.                                           *)
PartUploaded(s, i) ==
    /\ pc[s] = "parts"
    /\ i \in InFlight(s)
    /\ next[s] > PartCount \/ Cardinality(InFlight(s)) = Concurrency
    /\ sending' = [sending EXCEPT ![s][i] = 0]
    /\ done' = [done EXCEPT ![s] = Append(@, i)]
    /\ UNCHANGED << volume, pc, at, next, upload, cleanup, outcome, faults >>

(* One attempt of a part fails; after the last the others are aborted.     *)
PartFails(s, i) ==
    /\ pc[s] = "parts"
    /\ i \in InFlight(s)
    /\ Fault
    /\ IF sending[s][i] < PartAttempts
       THEN /\ sending' = [sending EXCEPT ![s][i] = @ + 1]
            /\ UNCHANGED << pc, next, done, outcome >>
       ELSE DropParts(s) /\ Goto(s, "abort")
    /\ UNCHANGED << volume, at, upload, cleanup >>

AllJoined(s) == pc[s] = "parts" /\ next[s] > PartCount /\ InFlight(s) = {}

Sorted(list) == Ascending(ToSet(list))

(* complete_multipart_upload is not conditional.                           *)
CompleteUpload(s) ==
    /\ AllJoined(s)
    /\ volume' = [volume EXCEPT ![at[s]] = Assembled(s, Sorted(done[s]))]
    /\ upload' = [upload EXCEPT ![s] = "completed"]
    /\ DropParts(s)
    /\ Goto(s, "confirm")
    /\ UNCHANGED << at, cleanup, faults >>

CompleteFails(s) ==
    /\ AllJoined(s)
    /\ Fault
    /\ \/ UNCHANGED << volume, upload >>
       \/ /\ volume' = [volume EXCEPT ![at[s]] = Assembled(s, Sorted(done[s]))]
          /\ upload' = [upload EXCEPT ![s] = "completed"]
    /\ DropParts(s)
    /\ Goto(s, "abort")
    /\ UNCHANGED << at, cleanup >>

(* The HEAD after an upload; the failure of a large one ends in an abort.  *)
Confirm(s) ==
    /\ pc[s] = "confirm"
    /\ IF HeadDeclared(s) = "present"
       THEN NextObject(s)
       ELSE /\ IF at[s] \in Large THEN Goto(s, "abort") ELSE Return(s, "error")
            /\ UNCHANGED at
    /\ UNCHANGED << volume, locals, upload, cleanup, faults >>

(* A HEAD, or the reading of the local file, fails.                        *)
CallFails(s) ==
    /\ pc[s] \in {"head", "verify", "precheck", "confirm"}
    /\ Fault
    /\ IF pc[s] = "confirm" /\ at[s] \in Large THEN Goto(s, "abort") ELSE Return(s, "error")
    /\ UNCHANGED << volume, at, locals, upload, cleanup >>

(* multipart_failure: an upload that is complete cannot be aborted.        *)
AbortUpload(s) ==
    /\ pc[s] = "abort"
    /\ \/ /\ upload[s] = "open"
          /\ upload' = [upload EXCEPT ![s] = "aborted"]
          /\ cleanup' = [cleanup EXCEPT ![s] = "succeeded"]
          /\ UNCHANGED faults
       \/ /\ upload[s] = "completed"
          /\ cleanup' = [cleanup EXCEPT ![s] = "failed"]
          /\ UNCHANGED << upload, faults >>
       \/ /\ Fault
          /\ upload[s] = "open"
          /\ \E u \in {"open", "aborted"} : upload' = [upload EXCEPT ![s] = u]
          /\ cleanup' = [cleanup EXCEPT ![s] = "failed"]
    /\ Return(s, "error")
    /\ UNCHANGED << volume, at, locals >>

(* The process is killed.                                                  *)
Kill(s) ==
    /\ pc[s] # "idle"
    /\ Fault
    /\ DropParts(s)
    /\ Return(s, "killed")
    /\ UNCHANGED << volume, at, upload, cleanup >>

-----------------------------------------------------------------------------
Step(s) ==
    \/ CheckObject(s) \/ VerifyStaged(s) \/ Precheck(s)
    \/ PutSingle(s)
    \/ CreateUpload(s) \/ SpawnPart(s) \/ (\E i \in Parts : PartUploaded(s, i))
    \/ CompleteUpload(s) \/ Confirm(s) \/ AbortUpload(s)

Failing(s) ==
    \/ PutFails(s) \/ CreateFails(s) \/ (\E i \in Parts : PartFails(s, i))
    \/ CompleteFails(s) \/ CallFails(s) \/ Kill(s)

Next == \E s \in Stagers : Start(s) \/ Step(s) \/ Failing(s)

Spec == Init /\ [][Next]_vars

(* A stager that is not killed runs on, and a failed stage is run again.   *)
FairSpec == Spec /\ \A s \in Stagers : WF_vars(Step(s)) /\ WF_vars(Start(s))
-----------------------------------------------------------------------------
(* Properties.                                                             *)

Contents == { Bundle[s][k] : s \in Stagers, k \in Objects }

(* The type of every variable.                                             *)
TypeOK ==
    /\ volume \in [Objects -> {NoObject} \cup [content : Contents, parts : Seq(Parts)]]
    /\ pc \in [Stagers -> {"idle", "head", "verify", "precheck", "put", "create", "parts",
                           "confirm", "abort"}]
    /\ at \in [Stagers -> Objects]
    /\ next \in [Stagers -> 1 .. PartCount + 1]
    /\ sending \in [Stagers -> [Parts -> 0 .. PartAttempts]]
    /\ done \in [Stagers -> Seq(Parts)]
    /\ upload \in [Stagers -> {"none", "unnamed", "open", "completed", "aborted"}]
    /\ cleanup \in [Stagers -> {"none", "succeeded", "failed"}]
    /\ outcome \in [Stagers -> {"none", "ok", "error", "killed"}]
    /\ faults \in 0 .. MaxFaults

(* The bundle is staged last: where its bundle.json is on the volume, and  *)
(* when its stage has succeeded, every object of the bundle is on the      *)
(* volume, whole and in the layout of its ETag, however often stagers      *)
(* failed or were killed; and no other stager and no resumed one has       *)
(* replaced an object since.                                               *)
BundleLast ==
    \A s \in Stagers :
        outcome[s] = "ok" \/ volume[ObjectCount] = Whole(s, ObjectCount) =>
            \A k \in Objects : volume[k] = Whole(s, k)

-----------------------------------------------------------------------------
(* What the proofs rest on.                                                *)

\* Bundles put under one prefix have the same large objects (the weights of
\* one model): the completion of a multipart upload replaces what is there.
LargeShared == \A s, t \in Stagers, k \in Large : Bundle[s][k] = Bundle[t][k]

\* The first n objects of the stager's bundle are on the volume.
Placed(s, n) == \A k \in 1 .. n : volume[k] = Whole(s, k)

\* A part that was spawned is being sent or has been joined.
PartsKept(s) ==
    IF pc[s] = "parts"
    THEN \A i \in Parts : i < next[s] => sending[s][i] > 0 \/ i \in ToSet(done[s])
    ELSE next[s] = 1

\* A stager at an object has placed the ones before, and uploads it its way.
InTurn(s) ==
    /\ pc[s] = "put" => at[s] \notin Large
    /\ pc[s] \in {"create", "parts"} => at[s] \in Large
    /\ pc[s] = "confirm" => volume[at[s]] = Whole(s, at[s])
    /\ pc[s] # "idle" => Placed(s, at[s] - 1)
    /\ outcome[s] = "ok" => Placed(s, ObjectCount)

Closed(s) == volume[ObjectCount] = Whole(s, ObjectCount) => Placed(s, ObjectCount)

(* Every state: what is on the volume is whole, and a stager has placed    *)
(* all the objects before the one it is at.                                *)
IndInv ==
    /\ TypeOK
    /\ \A k \in Objects : volume[k] # NoObject => \E s \in Stagers : volume[k] = Whole(s, k)
    /\ \A s \in Stagers : PartsKept(s) /\ InTurn(s) /\ Closed(s)
=============================================================================
