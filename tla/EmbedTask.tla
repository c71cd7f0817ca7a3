----------------------------- MODULE EmbedTask -----------------------------
(***************************************************************************)
(* One call of execute_embedding_task_reported (rag-embedding/src/task.rs). *)
(*                                                                         *)
(* The ordered texts of a task are cut into batches.  At most MaxInFlight  *)
(* batches run as tokio tasks in a JoinSet; each one asks the embedding    *)
(* service, retries temporary failures with a back-off and returns its     *)
(* vectors in any order.  The main loop joins them, parks early ones in a  *)
(* reorder buffer (completed), writes the vectors in order to a staging    *)
(* file and finally links the staging file to the output path, which it    *)
(* never overwrites (AtomicFilePublication, rag-embedding/src/shard.rs).   *)
(*                                                                         *)
(* The vectors the service returns for a row are abstracted to a member of *)
(* Variants: two members are two different byte strings for the same text. *)
(***************************************************************************)
EXTENDS Integers, Sequences, FiniteSets, Functions

CONSTANTS
    RowCount,      \* texts.len()
    BatchSize,     \* EmbeddingTaskOptions::batch_size
    MaxInFlight,   \* EmbeddingTaskOptions::max_in_flight
    MaxAttempts,   \* RetryPolicy::max_attempts
    Variants,      \* the byte strings the service may return for a row
    WrongModel,    \* a response whose returned_model is not profile.model
    BadVector,     \* a response with a vector that validate_vector refuses
    TaskError      \* a batch task that returned Err

\* The early returns of execute_embedding_task_reported: an empty task and
\* options outside EmbeddingTaskOptions::validate are refused.
ASSUME OptionsAssumption ==
    /\ RowCount \in Nat \ {0}
    /\ BatchSize \in 1..32
    /\ MaxInFlight \in 1..256
    /\ MaxAttempts \in 1..32

ASSUME AnswerAssumption ==
    /\ Variants # {}
    /\ WrongModel \notin Variants
    /\ BadVector \notin Variants
    /\ TaskError \notin Variants
    /\ Cardinality({WrongModel, BadVector, TaskError}) = 3

VARIABLES
    pc,          \* where the main loop is
    nextSpawn,   \* ordinal of the next batch to spawn
    nextWrite,   \* ordinal of the next batch to write
    active,      \* the loop's own count of batches in the JoinSet
    phase,       \* where each batch is
    attempts,    \* requests sent for each batch
    answer,      \* what the batch task returned
    written,     \* the rows in the staging file
    staged,      \* the staging file exists
    output,      \* the shard at the output path, NoFile when there is none
    requests,    \* EmbeddingTaskStats::requests
    retries      \* EmbeddingTaskStats::retries

vars == << pc, nextSpawn, nextWrite, active, phase, attempts, answer,
           written, staged, output, requests, retries >>

-----------------------------------------------------------------------------
(* Batches, rows and shards.                                               *)

TotalBatches == (RowCount + BatchSize - 1) \div BatchSize

Batches == 0 .. TotalBatches - 1

\* The number of rows before batch b: the start of its slice of texts.
RowsBefore(b) ==
    IF b * BatchSize <= RowCount THEN b * BatchSize ELSE RowCount

Row == [row : 1 .. RowCount, vector : Variants]

\* The rows that batch b contributes when the service answered v.
BatchRows(b, v) ==
    [i \in 1 .. RowsBefore(b + 1) - RowsBefore(b) |->
        [row |-> RowsBefore(b) + i, vector |-> v]]

\* A complete shard: the rows of all texts, in the order of the texts.
Shards ==
    { [i \in 1 .. RowCount |-> [row |-> i, vector |-> f[i]]] :
        f \in [1 .. RowCount -> Variants] }

NoFile == << >>

Answers == Variants \cup {WrongModel, BadVector, TaskError}

Phases == {"unspawned", "request", "backoff", "returned", "completed", "written"}

Terminal == {"done", "failed", "crashed"}

JoinSet == { b \in Batches : phase[b] \in {"request", "backoff", "returned"} }

\* The reorder buffer of the loop.
Completed == { b \in Batches : phase[b] = "completed" }

-----------------------------------------------------------------------------
Init ==
    /\ pc = "feed"
    /\ nextSpawn = 0
    /\ nextWrite = 0
    /\ active = 0
    /\ phase = [b \in Batches |-> "unspawned"]
    /\ attempts = [b \in Batches |-> 0]
    /\ answer = [b \in Batches |-> TaskError]
    /\ written = << >>
    /\ staged = TRUE
    /\ output \in {NoFile} \cup Shards
    /\ requests = 0
    /\ retries = 0

(* Returning Err drops the JoinSet, which aborts the batch tasks, and the  *)
(* uncommitted publication.  Its destructor removes the staging file, and  *)
(* ignores it when that fails: the file may stay.                          *)
Fail ==
    /\ pc' = "failed"
    /\ staged' \in {FALSE, staged}

\* Mutated form of MaySpawn: the last batch is never spawned.
MaySpawnAllButLast ==
    /\ active < MaxInFlight
    /\ nextSpawn < TotalBatches - 1
    /\ Cardinality(Completed) < MaxInFlight

(* The condition of both spawning loops (the reorder buffer is still empty *)
(* in the first one).                                                      *)
MaySpawn ==
    /\ active < MaxInFlight
    /\ nextSpawn < TotalBatches
    /\ Cardinality(Completed) < MaxInFlight

(* spawn_batch: the new task counts its first attempt and sends it.        *)
SpawnBatch ==
    /\ pc = "feed"
    /\ MaySpawn
    /\ phase' = [phase EXCEPT ![nextSpawn] = "request"]
    /\ attempts' = [attempts EXCEPT ![nextSpawn] = 1]
    /\ active' = active + 1
    /\ nextSpawn' = nextSpawn + 1
    /\ UNCHANGED << pc, nextWrite, answer, written, staged, output, requests, retries >>

(* The end of the spawning loop and the test of the outer loop.            *)
EndFeed ==
    /\ pc = "feed"
    /\ ~ MaySpawn
    /\ pc' = IF nextWrite < TotalBatches THEN "join" ELSE "finish"
    /\ UNCHANGED << nextSpawn, nextWrite, active, phase, attempts, answer,
                    written, staged, output, requests, retries >>

-----------------------------------------------------------------------------
(* The batch task: one response of the service, or the end of a back-off.  *)

\* A response with the right cardinality ends the task.
Respond(b, v) ==
    /\ pc \notin Terminal
    /\ phase[b] = "request"
    /\ v \in Answers \ {TaskError}
    /\ phase' = [phase EXCEPT ![b] = "returned"]
    /\ answer' = [answer EXCEPT ![b] = v]
    /\ UNCHANGED << pc, nextSpawn, nextWrite, active, attempts, written,
                    staged, output, requests, retries >>

\* A temporary failure (timeout, 408, 429, 5xx) is retried while attempts remain.
TemporaryFailure(b) ==
    /\ pc \notin Terminal
    /\ phase[b] = "request"
    /\ attempts[b] < MaxAttempts
    /\ phase' = [phase EXCEPT ![b] = "backoff"]
    /\ UNCHANGED << pc, nextSpawn, nextWrite, active, attempts, answer,
                    written, staged, output, requests, retries >>

\* The last temporary failure, a permanent one or a wrong cardinality.
PermanentFailure(b) ==
    /\ pc \notin Terminal
    /\ phase[b] = "request"
    /\ phase' = [phase EXCEPT ![b] = "returned"]
    /\ answer' = [answer EXCEPT ![b] = TaskError]
    /\ UNCHANGED << pc, nextSpawn, nextWrite, active, attempts, written,
                    staged, output, requests, retries >>

\* Mutated form of Retry: the new attempt is not counted.
RetryUncounted(b) ==
    /\ pc \notin Terminal
    /\ phase[b] = "backoff"
    /\ phase' = [phase EXCEPT ![b] = "request"]
    /\ UNCHANGED << pc, nextSpawn, nextWrite, active, attempts, answer, written,
                    staged, output, requests, retries >>

\* The sleep ends: the loop of the task counts and sends the next attempt.
Retry(b) ==
    /\ pc \notin Terminal
    /\ phase[b] = "backoff"
    /\ phase' = [phase EXCEPT ![b] = "request"]
    /\ attempts' = [attempts EXCEPT ![b] = @ + 1]
    /\ UNCHANGED << pc, nextSpawn, nextWrite, active, answer, written,
                    staged, output, requests, retries >>

-----------------------------------------------------------------------------
(* The main loop.                                                          *)

(* join_next returns the result of any batch task that has ended.  On an   *)
(* empty JoinSet the code returns Err("embedding task join set"); that no  *)
(* state gets there is the property LoopNeverStarves.                      *)
Join(b) ==
    /\ pc = "join"
    /\ phase[b] = "returned"
    /\ IF answer[b] = TaskError
       THEN /\ Fail
            /\ UNCHANGED << active, phase >>
       ELSE /\ pc' = "drain"
            /\ active' = active - 1
            /\ phase' = [phase EXCEPT ![b] = "completed"]
            /\ UNCHANGED staged
    /\ UNCHANGED << nextSpawn, nextWrite, attempts, answer, written, output,
                    requests, retries >>

(* Mutated form of DrainBatch: every attempt is counted as a retry.        *)
DrainBatchAllRetries ==
    /\ pc = "drain"
    /\ nextWrite \in Completed
    /\ IF answer[nextWrite] \in Variants
       THEN /\ written' = written \o BatchRows(nextWrite, answer[nextWrite])
            /\ requests' = requests + attempts[nextWrite]
            /\ retries' = retries + attempts[nextWrite]
            /\ phase' = [phase EXCEPT ![nextWrite] = "written"]
            /\ nextWrite' = nextWrite + 1
            /\ UNCHANGED << pc, staged >>
       ELSE /\ Fail
            /\ UNCHANGED << nextWrite, phase, written, requests, retries >>
    /\ UNCHANGED << nextSpawn, active, attempts, answer, output >>

(* One turn of the drain loop: the next batch in order is taken out of the *)
(* buffer, its model and its vectors are validated and written.            *)
DrainBatch ==
    /\ pc = "drain"
    /\ nextWrite \in Completed
    /\ IF answer[nextWrite] \in Variants
       THEN /\ written' = written \o BatchRows(nextWrite, answer[nextWrite])
            /\ requests' = requests + attempts[nextWrite]
            /\ retries' = retries + (attempts[nextWrite] - 1)
            /\ phase' = [phase EXCEPT ![nextWrite] = "written"]
            /\ nextWrite' = nextWrite + 1
            /\ UNCHANGED << pc, staged >>
       ELSE /\ Fail
            /\ UNCHANGED << nextWrite, phase, written, requests, retries >>
    /\ UNCHANGED << nextSpawn, active, attempts, answer, output >>

EndDrain ==
    /\ pc = "drain"
    /\ nextWrite \notin Completed
    /\ pc' = "feed"
    /\ UNCHANGED << nextSpawn, nextWrite, active, phase, attempts, answer,
                    written, staged, output, requests, retries >>

(* EmbeddingShardWriter::finish refuses a shard that is not complete.      *)
Finish ==
    /\ pc = "finish"
    /\ IF Len(written) = RowCount
       THEN pc' = "link" /\ UNCHANGED staged
       ELSE Fail
    /\ UNCHANGED << nextSpawn, nextWrite, active, phase, attempts, answer,
                    written, output, requests, retries >>

(* Mutated form of Link: a rename, which replaces the file that is there.  *)
LinkByRename ==
    /\ pc = "link"
    /\ output' = written
    /\ pc' = "unlink"
    /\ UNCHANGED << nextSpawn, nextWrite, active, phase, attempts, answer,
                    written, staged, requests, retries >>

(* AtomicFilePublication::commit, first half: hard_link never replaces.    *)
Link ==
    /\ pc = "link"
    /\ output' = IF output = NoFile THEN written ELSE output
    /\ pc' = "unlink"
    /\ UNCHANGED << nextSpawn, nextWrite, active, phase, attempts, answer,
                    written, staged, requests, retries >>

\* Mutated form of Unlink: an existing shard is trusted.
UnlinkTrusting ==
    /\ pc = "unlink"
    /\ staged' = FALSE
    /\ pc' = "verify"
    /\ UNCHANGED << nextSpawn, nextWrite, active, phase, attempts, answer,
                    written, output, requests, retries >>

(* The staging file is removed, and a shard that was there before must     *)
(* have the digest of the staged one.                                      *)
Unlink ==
    /\ pc = "unlink"
    /\ staged' = FALSE
    /\ pc' = IF output = written THEN "verify" ELSE "failed"
    /\ UNCHANGED << nextSpawn, nextWrite, active, phase, attempts, answer,
                    written, output, requests, retries >>

(* open_expected and validate_normalization on the published shard.        *)
Verify ==
    /\ pc = "verify"
    /\ pc' = IF output \in Shards THEN "done" ELSE "failed"
    /\ UNCHANGED << nextSpawn, nextWrite, active, phase, attempts, answer,
                    written, staged, output, requests, retries >>

(* A write, flush, sync, link, removal or read of the file system fails.   *)
(* At "unlink" it is fs::remove_file of the staging file: the shard stays  *)
(* published, and the destructor tries the removal once more.              *)
IoError ==
    /\ pc \in {"drain", "finish", "link", "unlink", "verify"}
    /\ Fail
    /\ UNCHANGED << nextSpawn, nextWrite, active, phase, attempts, answer,
                    written, output, requests, retries >>

-----------------------------------------------------------------------------
(* The environment.                                                        *)

(* The process dies: nothing runs its destructors, so a staging file stays. *)
Crash ==
    /\ pc \notin Terminal
    /\ pc' = "crashed"
    /\ UNCHANGED << nextSpawn, nextWrite, active, phase, attempts, answer,
                    written, staged, output, requests, retries >>

(* Another process that executes the same task links its shard first.      *)
RivalPublishes ==
    /\ output = NoFile
    /\ output' \in Shards
    /\ UNCHANGED << pc, nextSpawn, nextWrite, active, phase, attempts, answer,
                    written, staged, requests, retries >>

Loop ==
    \/ SpawnBatch
    \/ EndFeed
    \/ \E b \in Batches : Join(b)
    \/ DrainBatch
    \/ EndDrain
    \/ Finish
    \/ Link
    \/ Unlink
    \/ Verify

Ended == pc \in Terminal /\ UNCHANGED vars

Next ==
    \/ Loop
    \/ \E b \in Batches :
         \/ \E v \in Answers : Respond(b, v)
         \/ TemporaryFailure(b)
         \/ PermanentFailure(b)
         \/ Retry(b)
    \/ IoError
    \/ Crash
    \/ RivalPublishes
    \/ Ended

Spec == Init /\ [][Next]_vars

(* The runtime runs the loop and the sleeping tasks, and the HTTP client's *)
(* timeout (300 s by default) turns a silent service into an answer.       *)
Fairness ==
    /\ WF_vars(Loop)
    /\ \A b \in Batches :
         /\ WF_vars(Retry(b))
         /\ WF_vars(\/ \E v \in Answers : Respond(b, v)
                    \/ TemporaryFailure(b)
                    \/ PermanentFailure(b))

FairSpec == Spec /\ Fairness
-----------------------------------------------------------------------------
(* Properties.                                                             *)

(* The type of every variable; in particular no batch is sent more than    *)
(* max_attempts times (spawn_batch).                                       *)
TypeOK ==
    /\ pc \in {"feed", "join", "drain", "finish", "link", "unlink", "verify"} \cup Terminal
    /\ nextSpawn \in 0 .. TotalBatches
    /\ nextWrite \in 0 .. TotalBatches
    /\ active \in 0 .. MaxInFlight
    /\ phase \in [Batches -> Phases]
    /\ attempts \in [Batches -> 0 .. MaxAttempts]
    /\ answer \in [Batches -> Answers]
    /\ written \in Seq(Row)
    /\ staged \in BOOLEAN
    /\ output \in {NoFile} \cup Shards
    /\ requests \in Nat
    /\ retries \in Nat

(* "Active requests plus this reorder buffer are bounded to at most twice  *)
(* max_in_flight": one slow early batch must not let the loop buffer the   *)
(* vectors of every later one.                                             *)
ReorderBound ==
    Cardinality(JoinSet) + Cardinality(Completed) <= 2 * MaxInFlight

(* The loop only waits in join_next while a batch is in the JoinSet: the   *)
(* bound on the reorder buffer never leaves it with nothing to wait for.   *)
LoopNeverStarves ==
    pc = "join" => JoinSet # {}

(* A call that returns Ok has the vectors of exactly its own responses at  *)
(* the output path, each at the row of its text, whatever the order of the *)
(* responses and whatever another process published before, and no staging *)
(* file beside it.  (A call that returns Err may leave one.)               *)
DoneIsOwnResult ==
    pc = "done" =>
        /\ \A b \in Batches : \A i \in RowsBefore(b) + 1 .. RowsBefore(b + 1) :
             output[i] = [row |-> i, vector |-> answer[b]]
        /\ ~ staged

(* The counters a successful call reports are the requests really sent.    *)
StatsExact ==
    pc = "done" =>
        /\ requests = SumFunction(attempts)
        /\ retries = requests - TotalBatches

(* The detailed executor implements the publication promise: readers of    *)
(* the output path see a complete shard in text order or no file, and the  *)
(* file never changes afterwards.                                          *)
Publication == INSTANCE PublishOnce WITH Values <- Shards, Absent <- NoFile, file <- output

PublishesOnce == Publication!Spec

(* Every call ends, also when responses come late, fail or are retried.    *)
Termination == <>(pc \in Terminal)
-----------------------------------------------------------------------------
(* The inductive invariant behind the safety properties.                   *)

\* Batches are spawned and written in order.
InOrder ==
    /\ nextWrite <= nextSpawn
    /\ \A b \in Batches :
         /\ phase[b] = "written" <=> b < nextWrite
         /\ phase[b] = "unspawned" <=> nextSpawn <= b
         /\ phase[b] # "unspawned" => attempts[b] >= 1
         /\ phase[b] = "backoff" => attempts[b] < MaxAttempts

\* The loop's counter is the JoinSet's size, and with the buffer it is bounded.
Counted ==
    /\ active = Cardinality(JoinSet)
    /\ active + Cardinality(Completed) < 2 * MaxInFlight

\* What the loop has established when it feeds and when it waits.
Waiting ==
    /\ pc \in {"feed", "join"} => nextWrite \notin Completed
    /\ pc = "join" => nextWrite < TotalBatches /\ ~ MaySpawn

\* The staging file holds the rows of the written batches.
RowsOf ==
    /\ Len(written) = RowsBefore(nextWrite)
    /\ \A i \in 1 .. Len(written) : written[i].row = i
    /\ \A b \in Batches : b < nextWrite =>
         \A i \in RowsBefore(b) + 1 .. RowsBefore(b + 1) :
            written[i] = [row |-> i, vector |-> answer[b]]

\* What holds at the steps after the loop.
Ending ==
    /\ pc \in {"finish", "link", "unlink", "verify", "done"} => nextWrite = TotalBatches
    /\ pc \in {"link", "unlink", "verify", "done"} => Len(written) = RowCount
    /\ pc \in {"verify", "done"} => output = written
    /\ pc \in {"verify", "done"} => ~ staged

IndInv == TypeOK /\ InOrder /\ Counted /\ Waiting /\ RowsOf /\ Ending
=============================================================================
