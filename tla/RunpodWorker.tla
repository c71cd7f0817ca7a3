---------------------------- MODULE RunpodWorker ----------------------------
(***************************************************************************)
(* The RunPod embedding worker (rag-runpod-worker/src/lib.rs).  Pods share *)
(* one network volume.  The process in a Pod works through a consecutive   *)
(* range of assignments; for each it publishes, per task, a vector part, a *)
(* receipt that names the part and a report that names the receipt, and    *)
(* at last the assignment's completion marker.  Every publication is a     *)
(* hard link that never replaces a file, so what one Pod left behind binds *)
(* the next one.                                                           *)
(*                                                                         *)
(* A Pod dies at any step.  The operator launches the next Pod at the      *)
(* first assignment without a marker, possibly while an earlier Pod that   *)
(* could not be deleted still runs; the platform may restart a container   *)
(* with the arguments it had.  Assignments and their tasks are numbered;   *)
(* the first assignment also publishes the query vectors.  No two          *)
(* executions write equal receipts, because a receipt holds the elapsed    *)
(* time: an execution takes an id that nothing uses.                       *)
(***************************************************************************)
EXTENDS Integers, FiniteSets

CONSTANTS
    Pods,             \* Pods that may be alive at one time
    AssignmentCount,  \* bundle.assignments.len()
    TaskCount,        \* tasks of one assignment
    Attempts,         \* attempt ids the operator uses
    Variants,         \* byte strings the model may return for a task
    MaxIds,           \* bound: receipts alive at one time
    MaxFaults,        \* bound: kills and service failures
    None

VARIABLES
    part, receipt, report,  \* the artifacts of every task on the volume
    query,                  \* the query-vectors directory
    marker,                 \* attempts/<worker>/completed.json of an assignment
    failed,                 \* failed.json of every first assignment and attempt
    pc,                     \* step of the worker in a Pod, "off" if it has none
    launch,                 \* its arguments: first and last assignment, attempt
    at, task,               \* current assignment and task
    hand,                   \* the sealed receipt it is publishing
    outputs,                \* what it will name in the marker
    faults

volume == << part, receipt, report, query, marker, failed >>
vars == << volume, pc, launch, at, task, hand, outputs, faults >>

Assignments == 1 .. AssignmentCount
TaskIndexes == 1 .. TaskCount
Tasks == Assignments \X TaskIndexes

Receipts == [id : 1 .. MaxIds, vector : Variants]
Outputs == [result : Variants, receipt : 1 .. MaxIds, report : 1 .. MaxIds]
Markers == [attempt : Attempts, outputs : [TaskIndexes -> Outputs \cup {None}],
            query : Variants \cup {None}]
Launches == [first : Assignments, last : Assignments, attempt : Attempts]

\* None is the absence of a file, of a launch or of a receipt in hand.
ASSUME WorkerAssumption ==
    /\ AssignmentCount \in Nat \ {0}
    /\ TaskCount \in Nat \ {0}
    /\ MaxIds \in Nat
    /\ MaxFaults \in Nat
    /\ None \notin Attempts \cup Variants \cup Receipts \cup Outputs \cup Markers
                  \cup Launches \cup 1 .. MaxIds

Steps == {"off", "load", "marker", "conformance", "query", "publish_query", "task",
          "execute", "publish_receipt", "publish_report", "publish_marker"}

Current(p) == << at[p], task[p] >>

\* The operator's reading of the volume before a launch.
FirstUnfinished ==
    CHOOSE a \in Assignments :
        marker[a] = None /\ \A b \in 1 .. a - 1 : marker[b] # None

IdsInUse ==
    { receipt[t].id : t \in { u \in Tasks : receipt[u] # None } }
    \cup { hand[p].id : p \in { q \in Pods : hand[q] # None } }

\* The elapsed time of an execution is no other receipt's.
Fresh(i) == i \notin IdsInUse /\ 1 .. i - 1 \subseteq IdsInUse

Init ==
    /\ part = [t \in Tasks |-> None]
    /\ receipt = [t \in Tasks |-> None]
    /\ report = [t \in Tasks |-> None]
    /\ query = None
    /\ marker = [a \in Assignments |-> None]
    /\ failed = [x \in Assignments \X Attempts |-> FALSE]
    /\ pc = [p \in Pods |-> "off"]
    /\ launch = [p \in Pods |-> None]
    /\ at = [p \in Pods |-> 1]
    /\ task = [p \in Pods |-> 1]
    /\ hand = [p \in Pods |-> None]
    /\ outputs = [p \in Pods |-> [k \in TaskIndexes |-> None]]
    /\ faults = 0

-----------------------------------------------------------------------------
(* Moves of the worker's control state.                                    *)

Goto(p, step) == pc' = [pc EXCEPT ![p] = step]

(* run: an error is published as failed.json unless this attempt has one   *)
(* already, and the worker ends.                                           *)
Failure(p) ==
    /\ Goto(p, "off")
    /\ failed' = [failed EXCEPT ![<< launch[p].first, launch[p].attempt >>] = TRUE]

Enter(p, a) ==
    /\ at' = [at EXCEPT ![p] = a]
    /\ task' = [task EXCEPT ![p] = 1]
    /\ outputs' = [outputs EXCEPT ![p] = [k \in TaskIndexes |-> None]]

(* The loop over the selected assignments, and its end with tei.stop().    *)
NextAssignment(p) ==
    IF at[p] = launch[p].last
    THEN Goto(p, "off") /\ UNCHANGED << at, task, outputs >>
    ELSE Goto(p, "marker") /\ Enter(p, at[p] + 1)

(* The loop over the tasks of an assignment, with the task's output.       *)
NextTask(p, output) ==
    /\ outputs' = [outputs EXCEPT ![p][task[p]] = output]
    /\ task' = [task EXCEPT ![p] = IF @ = TaskCount THEN @ ELSE @ + 1]
    /\ Goto(p, IF task[p] = TaskCount THEN "publish_marker" ELSE "task")

-----------------------------------------------------------------------------
(* Launches.                                                               *)

Launch(p) ==
    /\ pc[p] = "off"
    /\ \E a \in Assignments : marker[a] = None
    /\ \E last \in FirstUnfinished .. AssignmentCount, attempt \in Attempts :
         launch' = [launch EXCEPT ![p] =
                      [first |-> FirstUnfinished, last |-> last, attempt |-> attempt]]
    /\ Goto(p, "load")
    /\ UNCHANGED << volume, at, task, hand, outputs, faults >>

(* The container is started again with the arguments it had.               *)
Restart(p) ==
    /\ pc[p] = "off"
    /\ launch[p] # None
    /\ \E a \in Assignments : marker[a] = None
    /\ Goto(p, "load")
    /\ UNCHANGED << volume, launch, at, task, hand, outputs, faults >>

(* run_reported up to the first assignment: ValidatedWork::load waits for  *)
(* the observation and selects the range, then TEI becomes healthy.        *)
Load(p) ==
    /\ pc[p] = "load"
    /\ Goto(p, "marker")
    /\ Enter(p, launch[p].first)
    /\ hand' = [hand EXCEPT ![p] = None]
    /\ UNCHANGED << volume, launch, faults >>

-----------------------------------------------------------------------------
(* execute_assignment.                                                     *)

(* An existing marker ends the assignment if this attempt wrote it, and    *)
(* the worker if another did.                                              *)
CheckMarker(p) ==
    /\ pc[p] = "marker"
    /\ IF marker[at[p]] = None
       THEN Goto(p, "conformance") /\ UNCHANGED << failed, at, task, outputs >>
       ELSE IF marker[at[p]].attempt = launch[p].attempt
       THEN NextAssignment(p) /\ UNCHANGED failed
       ELSE Failure(p) /\ UNCHANGED << at, task, outputs >>
    /\ UNCHANGED << part, receipt, report, query, marker, launch, hand, faults >>

Conformance(p) ==
    /\ pc[p] = "conformance"
    /\ Goto(p, IF at[p] = 1 THEN "query" ELSE "task")
    /\ UNCHANGED << volume, launch, at, task, hand, outputs, faults >>

(* execute_query_vector_set: a complete set is reused.                     *)
CheckQuery(p) ==
    /\ pc[p] = "query"
    /\ Goto(p, IF query = None THEN "publish_query" ELSE "task")
    /\ UNCHANGED << volume, launch, at, task, hand, outputs, faults >>

(* write_query_vector_set renames its directory to a path that must still  *)
(* be free.                                                                *)
PublishQuery(p) ==
    /\ pc[p] = "publish_query"
    /\ IF query = None
       THEN (\E v \in Variants : query' = v) /\ Goto(p, "task") /\ UNCHANGED failed
       ELSE Failure(p) /\ UNCHANGED query
    /\ UNCHANGED << part, receipt, report, marker, launch, at, task, hand, outputs, faults >>

\* reusable_output: all three artifacts are there.
Reusable(t) ==
    part[t] # None /\ receipt[t] # None /\ report[t] # None

\* ... and the report names the receipt and the receipt the part.
Chained(t) ==
    report[t] = receipt[t].id /\ part[t] = receipt[t].vector

\* Mutant: a receipt is enough.
CheckTaskTrusting(p) ==
    LET t == Current(p) IN
    /\ pc[p] = "task"
    /\ IF receipt[t] = None
       THEN Goto(p, "execute") /\ UNCHANGED << task, outputs >>
       ELSE NextTask(p, [result |-> part[t], receipt |-> receipt[t].id,
                         report |-> receipt[t].id])
    /\ UNCHANGED << volume, launch, at, hand, faults >>

CheckTask(p) ==
    LET t == Current(p) IN
    /\ pc[p] = "task"
    /\ IF ~ Reusable(t)
       THEN Goto(p, "execute") /\ UNCHANGED << failed, task, outputs >>
       ELSE IF Chained(t)
       THEN /\ NextTask(p, [result |-> part[t], receipt |-> receipt[t].id,
                            report |-> report[t]])
            /\ UNCHANGED failed
       ELSE Failure(p) /\ UNCHANGED << task, outputs >>
    /\ UNCHANGED << part, receipt, report, query, marker, launch, at, hand, faults >>

\* Mutant: an orphan part is refused even if its bytes are the same.
ExecuteOnlyFresh(p) ==
    /\ pc[p] = "execute"
    /\ \E v \in Variants, i \in 1 .. MaxIds :
         /\ Fresh(i)
         /\ IF part[Current(p)] = None
            THEN /\ part' = [part EXCEPT ![Current(p)] = v]
                 /\ hand' = [hand EXCEPT ![p] = [id |-> i, vector |-> v]]
                 /\ Goto(p, "publish_receipt")
                 /\ UNCHANGED failed
            ELSE Failure(p) /\ UNCHANGED << part, hand >>
    /\ UNCHANGED << receipt, report, query, marker, launch, at, task, outputs, faults >>

(* execute_embedding_task_reported (module EmbedTask) links the part or    *)
(* finds the same bytes; then the receipt is built and sealed.             *)
Execute(p) ==
    /\ pc[p] = "execute"
    /\ \E v \in Variants, i \in 1 .. MaxIds :
         /\ Fresh(i)
         /\ IF part[Current(p)] \in {None, v}
            THEN /\ part' = [part EXCEPT ![Current(p)] = v]
                 /\ hand' = [hand EXCEPT ![p] = [id |-> i, vector |-> v]]
                 /\ Goto(p, "publish_receipt")
                 /\ UNCHANGED failed
            ELSE Failure(p) /\ UNCHANGED << part, hand >>
    /\ UNCHANGED << receipt, report, query, marker, launch, at, task, outputs, faults >>

(* publish_no_overwrite of the receipt: no earlier one has its bytes.      *)
PublishReceipt(p) ==
    /\ pc[p] = "publish_receipt"
    /\ IF receipt[Current(p)] = None
       THEN /\ receipt' = [receipt EXCEPT ![Current(p)] = hand[p]]
            /\ Goto(p, "publish_report")
            /\ UNCHANGED failed
       ELSE Failure(p) /\ UNCHANGED receipt
    /\ UNCHANGED << part, report, query, marker, launch, at, task, hand, outputs, faults >>

(* write_task_report, and task_output from the three files.                *)
PublishReport(p) ==
    LET t == Current(p) IN
    /\ pc[p] = "publish_report"
    /\ IF report[t] = None
       THEN /\ report' = [report EXCEPT ![t] = hand[p].id]
            /\ NextTask(p, [result |-> part[t], receipt |-> receipt[t].id,
                            report |-> hand[p].id])
            /\ UNCHANGED failed
       ELSE Failure(p) /\ UNCHANGED << report, task, outputs >>
    /\ hand' = [hand EXCEPT ![p] = None]
    /\ UNCHANGED << part, receipt, query, marker, launch, at, faults >>

(* The marker's times are its own: another attempt's marker has other      *)
(* bytes.                                                                  *)
PublishMarker(p) ==
    /\ pc[p] = "publish_marker"
    /\ IF marker[at[p]] = None
       THEN /\ marker' = [marker EXCEPT ![at[p]] =
                            [attempt |-> launch[p].attempt, outputs |-> outputs[p],
                             query |-> IF at[p] = 1 THEN query ELSE None]]
            /\ NextAssignment(p)
            /\ UNCHANGED failed
       ELSE Failure(p) /\ UNCHANGED << marker, at, task, outputs >>
    /\ UNCHANGED << part, receipt, report, query, launch, hand, faults >>

-----------------------------------------------------------------------------
(* Faults.                                                                 *)

(* A load or health timeout, a failed probe, or a failed model request.    *)
ServiceError(p) ==
    /\ pc[p] \in {"load", "conformance", "publish_query", "execute"}
    /\ faults < MaxFaults
    /\ faults' = faults + 1
    /\ Failure(p)
    /\ UNCHANGED << part, receipt, report, query, marker, launch, at, task, hand, outputs >>

(* The Pod is gone: the platform, the watchdog or a lost machine.          *)
Crash(p) ==
    /\ pc[p] # "off"
    /\ faults < MaxFaults
    /\ faults' = faults + 1
    /\ Goto(p, "off")
    /\ UNCHANGED << volume, launch, at, task, hand, outputs >>

-----------------------------------------------------------------------------
AllMarked == \A a \in Assignments : marker[a] # None

Step(p) ==
    \/ Load(p)
    \/ CheckMarker(p)
    \/ Conformance(p)
    \/ CheckQuery(p)
    \/ PublishQuery(p)
    \/ CheckTask(p)
    \/ Execute(p)
    \/ PublishReceipt(p)
    \/ PublishReport(p)
    \/ PublishMarker(p)

Next == \E p \in Pods : Launch(p) \/ Restart(p) \/ Step(p) \/ ServiceError(p) \/ Crash(p)

Spec == Init /\ [][Next]_vars

\* An execution that finds no part, or one with the bytes of its own vectors.
Reembeds(p) == Execute(p) /\ pc'[p] = "publish_receipt"

(* A worker that nobody stops runs on, and the operator launches a Pod     *)
(* whenever assignments are left and a Pod can be had.  The model is asked *)
(* for the same texts by one Pod after the other: it gives the bytes of an *)
(* orphan part again in the end.  That is an assumption about the service. *)
(* While it answers otherwise, every commit over the part is refused.      *)
Fairness == \A p \in Pods : WF_vars(Step(p)) /\ SF_vars(Launch(p)) /\ SF_vars(Reembeds(p))

FairSpec == Spec /\ Fairness
-----------------------------------------------------------------------------
(* Properties.                                                             *)

(* The type of every variable.                                             *)
TypeOK ==
    /\ part \in [Tasks -> Variants \cup {None}]
    /\ receipt \in [Tasks -> Receipts \cup {None}]
    /\ report \in [Tasks -> 1 .. MaxIds \cup {None}]
    /\ query \in Variants \cup {None}
    /\ marker \in [Assignments -> Markers \cup {None}]
    /\ failed \in [Assignments \X Attempts -> BOOLEAN]
    /\ pc \in [Pods -> Steps]
    /\ launch \in [Pods -> Launches \cup {None}]
    /\ at \in [Pods -> Assignments]
    /\ task \in [Pods -> TaskIndexes]
    /\ hand \in [Pods -> Receipts \cup {None}]
    /\ outputs \in [Pods -> [TaskIndexes -> Outputs \cup {None}]]
    /\ faults \in 0 .. MaxFaults

(* Whatever Pods run at the same time and wherever they die, a completion  *)
(* marker names, for every task, exactly the files on the volume, and      *)
(* these name one another; the first assignment's marker names the query   *)
(* vectors on the volume.  Markers appear in bundle order: the host takes  *)
(* the marker of the last assignment in a range for the completion of the  *)
(* whole range.  And reusable_output never refuses the artifacts that      *)
(* earlier or concurrent workers left, although each writes them one after *)
(* the other.                                                              *)
MarkersSound ==
    /\ \A a \in Assignments : marker[a] # None =>
         /\ \A k \in TaskIndexes :
              /\ Chained(<< a, k >>)
              /\ marker[a].outputs[k] =
                   [result |-> part[<< a, k >>], receipt |-> receipt[<< a, k >>].id,
                    report |-> report[<< a, k >>]]
         /\ a = 1 => marker[a].query = query
         /\ \A b \in 1 .. a - 1 : marker[b] # None
    /\ \A t \in Tasks : Reusable(t) => Chained(t)

\* A receipt whose worker died before it published the report.
HalfPublished ==
    \E t \in Tasks :
        /\ receipt[t] # None
        /\ report[t] = None
        /\ \A p \in Pods : pc[p] = "publish_report" => Current(p) # t

(* Once faults end and the model repeats the bytes of the parts that were  *)
(* published without a receipt, every assignment gets its marker, however  *)
(* often it gave other bytes before; unless a worker died between the      *)
(* receipt and the report of a task.                                       *)
RecoversUnlessHalfPublished == <>(AllMarked \/ HalfPublished)

(* "A failed Pod never invalidates earlier markers, so recovery starts at  *)
(* the first unfinished assignment", and "a completed receipt is the       *)
(* restart authority": once faults end, every assignment gets its marker.  *)
Recovers == <>AllMarked
-----------------------------------------------------------------------------
(* The inductive invariant behind MarkersSound.                            *)

\* A receipt is published over its part, a report over its receipt.
ArtifactsChained ==
    \A t \in Tasks :
        /\ receipt[t] # None => part[t] = receipt[t].vector
        /\ report[t] # None => receipt[t] # None /\ report[t] = receipt[t].id

\* The task's three files are there, name one another and are what output names.
Names(output, t) ==
    /\ Reusable(t)
    /\ Chained(t)
    /\ output = [result |-> part[t], receipt |-> receipt[t].id, report |-> report[t]]

\* What the marker of an assignment says of the volume.
MarkedExact ==
    \A a \in Assignments : marker[a] # None =>
        /\ \A k \in TaskIndexes : Names(marker[a].outputs[k], << a, k >>)
        /\ a = 1 => query # None /\ marker[a].query = query

\* The marked assignments are the first n.
MarkedPrefix ==
    \E n \in 0 .. AssignmentCount :
        \A a \in Assignments : marker[a] # None <=> a <= n

Tasking == {"task", "execute", "publish_receipt", "publish_report"}
Opening == {"marker", "conformance", "query", "publish_query"}

\* Where a worker stands in its range, and that all before it is marked.
InRange(p) ==
    /\ pc[p] # "off" => launch[p] # None
    /\ launch[p] # None =>
         /\ launch[p].first <= launch[p].last
         /\ \A b \in Assignments : b < launch[p].first => marker[b] # None
    /\ pc[p] \notin {"off", "load"} =>
         /\ at[p] <= launch[p].last
         /\ \A b \in Assignments : b < at[p] => marker[b] # None

\* What a worker has done of its assignment.
Progressed(p) ==
    /\ pc[p] \in Opening => task[p] = 1
    /\ pc[p] \in Tasking \cup {"publish_marker"} /\ at[p] = 1 => query # None
    /\ pc[p] \in Tasking => \A k \in TaskIndexes :
         k < task[p] => Names(outputs[p][k], << at[p], k >>)
    /\ pc[p] = "publish_marker" => \A k \in TaskIndexes :
         Names(outputs[p][k], << at[p], k >>)

\* What the receipt in a worker's hand is to the volume.
InHand(p) ==
    /\ pc[p] = "publish_receipt" => hand[p] # None /\ part[Current(p)] = hand[p].vector
    /\ pc[p] = "publish_report" => hand[p] # None /\ receipt[Current(p)] = hand[p]

IndInv ==
    /\ TypeOK
    /\ ArtifactsChained
    /\ MarkedExact
    /\ MarkedPrefix
    /\ \A p \in Pods : InRange(p) /\ Progressed(p) /\ InHand(p)
=============================================================================
