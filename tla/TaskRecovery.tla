---------------------------- MODULE TaskRecovery ----------------------------
(***************************************************************************)
(* The artifacts of one embedding task on disk and the commands that work  *)
(* on them (rag-builder/src/portable.rs): `rag embed` and `rag embed-tei`, *)
(* `rag recover-embedding-task` with its quarantine and restore actions,   *)
(* and `rag finalize-embeddings`.                                          *)
(*                                                                         *)
(* A task has a vector part, a receipt that names the part's digest and a  *)
(* report that names the receipt's digest; each of the three may also have *)
(* a quarantined predecessor beside it.  A command is a sequence of        *)
(* renames, links and atomic writes and may be killed between any two of   *)
(* them.  Between commands a file may be damaged on disk.  Two processes   *)
(* never work on the same task, so one command runs at a time.             *)
(*                                                                         *)
(* A part is its bytes (a member of Variants), a receipt or report its     *)
(* identity and what it binds.  Two executions never write equal receipts, *)
(* because a receipt holds the elapsed time: an execution takes an id that *)
(* nothing on disk uses.                                                   *)
(***************************************************************************)
EXTENDS Integers, FiniteSets

CONSTANTS
    Backends,     \* "lmstudio" (embed), "tei" (embed-tei)
    Variants,     \* byte strings the service may return for the task
    Identities,   \* execution identities a TEI worker context may name
    MaxIds,       \* bound: receipt identities alive on disk at one time
    Commands,     \* the commands the operator runs
    MaxFaults,    \* bound: kills and damaged files together, for each backend
    MaxDamage,    \* bound: files damaged on disk
    NoFile,       \* nothing at the path
    Corrupt       \* bytes that fail every validation

VARIABLES
    file,       \* content of the part, the receipt and the report
    held,       \* content of their quarantine siblings
    summary,    \* the report that summary.json was computed from
    manifest,   \* receipt identity in manifest.json
    pc,         \* step of the running command
    command,    \* the running or last command
    outcome,    \* how the last command ended
    receipt,    \* the receipt in the command's hands
    seen,       \* what inspect_embedding_task_artifacts found
    identity,   \* execution identity of the running embed-tei
    authority,  \* the task had a valid receipt and part when embed started
    backend,    \* the command that embeds this task
    crashes, damage

vars == << file, held, summary, manifest, pc, command, outcome, receipt, seen,
           identity, authority, backend, crashes, damage >>

\* The variables that only Start, Crash and Damage change.
session == << command, identity, authority, backend, crashes, damage >>

Files == {"part", "receipt", "report"}

Receipts == [id : 1 .. MaxIds, vector : Variants]

\* A report names its receipt; one written for a reused task has no execution.
Reports == [id : 1 .. MaxIds, identity : Identities \cup {NoFile}, how : {"executed", "reused"}]

\* What may be at a path.
Contents == Variants \cup Receipts \cup Reports \cup {NoFile, Corrupt}

ASSUME RecoveryAssumption ==
    /\ Backends \subseteq {"lmstudio", "tei"}
    /\ Commands \subseteq {"embed", "quarantine", "restore", "finalize"}
    /\ MaxIds \in Nat /\ MaxDamage \in Nat
    /\ \A b \in Backends : MaxFaults[b] \in Nat
    /\ NoFile # Corrupt
    /\ {NoFile, Corrupt} \cap (Variants \cup Receipts \cup Reports \cup 1 .. MaxIds) = {}

\* embed has no worker context.
Contexts == IF backend = "tei" THEN Identities ELSE {NoFile}

-----------------------------------------------------------------------------
(* Predicates on the artifacts.                                            *)

Exists(f) == file[f] # NoFile

\* The receipt parses and binds plan, model and runtime.
Readable == file["receipt"] \in Receipts

\* verify_embedding_task_part with the receipt's digest.
PartMatches(r) == file["part"] = r.vector

ReceiptAndPart == Readable /\ PartMatches(file["receipt"])

\* validate_task_report / validate_task_report_v2: the report names receipt r.
ReportMatches(r) == file["report"] \in Reports /\ file["report"].id = r.id

Bound == ReceiptAndPart /\ ReportMatches(file["receipt"])

NothingHeld == \A f \in Files : held[f] = NoFile

\* Everything finalize-embeddings asks of a task.
Complete == Bound /\ NothingHeld

\* Receipt identities on disk.
IdsInUse ==
    { x.id : x \in ({file["receipt"], held["receipt"]} \cap Receipts)
                   \cup ({file["report"], held["report"], summary} \cap Reports) }
    \cup { i \in 1 .. MaxIds : manifest = i }

\* The elapsed time of an execution is no other receipt's.
Fresh(i) == i \notin IdsInUse /\ 1 .. i - 1 \subseteq IdsInUse

-----------------------------------------------------------------------------
(* Endings and file operations.                                            *)

Ok == pc' = "idle" /\ outcome' = "ok"

Err == pc' = "idle" /\ outcome' = "error"

Goto(step) == pc' = step /\ UNCHANGED outcome

SetFile(f, content) == file' = [file EXCEPT ![f] = content]

MoveAside(f) ==
    /\ SetFile(f, NoFile)
    /\ held' = [held EXCEPT ![f] = file[f]]

\* quarantine_regular_file: refuses a second quarantine of the same file.
Quarantine(f, next) ==
    IF Exists(f) /\ held[f] = NoFile
    THEN MoveAside(f) /\ Goto(next)
    ELSE Err /\ UNCHANGED << file, held >>

QuarantineIfPresent(f, next) ==
    IF Exists(f) THEN Quarantine(f, next) ELSE Goto(next) /\ UNCHANGED << file, held >>

-----------------------------------------------------------------------------
Init ==
    /\ file = [f \in Files |-> NoFile]
    /\ held = [f \in Files |-> NoFile]
    /\ summary = NoFile
    /\ manifest = NoFile
    /\ pc = "idle"
    /\ command = "none"
    /\ outcome = "none"
    /\ receipt = NoFile
    /\ seen = [f \in Files |-> "absent"]
    /\ identity = NoFile
    /\ authority = FALSE
    /\ backend \in Backends
    /\ crashes = 0
    /\ damage = 0

FirstStep(c) ==
    CASE c = "embed" -> "validate"
      [] c = "quarantine" -> "inspect"
      [] c = "restore" -> "restore_part"
      [] c = "finalize" -> "finalize_check"

Start(c) ==
    /\ pc = "idle"
    /\ c \in Commands
    /\ pc' = FirstStep(c)
    /\ command' = c
    /\ identity' \in Contexts
    /\ authority' = ReceiptAndPart
    /\ receipt' = NoFile
    /\ seen' = [f \in Files |-> "absent"]
    /\ UNCHANGED << file, held, summary, manifest, outcome, backend, crashes, damage >>

-----------------------------------------------------------------------------
(* embed and embed-tei.                                                    *)

\* Mutant: a receipt counts only with its report.
ValidateCompletedWithReport ==
    /\ pc = "validate"
    /\ Goto(IF Bound THEN "ensure_report"
            ELSE IF Exists("receipt") THEN "quarantine_receipt" ELSE "quarantine_report")
    /\ receipt' = IF Bound THEN file["receipt"] ELSE receipt
    /\ UNCHANGED << file, held, summary, manifest, seen, session >>

(* validate_completed_embedding_task_v2, first part: a receipt counts only *)
(* if the part has its digest; a wrong part is moved aside at once, unless *)
(* there is already one in quarantine.                                     *)
ValidateCompleted ==
    /\ pc = "validate"
    /\ IF ~ Exists("receipt")
       THEN /\ Goto(IF backend = "tei" THEN "prepare" ELSE "quarantine_report")
            /\ UNCHANGED << file, held, receipt >>
       ELSE IF ReceiptAndPart
       THEN /\ Goto(IF backend = "tei" THEN "reuse_tei" ELSE "ensure_report")
            /\ receipt' = file["receipt"]
            /\ UNCHANGED << file, held >>
       ELSE /\ Goto("quarantine_receipt")
            /\ IF Readable /\ Exists("part") /\ held["part"] = NoFile
               THEN MoveAside("part")
               ELSE UNCHANGED << file, held >>
            /\ UNCHANGED receipt
    /\ UNCHANGED << summary, manifest, seen, session >>

(* embed-tei reuses a task only with a report of the same execution.       *)
ReuseTei ==
    /\ pc = "reuse_tei"
    /\ Goto(IF ReportMatches(receipt) /\ file["report"].identity = identity
            THEN "complete_part" ELSE "quarantine_receipt")
    /\ UNCHANGED << file, held, summary, manifest, receipt, seen, session >>

\* Mutant: the refused receipt stays where it is.
QuarantineReceiptSkipped ==
    /\ pc = "quarantine_receipt"
    /\ Goto("quarantine_report")
    /\ UNCHANGED << file, held, summary, manifest, receipt, seen, session >>

QuarantineReceipt ==
    /\ pc = "quarantine_receipt"
    /\ Quarantine("receipt", "quarantine_report")
    /\ UNCHANGED << summary, manifest, receipt, seen, session >>

(* The report of the refused receipt; embed also removes one without any   *)
(* receipt here.                                                           *)
QuarantineReport ==
    /\ pc = "quarantine_report"
    /\ QuarantineIfPresent("report", "prepare")
    /\ UNCHANGED << summary, manifest, receipt, seen, session >>

(* prepare_embedding_task_part without a digest.                           *)
PreparePart ==
    /\ pc = "prepare"
    /\ IF file["part"] = Corrupt
       THEN Quarantine("part", "execute")
       ELSE Goto("execute") /\ UNCHANGED << file, held >>
    /\ UNCHANGED << summary, manifest, receipt, seen, session >>

\* Mutant: an orphan part is refused even if its bytes are the same.
ExecuteOnlyFresh ==
    /\ pc = "execute"
    /\ \E v \in Variants :
         IF Exists("part") THEN Err /\ UNCHANGED file
                           ELSE SetFile("part", v) /\ Goto("seal_receipt")
    /\ UNCHANGED << held, summary, manifest, receipt, seen, session >>

(* execute_embedding_task_reported (module EmbedTask): the part is linked, *)
(* or the one that is there has the same bytes.                            *)
Execute ==
    /\ pc = "execute"
    /\ \E v \in Variants :
         IF file["part"] \in {NoFile, v}
         THEN SetFile("part", v) /\ Goto("seal_receipt")
         ELSE Err /\ UNCHANGED file
    /\ UNCHANGED << held, summary, manifest, receipt, seen, session >>

(* verify_embedding_task_part, and a receipt that names the verified bytes. *)
SealReceipt ==
    /\ pc = "seal_receipt"
    /\ \E i \in 1 .. MaxIds :
         Fresh(i) /\ receipt' = [id |-> i, vector |-> file["part"]]
    /\ Goto("write_receipt")
    /\ UNCHANGED << file, held, summary, manifest, seen, session >>

(* write_canonical_json renames over whatever is at the path.              *)
WriteReceipt ==
    /\ pc = "write_receipt"
    /\ SetFile("receipt", receipt)
    /\ Goto("ensure_report")
    /\ UNCHANGED << held, summary, manifest, receipt, seen, session >>

(* ensure_task_report keeps a report that names the receipt; embed-tei,    *)
(* which only gets here after an execution, keeps none.                    *)
EnsureReport ==
    /\ pc = "ensure_report"
    /\ IF backend = "lmstudio" /\ ReportMatches(receipt)
       THEN Goto("complete_part") /\ UNCHANGED << file, held >>
       ELSE QuarantineIfPresent("report", "write_report")
    /\ UNCHANGED << summary, manifest, receipt, seen, session >>

WriteReport ==
    /\ pc = "write_report"
    /\ SetFile("report",
         [id |-> receipt.id, identity |-> identity,
          how |-> IF backend = "lmstudio" /\ authority THEN "reused" ELSE "executed"])
    /\ Goto("complete_part")
    /\ UNCHANGED << held, summary, manifest, receipt, seen, session >>

(* complete_embedding_task_part_recovery verifies the part again before it *)
(* removes the quarantined one.                                            *)
CompletePart ==
    /\ pc = "complete_part"
    /\ IF PartMatches(receipt)
       THEN held' = [held EXCEPT !["part"] = NoFile] /\ Goto("complete_receipt")
       ELSE Err /\ UNCHANGED held
    /\ UNCHANGED << file, summary, manifest, receipt, seen, session >>

(* complete_regular_file_recovery: the replacement must exist.             *)
CompleteReceipt ==
    /\ pc = "complete_receipt"
    /\ IF Exists("receipt")
       THEN held' = [held EXCEPT !["receipt"] = NoFile] /\ Goto("complete_report")
       ELSE Err /\ UNCHANGED held
    /\ UNCHANGED << file, summary, manifest, receipt, seen, session >>

CompleteReport ==
    /\ pc = "complete_report"
    /\ IF Exists("report")
       THEN held' = [held EXCEPT !["report"] = NoFile] /\ Ok
       ELSE Err /\ UNCHANGED held
    /\ UNCHANGED << file, summary, manifest, receipt, seen, session >>

-----------------------------------------------------------------------------
(* recover-embedding-task.                                                 *)

(* inspect_embedding_task_artifacts; it only decodes version 1 reports,    *)
(* the ones that embed writes.                                             *)
Inspection ==
    [part |-> IF ReceiptAndPart THEN "valid"
              ELSE IF ~ Readable /\ file["part"] \in Variants THEN "orphan"
              ELSE IF Exists("part") THEN "invalid" ELSE "absent",
     receipt |-> IF Readable THEN "valid"
                 ELSE IF Exists("receipt") THEN "invalid" ELSE "absent",
     report |-> IF Readable /\ backend = "lmstudio" /\ ReportMatches(file["receipt"])
                THEN "valid"
                ELSE IF ~ Exists("report") THEN "absent"
                ELSE IF Readable THEN "invalid" ELSE "orphan"]

InspectionComplete(i) == \A f \in Files : i[f] = "valid"

\* Mutant: a complete task is not left alone.
InspectAlways ==
    /\ pc = "inspect"
    /\ seen' = Inspection
    /\ Goto("set_aside_part")
    /\ UNCHANGED << file, held, summary, manifest, receipt, session >>

Inspect ==
    /\ pc = "inspect"
    /\ seen' = Inspection
    /\ IF InspectionComplete(Inspection) THEN Ok ELSE Goto("set_aside_part")
    /\ UNCHANGED << file, held, summary, manifest, receipt, session >>

(* quarantine_embedding_task_artifacts, one file after the other.          *)
SetAsidePart ==
    /\ pc = "set_aside_part"
    /\ IF seen["part"] \in {"invalid", "orphan"}
       THEN Quarantine("part", "set_aside_receipt")
       ELSE Goto("set_aside_receipt") /\ UNCHANGED << file, held >>
    /\ UNCHANGED << summary, manifest, receipt, seen, session >>

SetAsideReceipt ==
    /\ pc = "set_aside_receipt"
    /\ IF seen["receipt"] # "valid" \/ seen["part"] # "valid"
       THEN QuarantineIfPresent("receipt", "set_aside_report")
       ELSE Goto("set_aside_report") /\ UNCHANGED << file, held >>
    /\ UNCHANGED << summary, manifest, receipt, seen, session >>

\* An incomplete inspection never leaves the report in place.
SetAsideReport ==
    /\ pc = "set_aside_report"
    /\ IF Exists("report") /\ held["report"] # NoFile
       THEN Err /\ UNCHANGED << file, held >>
       ELSE /\ IF Exists("report") THEN MoveAside("report") ELSE UNCHANGED << file, held >>
            /\ Ok
    /\ UNCHANGED << summary, manifest, receipt, seen, session >>

(* restore_embedding_task_artifacts: a quarantined file goes back only to  *)
(* an empty path.                                                          *)
PutBack(f) ==
    /\ SetFile(f, held[f])
    /\ held' = [held EXCEPT ![f] = NoFile]

Restore(f, step, next) ==
    /\ pc = step
    /\ IF held[f] # NoFile /\ Exists(f)
       THEN Err /\ UNCHANGED << file, held >>
       ELSE /\ IF held[f] # NoFile THEN PutBack(f) ELSE UNCHANGED << file, held >>
            /\ IF next = "idle" THEN Ok ELSE Goto(next)
    /\ UNCHANGED << summary, manifest, receipt, seen, session >>

RestoreFiles ==
    \/ Restore("part", "restore_part", "restore_receipt")
    \/ Restore("receipt", "restore_receipt", "restore_report")
    \/ Restore("report", "restore_report", "idle")

-----------------------------------------------------------------------------
(* finalize-embeddings.                                                    *)

(* validate_complete_embedding_tasks_v2.                                   *)
FinalizeCheck ==
    /\ pc = "finalize_check"
    /\ IF Bound THEN Goto("finalize_summary") ELSE Err
    /\ UNCHANGED << file, held, summary, manifest, receipt, seen, session >>

(* An existing summary must equal the one computed from the reports now.   *)
FinalizeSummary ==
    /\ pc = "finalize_summary"
    /\ IF summary \in {NoFile, file["report"]}
       THEN summary' = file["report"] /\ Goto("finalize_manifest")
       ELSE Err /\ UNCHANGED summary
    /\ UNCHANGED << file, held, manifest, receipt, seen, session >>

FinalizeManifest ==
    /\ pc = "finalize_manifest"
    /\ IF manifest \in {NoFile, file["receipt"].id}
       THEN manifest' = file["receipt"].id /\ Goto("finalize_coverage")
       ELSE Err /\ UNCHANGED manifest
    /\ UNCHANGED << file, held, summary, receipt, seen, session >>

\* Mutant: files in quarantine are overlooked.
FinalizeCoverageLax ==
    /\ pc = "finalize_coverage"
    /\ Ok
    /\ UNCHANGED << file, held, summary, manifest, receipt, seen, session >>

(* validate_embedding_artifact_coverage_v2 refuses any other file.         *)
FinalizeCoverage ==
    /\ pc = "finalize_coverage"
    /\ IF NothingHeld THEN Ok ELSE Err
    /\ UNCHANGED << file, held, summary, manifest, receipt, seen, session >>

-----------------------------------------------------------------------------
(* The environment.                                                        *)

(* The process is killed, or the service fails for good in Execute.        *)
Crash ==
    /\ pc # "idle"
    /\ crashes + damage < MaxFaults[backend]
    /\ crashes' = crashes + 1
    /\ pc' = "idle"
    /\ outcome' = "killed"
    /\ UNCHANGED << file, held, summary, manifest, command, receipt, seen, identity,
                    authority, backend, damage >>

(* A file rots or is truncated while no command runs.                      *)
Damage(f) ==
    /\ pc = "idle"
    /\ damage < MaxDamage
    /\ crashes + damage < MaxFaults[backend]
    /\ file[f] \notin {NoFile, Corrupt}
    /\ damage' = damage + 1
    /\ SetFile(f, Corrupt)
    /\ UNCHANGED << held, summary, manifest, pc, command, outcome, receipt, seen,
                    identity, authority, backend, crashes >>

Step ==
    \/ ValidateCompleted
    \/ ReuseTei
    \/ QuarantineReceipt
    \/ QuarantineReport
    \/ PreparePart
    \/ Execute
    \/ SealReceipt
    \/ WriteReceipt
    \/ EnsureReport
    \/ WriteReport
    \/ CompletePart
    \/ CompleteReceipt
    \/ CompleteReport
    \/ Inspect
    \/ SetAsidePart
    \/ SetAsideReceipt
    \/ SetAsideReport
    \/ RestoreFiles
    \/ FinalizeCheck
    \/ FinalizeSummary
    \/ FinalizeManifest
    \/ FinalizeCoverage

Next ==
    \/ \E c \in Commands : Start(c)
    \/ Step
    \/ Crash
    \/ \E f \in Files : Damage(f)

Spec == Init /\ [][Next]_vars

(* A command that is not killed runs on, the operator keeps running embed  *)
(* and the quarantine action, and the service does not for ever answer the *)
(* task with other bytes than the part that is there.                      *)
Fairness ==
    /\ WF_vars(Step)
    /\ SF_vars(Execute /\ pc' = "seal_receipt")
    /\ \A c \in Commands \cap {"embed", "quarantine"} : SF_vars(Start(c))

FairSpec == Spec /\ Fairness
-----------------------------------------------------------------------------
(* Properties.                                                             *)

(* The type of every variable.                                             *)
TypeOK ==
    /\ file \in [Files -> Contents] /\ held \in [Files -> Contents]
    /\ file["part"] \in Variants \cup {NoFile, Corrupt}
    /\ held["part"] \in Variants \cup {NoFile, Corrupt}
    /\ file["receipt"] \in Receipts \cup {NoFile, Corrupt}
    /\ held["receipt"] \in Receipts \cup {NoFile, Corrupt}
    /\ file["report"] \in Reports \cup {NoFile, Corrupt}
    /\ held["report"] \in Reports \cup {NoFile, Corrupt}
    /\ summary \in Reports \cup {NoFile}
    /\ manifest \in 1 .. MaxIds \cup {NoFile}
    /\ receipt \in Receipts \cup {NoFile}
    /\ identity \in Identities \cup {NoFile}
    /\ backend \in Backends
    /\ outcome \in {"none", "ok", "error", "killed"}
    /\ authority \in BOOLEAN
    /\ crashes \in Nat
    /\ damage \in 0 .. MaxDamage
    /\ crashes + damage \in 0 .. MaxFaults[backend]

\* What a step may do to a file and its quarantine.
KeepsFile(f) ==
    /\ Exists(f) /\ file'[f] # file[f] => held'[f] = file[f] \/ file'[f] = Corrupt
    /\ held[f] # NoFile => held'[f] \in {held[f], NoFile}
    /\ held[f] # NoFile /\ held'[f] = NoFile => file'[f] = held[f] \/ Bound

(* "A corrupt or incomplete task must never be overwritten silently": no   *)
(* command replaces a file; it moves it into an empty quarantine first,    *)
(* although receipts and reports are written with a replacing rename.  The *)
(* quarantined file leaves the disk only by being restored, or when a      *)
(* part, a receipt for it and a report for that receipt have replaced it,  *)
(* at whatever step earlier commands were killed.                          *)
NothingOverwritten == [][\A f \in Files : KeepsFile(f)]_vars

(* embed never sends a task to the model whose valid receipt and part were *)
(* on disk when it started.  (embed-tei also asks for a report of its own  *)
(* execution identity.)                                                    *)
NoCompletedTaskRepeated ==
    pc = "execute" /\ backend = "lmstudio" => ~ authority

\* What a successful end of a command leaves on disk.
EndsComplete ==
    /\ command \in {"embed", "finalize"} => Complete'
    /\ command = "embed" /\ backend = "tei" => file'["report"].identity = identity
    /\ command = "finalize" =>
         manifest' = file'["receipt"].id /\ summary' = file'["report"]

(* An embed that succeeds leaves a task that finalize accepts, with every  *)
(* earlier quarantine resolved, and an embed-tei leaves a report of its    *)
(* own execution identity, whichever identity ran the task before it and   *)
(* wherever that run was killed; a finalize that succeeds has named        *)
(* exactly the receipt and the report on disk.                             *)
OkMeansComplete ==
    [][ pc # "idle" /\ pc' = "idle" /\ outcome' = "ok" => EndsComplete ]_vars

(* "every interrupted state has a safe restart or quarantine path": once   *)
(* kills end, running the commands again completes the task, unless a file *)
(* was damaged on disk.                                                    *)
EveryTaskConverges == <>(damage > 0) \/ []<> Complete

(* The same of the tasks that embed works on.                              *)
Converges == backend = "lmstudio" => EveryTaskConverges

(* "The command moves only the invalid part and receipt": the quarantine   *)
(* action leaves a complete task of embed alone.                           *)
QuarantineSparesComplete ==
    [][ command = "quarantine" /\ backend = "lmstudio" /\ Complete =>
          file' = file \/ pc = "idle" ]_vars
-----------------------------------------------------------------------------
(* The inductive invariant behind the safety properties.                   *)

EmbedSteps ==
    {"validate", "reuse_tei", "quarantine_receipt", "quarantine_report", "prepare",
     "execute", "seal_receipt", "write_receipt", "ensure_report", "write_report",
     "complete_part", "complete_receipt", "complete_report"}
Setting == {"set_aside_part", "set_aside_receipt", "set_aside_report"}
Restoring == {"restore_part", "restore_receipt", "restore_report"}
Finalizing == {"finalize_summary", "finalize_manifest", "finalize_coverage"}
Executing == {"quarantine_report", "prepare", "execute", "seal_receipt", "write_receipt"}
Completing == {"complete_part", "complete_receipt", "complete_report"}

\* The step belongs to the running command.
OwnStep ==
    /\ pc = "idle" \/ command \in Commands
    /\ pc \in EmbedSteps => command = "embed"
    /\ pc \in {"inspect"} \cup Setting => command = "quarantine"
    /\ pc \in Restoring => command = "restore"
    /\ pc \in {"finalize_check"} \cup Finalizing => command = "finalize"
    /\ pc \in {"idle", "inspect", "finalize_check"} \cup EmbedSteps \cup Setting
             \cup Restoring \cup Finalizing

\* The receipt in embed's hands is the one on disk, or there is none yet.
ReceiptInHand ==
    /\ pc \in Executing => ~ Exists("receipt")
    /\ pc \in {"seal_receipt", "write_receipt"} => file["part"] \in Variants
    /\ pc = "write_receipt" => receipt \in Receipts /\ PartMatches(receipt)
    /\ pc \in {"reuse_tei", "ensure_report", "write_report"} \cup Completing =>
         Readable /\ file["receipt"] = receipt /\ PartMatches(receipt)
    /\ pc = "write_report" => ~ Exists("report")

\* The task is bound when quarantined files are given up, and they go in order.
Resolved ==
    /\ pc \in Completing => Bound /\ (backend = "tei" => file["report"].identity = identity)
    /\ pc \in {"complete_receipt", "complete_report"} => held["part"] = NoFile
    /\ pc = "complete_report" => held["receipt"] = NoFile

\* What embed found at its start decides whether it executes.
AuthorityKept ==
    /\ pc = "validate" => (authority <=> ReceiptAndPart)
    /\ pc = "reuse_tei" => backend = "tei"
    /\ pc \in {"quarantine_receipt"} \cup Executing /\ backend = "lmstudio" => ~ authority

\* Only an incomplete task of embed is set aside.
SetAsideIncomplete ==
    pc \in Setting /\ backend = "lmstudio" => ~ Complete

\* What finalize has written agrees with the files.
FinalizedExact ==
    /\ pc \in Finalizing => Bound
    /\ pc \in {"finalize_manifest", "finalize_coverage"} => summary = file["report"]
    /\ pc = "finalize_coverage" => manifest = file["receipt"].id

IndInv ==
    /\ TypeOK
    /\ OwnStep
    /\ ReceiptInHand
    /\ Resolved
    /\ AuthorityKept
    /\ SetAsideIncomplete
    /\ FinalizedExact
=============================================================================
