------------------------- MODULE TaskRecoveryProofs -------------------------
(***************************************************************************)
(* Proofs about TaskRecovery for every set of byte strings and execution   *)
(* identities and any number of kills and damaged files.  The inductive    *)
(* invariant IndInv is stated at the end of TaskRecovery.                  *)
(***************************************************************************)
EXTENDS TaskRecovery, TLAPS

-----------------------------------------------------------------------------
(* An absent or damaged file is no part, receipt or report.                *)
LEMMA NoFileIsNoContent ==
    /\ NoFile # Corrupt
    /\ NoFile \notin Variants /\ Corrupt \notin Variants
    /\ NoFile \notin Receipts /\ Corrupt \notin Receipts
    /\ NoFile \notin Reports /\ Corrupt \notin Reports
    /\ NoFile \notin 1 .. MaxIds
  BY RecoveryAssumption

LEMMA InitInv == Init => IndInv
<1> SUFFICES ASSUME Init PROVE IndInv
  OBVIOUS
<1>1. TypeOK
  <2>1. 0 \in 0 .. MaxDamage /\ 0 + 0 \in 0 .. MaxFaults[backend]
    BY RecoveryAssumption DEF Init
  <2>2. QED
    BY <2>1 DEF Init, TypeOK, Contents, Files
<1>2. OwnStep /\ ReceiptInHand /\ Resolved
  BY DEF Init, OwnStep, ReceiptInHand, Resolved, EmbedSteps, Setting, Restoring,
         Finalizing, Executing, Completing
<1>3. AuthorityKept /\ SetAsideIncomplete /\ FinalizedExact
  BY DEF Init, AuthorityKept, SetAsideIncomplete, FinalizedExact, Setting, Finalizing,
         Executing
<1>4. QED
  BY <1>1, <1>2, <1>3 DEF IndInv

-----------------------------------------------------------------------------
(* Every step of a command preserves the invariant.                        *)
LEMMA CommandStepInv ==
    ASSUME IndInv, Step
    PROVE  IndInv'
<1> USE NoFileIsNoContent
        DEF EmbedSteps, Setting, Restoring, Finalizing, Executing, Completing, session,
            Goto, Ok, Err, SetFile, Exists, Readable, PartMatches, ReceiptAndPart,
            ReportMatches, Bound, NothingHeld, Complete, Files
<1>0. /\ TypeOK /\ OwnStep /\ ReceiptInHand /\ Resolved /\ AuthorityKept
      /\ SetAsideIncomplete /\ FinalizedExact
  BY DEF IndInv
<1>a. file \in [Files -> Contents] /\ held \in [Files -> Contents]
  BY <1>0 DEF TypeOK
<1>1. CASE ValidateCompleted
  <2>1. TypeOK'
    BY <1>0, <1>a, <1>1 DEF ValidateCompleted, MoveAside, TypeOK, Contents
  <2>2. ReceiptInHand' /\ Resolved'
    BY <1>0, <1>a, <1>1 DEF ValidateCompleted, MoveAside, ReceiptInHand, Resolved
  <2>3. OwnStep' /\ AuthorityKept' /\ SetAsideIncomplete' /\ FinalizedExact'
    BY <1>0, <1>a, <1>1 DEF ValidateCompleted, MoveAside, OwnStep, AuthorityKept,
       SetAsideIncomplete, FinalizedExact
  <2>4. QED
    BY <2>1, <2>2, <2>3 DEF IndInv
<1>2. CASE ReuseTei
  <2>1. TypeOK'
    BY <1>0, <1>a, <1>2 DEF ReuseTei, TypeOK, Contents
  <2>2. ReceiptInHand' /\ Resolved'
    BY <1>0, <1>a, <1>2 DEF ReuseTei, ReceiptInHand, Resolved
  <2>3. OwnStep' /\ AuthorityKept' /\ SetAsideIncomplete' /\ FinalizedExact'
    BY <1>0, <1>a, <1>2 DEF ReuseTei, OwnStep, AuthorityKept, SetAsideIncomplete,
       FinalizedExact
  <2>4. QED
    BY <2>1, <2>2, <2>3 DEF IndInv
<1>3. CASE QuarantineReceipt
  <2>1. TypeOK'
    BY <1>0, <1>a, <1>3 DEF QuarantineReceipt, Quarantine, MoveAside, TypeOK, Contents
  <2>2. ReceiptInHand' /\ Resolved'
    BY <1>0, <1>a, <1>3 DEF QuarantineReceipt, Quarantine, MoveAside, ReceiptInHand,
       Resolved
  <2>3. OwnStep' /\ AuthorityKept' /\ SetAsideIncomplete' /\ FinalizedExact'
    BY <1>0, <1>a, <1>3 DEF QuarantineReceipt, Quarantine, MoveAside, OwnStep,
       AuthorityKept, SetAsideIncomplete, FinalizedExact
  <2>4. QED
    BY <2>1, <2>2, <2>3 DEF IndInv
<1>4. CASE QuarantineReport
  <2>1. TypeOK'
    BY <1>0, <1>a, <1>4 DEF QuarantineReport, QuarantineIfPresent, Quarantine, MoveAside,
       TypeOK, Contents
  <2>2. ReceiptInHand' /\ Resolved'
    BY <1>0, <1>a, <1>4 DEF QuarantineReport, QuarantineIfPresent, Quarantine, MoveAside,
       ReceiptInHand, Resolved
  <2>3. OwnStep' /\ AuthorityKept' /\ SetAsideIncomplete' /\ FinalizedExact'
    BY <1>0, <1>a, <1>4 DEF QuarantineReport, QuarantineIfPresent, Quarantine, MoveAside,
       OwnStep, AuthorityKept, SetAsideIncomplete, FinalizedExact
  <2>4. QED
    BY <2>1, <2>2, <2>3 DEF IndInv
<1>5. CASE PreparePart
  <2>1. TypeOK'
    BY <1>0, <1>a, <1>5 DEF PreparePart, Quarantine, MoveAside, TypeOK, Contents
  <2>2. ReceiptInHand' /\ Resolved'
    BY <1>0, <1>a, <1>5 DEF PreparePart, Quarantine, MoveAside, ReceiptInHand, Resolved,
       TypeOK
  <2>3. OwnStep' /\ AuthorityKept' /\ SetAsideIncomplete' /\ FinalizedExact'
    BY <1>0, <1>a, <1>5 DEF PreparePart, Quarantine, MoveAside, OwnStep, AuthorityKept,
       SetAsideIncomplete, FinalizedExact
  <2>4. QED
    BY <2>1, <2>2, <2>3 DEF IndInv
<1>6. CASE Execute
  <2>1. TypeOK'
    BY <1>0, <1>a, <1>6 DEF Execute, TypeOK, Contents
  <2>2. ReceiptInHand' /\ Resolved'
    BY <1>0, <1>a, <1>6 DEF Execute, ReceiptInHand, Resolved, TypeOK
  <2>3. OwnStep' /\ AuthorityKept' /\ SetAsideIncomplete' /\ FinalizedExact'
    BY <1>0, <1>a, <1>6 DEF Execute, OwnStep, AuthorityKept, SetAsideIncomplete,
       FinalizedExact
  <2>4. QED
    BY <2>1, <2>2, <2>3 DEF IndInv
<1>7. CASE SealReceipt
  <2>1. TypeOK'
    BY <1>0, <1>a, <1>7 DEF SealReceipt, TypeOK, Contents, Receipts, Reports, ReceiptInHand
  <2>2. ReceiptInHand' /\ Resolved'
    BY <1>0, <1>a, <1>7 DEF SealReceipt, ReceiptInHand, Resolved, TypeOK, Receipts
  <2>3. OwnStep' /\ AuthorityKept' /\ SetAsideIncomplete' /\ FinalizedExact'
    BY <1>0, <1>a, <1>7 DEF SealReceipt, OwnStep, AuthorityKept, SetAsideIncomplete,
       FinalizedExact
  <2>4. QED
    BY <2>1, <2>2, <2>3 DEF IndInv
<1>8. CASE WriteReceipt
  <2>1. TypeOK'
    BY <1>0, <1>a, <1>8 DEF WriteReceipt, TypeOK, Contents, Receipts, Reports, ReceiptInHand
  <2>2. ReceiptInHand' /\ Resolved'
    BY <1>0, <1>a, <1>8 DEF WriteReceipt, ReceiptInHand, Resolved
  <2>3. OwnStep' /\ AuthorityKept' /\ SetAsideIncomplete' /\ FinalizedExact'
    BY <1>0, <1>a, <1>8 DEF WriteReceipt, OwnStep, AuthorityKept, SetAsideIncomplete,
       FinalizedExact
  <2>4. QED
    BY <2>1, <2>2, <2>3 DEF IndInv
<1>9. CASE EnsureReport
  <2>1. TypeOK'
    BY <1>0, <1>a, <1>9 DEF EnsureReport, QuarantineIfPresent, Quarantine, MoveAside,
       TypeOK, Contents
  <2>2. ReceiptInHand' /\ Resolved'
    BY <1>0, <1>a, <1>9 DEF EnsureReport, QuarantineIfPresent, Quarantine, MoveAside,
       ReceiptInHand, Resolved
  <2>3. OwnStep' /\ AuthorityKept' /\ SetAsideIncomplete' /\ FinalizedExact'
    BY <1>0, <1>a, <1>9 DEF EnsureReport, QuarantineIfPresent, Quarantine, MoveAside,
       OwnStep, AuthorityKept, SetAsideIncomplete, FinalizedExact
  <2>4. QED
    BY <2>1, <2>2, <2>3 DEF IndInv
<1>10. CASE WriteReport
  <2>1. TypeOK'
    BY <1>0, <1>a, <1>10 DEF WriteReport, TypeOK, Contents, Receipts, Reports, ReceiptInHand
  <2>2. ReceiptInHand' /\ Resolved'
    BY <1>0, <1>a, <1>10 DEF WriteReport, ReceiptInHand, Resolved, Reports, Receipts, TypeOK
  <2>3. OwnStep' /\ AuthorityKept' /\ SetAsideIncomplete' /\ FinalizedExact'
    BY <1>0, <1>a, <1>10 DEF WriteReport, OwnStep, AuthorityKept, SetAsideIncomplete,
       FinalizedExact
  <2>4. QED
    BY <2>1, <2>2, <2>3 DEF IndInv
<1>11. CASE CompletePart
  <2>1. TypeOK'
    BY <1>0, <1>a, <1>11 DEF CompletePart, TypeOK, Contents
  <2>2. ReceiptInHand' /\ Resolved'
    BY <1>0, <1>a, <1>11 DEF CompletePart, ReceiptInHand, Resolved
  <2>3. OwnStep' /\ AuthorityKept' /\ SetAsideIncomplete' /\ FinalizedExact'
    BY <1>0, <1>a, <1>11 DEF CompletePart, OwnStep, AuthorityKept, SetAsideIncomplete,
       FinalizedExact
  <2>4. QED
    BY <2>1, <2>2, <2>3 DEF IndInv
<1>12. CASE CompleteReceipt
  <2>1. TypeOK'
    BY <1>0, <1>a, <1>12 DEF CompleteReceipt, TypeOK, Contents
  <2>2. ReceiptInHand' /\ Resolved'
    BY <1>0, <1>a, <1>12 DEF CompleteReceipt, ReceiptInHand, Resolved
  <2>3. OwnStep' /\ AuthorityKept' /\ SetAsideIncomplete' /\ FinalizedExact'
    BY <1>0, <1>a, <1>12 DEF CompleteReceipt, OwnStep, AuthorityKept, SetAsideIncomplete,
       FinalizedExact
  <2>4. QED
    BY <2>1, <2>2, <2>3 DEF IndInv
<1>13. CASE CompleteReport
  <2>1. TypeOK'
    BY <1>0, <1>a, <1>13 DEF CompleteReport, TypeOK, Contents
  <2>2. ReceiptInHand' /\ Resolved'
    BY <1>0, <1>a, <1>13 DEF CompleteReport, ReceiptInHand, Resolved
  <2>3. OwnStep' /\ AuthorityKept' /\ SetAsideIncomplete' /\ FinalizedExact'
    BY <1>0, <1>a, <1>13 DEF CompleteReport, OwnStep, AuthorityKept, SetAsideIncomplete,
       FinalizedExact
  <2>4. QED
    BY <2>1, <2>2, <2>3 DEF IndInv
<1>14. CASE Inspect
  <2>1. TypeOK'
    BY <1>0, <1>a, <1>14 DEF Inspect, TypeOK, Contents
  <2>2. ReceiptInHand' /\ Resolved'
    BY <1>0, <1>a, <1>14 DEF Inspect, ReceiptInHand, Resolved
  <2>3. OwnStep' /\ AuthorityKept' /\ SetAsideIncomplete' /\ FinalizedExact'
    BY <1>0, <1>a, <1>14 DEF Inspect, OwnStep, AuthorityKept, SetAsideIncomplete,
       FinalizedExact, Inspection, InspectionComplete
  <2>4. QED
    BY <2>1, <2>2, <2>3 DEF IndInv
<1>15. CASE SetAsidePart
  <2>1. TypeOK'
    BY <1>0, <1>a, <1>15 DEF SetAsidePart, Quarantine, MoveAside, TypeOK, Contents
  <2>2. ReceiptInHand' /\ Resolved'
    BY <1>0, <1>a, <1>15 DEF SetAsidePart, Quarantine, MoveAside, ReceiptInHand, Resolved
  <2>3. OwnStep' /\ AuthorityKept' /\ SetAsideIncomplete' /\ FinalizedExact'
    BY <1>0, <1>a, <1>15 DEF SetAsidePart, Quarantine, MoveAside, OwnStep, AuthorityKept,
       SetAsideIncomplete, FinalizedExact
  <2>4. QED
    BY <2>1, <2>2, <2>3 DEF IndInv
<1>16. CASE SetAsideReceipt
  <2>1. TypeOK'
    BY <1>0, <1>a, <1>16 DEF SetAsideReceipt, QuarantineIfPresent, Quarantine, MoveAside,
       TypeOK, Contents
  <2>2. ReceiptInHand' /\ Resolved'
    BY <1>0, <1>a, <1>16 DEF SetAsideReceipt, QuarantineIfPresent, Quarantine, MoveAside,
       ReceiptInHand, Resolved
  <2>3. OwnStep' /\ AuthorityKept' /\ SetAsideIncomplete' /\ FinalizedExact'
    BY <1>0, <1>a, <1>16 DEF SetAsideReceipt, QuarantineIfPresent, Quarantine, MoveAside,
       OwnStep, AuthorityKept, SetAsideIncomplete, FinalizedExact
  <2>4. QED
    BY <2>1, <2>2, <2>3 DEF IndInv
<1>17. CASE SetAsideReport
  <2>1. TypeOK'
    BY <1>0, <1>a, <1>17 DEF SetAsideReport, MoveAside, TypeOK, Contents
  <2>2. ReceiptInHand' /\ Resolved'
    BY <1>0, <1>a, <1>17 DEF SetAsideReport, MoveAside, ReceiptInHand, Resolved
  <2>3. OwnStep' /\ AuthorityKept' /\ SetAsideIncomplete' /\ FinalizedExact'
    BY <1>0, <1>a, <1>17 DEF SetAsideReport, MoveAside, OwnStep, AuthorityKept,
       SetAsideIncomplete, FinalizedExact
  <2>4. QED
    BY <2>1, <2>2, <2>3 DEF IndInv
<1>18. CASE RestoreFiles
  <2>1. TypeOK'
    BY <1>0, <1>a, <1>18 DEF RestoreFiles, Restore, PutBack, TypeOK, Contents
  <2>2. ReceiptInHand' /\ Resolved'
    BY <1>0, <1>a, <1>18 DEF RestoreFiles, Restore, PutBack, ReceiptInHand, Resolved
  <2>3. OwnStep' /\ AuthorityKept' /\ SetAsideIncomplete' /\ FinalizedExact'
    BY <1>0, <1>a, <1>18 DEF RestoreFiles, Restore, PutBack, OwnStep, AuthorityKept,
       SetAsideIncomplete, FinalizedExact
  <2>4. QED
    BY <2>1, <2>2, <2>3 DEF IndInv
<1>19. CASE FinalizeCheck
  <2>1. TypeOK'
    BY <1>0, <1>a, <1>19 DEF FinalizeCheck, TypeOK, Contents, FinalizedExact
  <2>2. ReceiptInHand' /\ Resolved'
    BY <1>0, <1>a, <1>19 DEF FinalizeCheck, ReceiptInHand, Resolved
  <2>3. OwnStep' /\ AuthorityKept' /\ SetAsideIncomplete' /\ FinalizedExact'
    BY <1>0, <1>a, <1>19 DEF FinalizeCheck, OwnStep, AuthorityKept, SetAsideIncomplete,
       FinalizedExact
  <2>4. QED
    BY <2>1, <2>2, <2>3 DEF IndInv
<1>20. CASE FinalizeSummary
  <2>1. TypeOK'
    BY <1>0, <1>a, <1>20 DEF FinalizeSummary, TypeOK, Contents, FinalizedExact
  <2>2. ReceiptInHand' /\ Resolved'
    BY <1>0, <1>a, <1>20 DEF FinalizeSummary, ReceiptInHand, Resolved
  <2>3. OwnStep' /\ AuthorityKept' /\ SetAsideIncomplete' /\ FinalizedExact'
    BY <1>0, <1>a, <1>20 DEF FinalizeSummary, OwnStep, AuthorityKept, SetAsideIncomplete,
       FinalizedExact
  <2>4. QED
    BY <2>1, <2>2, <2>3 DEF IndInv
<1>21. CASE FinalizeManifest
  <2>1. TypeOK'
    BY <1>0, <1>a, <1>21 DEF FinalizeManifest, TypeOK, Contents, FinalizedExact, Receipts
  <2>2. ReceiptInHand' /\ Resolved'
    BY <1>0, <1>a, <1>21 DEF FinalizeManifest, ReceiptInHand, Resolved
  <2>3. OwnStep' /\ AuthorityKept' /\ SetAsideIncomplete' /\ FinalizedExact'
    BY <1>0, <1>a, <1>21 DEF FinalizeManifest, OwnStep, AuthorityKept, SetAsideIncomplete,
       FinalizedExact
  <2>4. QED
    BY <2>1, <2>2, <2>3 DEF IndInv
<1>22. CASE FinalizeCoverage
  <2>1. TypeOK'
    BY <1>0, <1>a, <1>22 DEF FinalizeCoverage, TypeOK, Contents, FinalizedExact
  <2>2. ReceiptInHand' /\ Resolved'
    BY <1>0, <1>a, <1>22 DEF FinalizeCoverage, ReceiptInHand, Resolved
  <2>3. OwnStep' /\ AuthorityKept' /\ SetAsideIncomplete' /\ FinalizedExact'
    BY <1>0, <1>a, <1>22 DEF FinalizeCoverage, OwnStep, AuthorityKept, SetAsideIncomplete,
       FinalizedExact
  <2>4. QED
    BY <2>1, <2>2, <2>3 DEF IndInv
<1>23. QED
  BY <1>1, <1>2, <1>3, <1>4, <1>5, <1>6, <1>7, <1>8, <1>9, <1>10, <1>11, <1>12, <1>13,
     <1>14, <1>15, <1>16, <1>17, <1>18, <1>19, <1>20, <1>21, <1>22 DEF Step

(* Starting a command, a kill and a damaged file preserve it too.          *)
LEMMA StepInv == IndInv /\ [Next]_vars => IndInv'
<1> SUFFICES ASSUME IndInv, [Next]_vars PROVE IndInv'
  OBVIOUS
<1> USE DEF EmbedSteps, Setting, Restoring, Finalizing, Executing, Completing
<1>0. /\ TypeOK /\ OwnStep /\ ReceiptInHand /\ Resolved /\ AuthorityKept
      /\ SetAsideIncomplete /\ FinalizedExact
  BY DEF IndInv
<1>1. CASE Step
  BY <1>1, CommandStepInv
<1>2. ASSUME NEW c \in Commands, Start(c) PROVE IndInv'
  <2>1. /\ pc' = FirstStep(c) /\ command' = c /\ receipt' = NoFile
        /\ (authority' = ReceiptAndPart)
        /\ UNCHANGED << file, held, summary, manifest, outcome, backend, crashes, damage >>
    BY <1>2 DEF Start
  <2>2. /\ c \in {"embed", "quarantine", "restore", "finalize"}
        /\ c = "embed" => pc' = "validate"
        /\ c = "quarantine" => pc' = "inspect"
        /\ c = "restore" => pc' = "restore_part"
        /\ c = "finalize" => pc' = "finalize_check"
    BY <2>1, RecoveryAssumption DEF FirstStep
  <2>3. identity' \in Identities \cup {NoFile}
    BY <1>2 DEF Start, Contexts
  <2>4. authority' \in BOOLEAN /\ (authority' <=> ReceiptAndPart')
    BY <2>1 DEF ReceiptAndPart, Readable, PartMatches
  <2>5. TypeOK'
    BY <1>0, <2>1, <2>3, <2>4 DEF TypeOK
  <2>6. OwnStep' /\ ReceiptInHand' /\ Resolved'
    BY <2>1, <2>2 DEF OwnStep, ReceiptInHand, Resolved
  <2>7. AuthorityKept' /\ SetAsideIncomplete' /\ FinalizedExact'
    BY <2>2, <2>4 DEF AuthorityKept, SetAsideIncomplete, FinalizedExact
  <2>8. QED
    BY <2>5, <2>6, <2>7 DEF IndInv
<1>3. ASSUME pc' = "idle", TypeOK' PROVE IndInv'
  BY <1>3 DEF IndInv, OwnStep, ReceiptInHand, Resolved, AuthorityKept, SetAsideIncomplete,
     FinalizedExact
<1>4. CASE Crash
  <2>1. TypeOK'
    BY <1>0, <1>4, RecoveryAssumption DEF Crash, TypeOK
  <2>2. QED
    BY <1>3, <1>4, <2>1 DEF Crash
<1>5. ASSUME NEW f \in Files, Damage(f) PROVE IndInv'
  <2>1. /\ damage' \in 0 .. MaxDamage /\ crashes' + damage' \in 0 .. MaxFaults[backend]
        /\ crashes' = crashes /\ backend' = backend
    BY <1>0, <1>5, RecoveryAssumption DEF Damage, TypeOK
  <2>2. TypeOK'
    BY <1>0, <1>5, <2>1 DEF Damage, TypeOK, SetFile, Files, Contents
  <2>3. QED
    BY <1>3, <1>5, <2>2 DEF Damage
<1>6. CASE UNCHANGED vars
  BY <1>0, <1>6 DEF vars, IndInv, TypeOK, OwnStep, ReceiptInHand, Resolved, AuthorityKept,
     SetAsideIncomplete, FinalizedExact, Exists, Readable, PartMatches, ReceiptAndPart,
     ReportMatches, Bound, NothingHeld, Complete
<1>7. QED
  BY <1>1, <1>2, <1>4, <1>5, <1>6 DEF Next

-----------------------------------------------------------------------------
(* What one step does to the files.                                        *)

(* Every step keeps every file, or its quarantined predecessor.            *)
LEMMA StepKeepsFiles ==
    ASSUME IndInv, Next, NEW f \in Files
    PROVE  KeepsFile(f)
<1> USE NoFileIsNoContent
        DEF KeepsFile, Goto, Ok, Err, SetFile, Exists, Files, session
<1>0. /\ TypeOK /\ OwnStep /\ ReceiptInHand /\ Resolved
      /\ file \in [Files -> Contents] /\ held \in [Files -> Contents]
  BY DEF IndInv, TypeOK
<1>1. CASE ValidateCompleted
  BY <1>0, <1>1 DEF ValidateCompleted, MoveAside
<1>2. CASE QuarantineReceipt
  BY <1>0, <1>2 DEF QuarantineReceipt, Quarantine, MoveAside
<1>3. CASE QuarantineReport
  BY <1>0, <1>3 DEF QuarantineReport, QuarantineIfPresent, Quarantine, MoveAside
<1>4. CASE PreparePart
  BY <1>0, <1>4 DEF PreparePart, Quarantine, MoveAside
<1>5. CASE Execute
  BY <1>0, <1>5 DEF Execute
<1>6. CASE WriteReceipt
  BY <1>0, <1>6 DEF WriteReceipt, ReceiptInHand, Executing
<1>7. CASE EnsureReport
  BY <1>0, <1>7 DEF EnsureReport, QuarantineIfPresent, Quarantine, MoveAside
<1>8. CASE WriteReport
  BY <1>0, <1>8 DEF WriteReport, ReceiptInHand, Executing
<1>9. CASE CompletePart
  BY <1>0, <1>9 DEF CompletePart, Resolved, Completing
<1>10. CASE CompleteReceipt
  BY <1>0, <1>10 DEF CompleteReceipt, Resolved, Completing
<1>11. CASE CompleteReport
  BY <1>0, <1>11 DEF CompleteReport, Resolved, Completing
<1>12. CASE SetAsidePart
  BY <1>0, <1>12 DEF SetAsidePart, Quarantine, MoveAside
<1>13. CASE SetAsideReceipt
  BY <1>0, <1>13 DEF SetAsideReceipt, QuarantineIfPresent, Quarantine, MoveAside
<1>14. CASE SetAsideReport
  BY <1>0, <1>14 DEF SetAsideReport, MoveAside
<1>15. CASE RestoreFiles
  BY <1>0, <1>15 DEF RestoreFiles, Restore, PutBack
<1>16. ASSUME NEW g \in Files, Damage(g) PROVE KeepsFile(f)
  BY <1>0, <1>16 DEF Damage
<1>17. CASE UNCHANGED << file, held >>
  BY <1>17
<1>18. QED
  BY <1>1, <1>2, <1>3, <1>4, <1>5, <1>6, <1>7, <1>8, <1>9, <1>10, <1>11, <1>12, <1>13,
     <1>14, <1>15, <1>16, <1>17 DEF Next, Step, Start, Crash, ReuseTei, SealReceipt,
     Inspect, FinalizeCheck, FinalizeSummary, FinalizeManifest, FinalizeCoverage

(* Only three steps end a command of embed or finalize with success.       *)
LEMMA StepEndsComplete ==
    ASSUME IndInv, Next, pc # "idle", pc' = "idle", outcome' = "ok"
    PROVE  EndsComplete
<1> USE DEF EndsComplete, Goto, Ok, Err, session
<1>0. TypeOK /\ OwnStep /\ Resolved /\ FinalizedExact
  BY DEF IndInv
<1>1. CASE CompleteReport
  <2>1. /\ pc = "complete_report" /\ command = "embed" /\ command' = command
        /\ file' = file /\ held' = [held EXCEPT !["report"] = NoFile]
    BY <1>0, <1>1 DEF CompleteReport, OwnStep, EmbedSteps
  <2>2. /\ Bound /\ (backend = "tei" => file["report"].identity = identity)
        /\ held["part"] = NoFile /\ held["receipt"] = NoFile
    BY <1>0, <2>1 DEF Resolved, Completing
  <2>3. Bound'
    BY <2>1, <2>2 DEF Bound, ReceiptAndPart, Readable, PartMatches, ReportMatches
  <2>4. NothingHeld'
    BY <1>0, <2>1, <2>2 DEF TypeOK, NothingHeld, Files
  <2>5. QED
    BY <2>1, <2>2, <2>3, <2>4 DEF Complete
<1>2. CASE FinalizeCoverage
  <2>1. /\ pc = "finalize_coverage" /\ command = "finalize" /\ NothingHeld
        /\ UNCHANGED << file, held, summary, manifest >>
    BY <1>0, <1>2 DEF FinalizeCoverage, OwnStep, Finalizing
  <2>2. Bound /\ summary = file["report"] /\ manifest = file["receipt"].id
    BY <1>0, <2>1 DEF FinalizedExact, Finalizing
  <2>3. Complete'
    BY <2>1, <2>2 DEF Complete, Bound, ReceiptAndPart, Readable, PartMatches, ReportMatches,
       NothingHeld
  <2>4. QED
    BY <2>1, <2>2, <2>3
<1>3. CASE command \notin {"embed", "finalize"}
  BY <1>3
<1>4. CASE command \in {"embed", "finalize"} /\ ~ CompleteReport /\ ~ FinalizeCoverage
  <2>1. pc \notin {"inspect"} \cup Setting \cup Restoring
    BY <1>0, <1>4 DEF OwnStep, Setting, Restoring
  <2>2. ~ Inspect /\ ~ SetAsidePart /\ ~ SetAsideReceipt /\ ~ SetAsideReport /\ ~ RestoreFiles
    BY <2>1 DEF Inspect, SetAsidePart, SetAsideReceipt, SetAsideReport, RestoreFiles,
       Restore, Setting, Restoring
  <2>3. ~ ValidateCompleted /\ ~ ReuseTei /\ ~ QuarantineReceipt /\ ~ QuarantineReport
        /\ ~ PreparePart /\ ~ Execute /\ ~ SealReceipt /\ ~ WriteReceipt
        /\ ~ EnsureReport /\ ~ WriteReport /\ ~ CompletePart /\ ~ CompleteReceipt
    BY DEF ValidateCompleted, ReuseTei, QuarantineReceipt, QuarantineReport, PreparePart,
       Execute, SealReceipt, WriteReceipt, EnsureReport, WriteReport, CompletePart,
       CompleteReceipt, Quarantine, QuarantineIfPresent
  <2>4. ~ FinalizeCheck /\ ~ FinalizeSummary /\ ~ FinalizeManifest
    BY DEF FinalizeCheck, FinalizeSummary, FinalizeManifest
  <2>5. ~ Crash /\ (\A c \in Commands : ~ Start(c)) /\ (\A f \in Files : ~ Damage(f))
    BY DEF Crash, Start, Damage
  <2>6. QED
    BY <1>4, <2>2, <2>3, <2>4, <2>5 DEF Next, Step
<1>5. QED
  BY <1>1, <1>2, <1>3, <1>4

(* The quarantine action reaches its moves only with an incomplete task.   *)
LEMMA StepSparesComplete ==
    ASSUME IndInv, Next, command = "quarantine", backend = "lmstudio", Complete, pc # "idle"
    PROVE  file' = file
<1>1. pc = "inspect"
  BY DEF IndInv, OwnStep, SetAsideIncomplete, EmbedSteps, Setting, Restoring, Finalizing
<1>2. Inspect \/ Crash
  BY <1>1 DEF Next, Start, Damage, Step, ValidateCompleted, ReuseTei, QuarantineReceipt,
     QuarantineReport, PreparePart, Execute, SealReceipt, WriteReceipt, EnsureReport,
     WriteReport, CompletePart, CompleteReceipt, CompleteReport, SetAsidePart,
     SetAsideReceipt, SetAsideReport, RestoreFiles, Restore, FinalizeCheck,
     FinalizeSummary, FinalizeManifest, FinalizeCoverage
<1>3. QED
  BY <1>2 DEF Inspect, Crash

-----------------------------------------------------------------------------
(* The theorems.                                                           *)

(* Whatever commands run in whatever order, are killed at whatever step    *)
(* and find files damaged, the invariant holds.                            *)
THEOREM InvHolds == Spec => []IndInv
  BY InitInv, StepInv, PTL DEF Spec

(* embed never executes a task again whose valid receipt and part it found *)
(* when it started.                                                        *)
THEOREM CompletedTasksNotRepeated == Spec => []NoCompletedTaskRepeated
<1>1. IndInv => NoCompletedTaskRepeated
  BY DEF IndInv, AuthorityKept, NoCompletedTaskRepeated, Executing
<1>2. QED
  BY <1>1, InvHolds, PTL

(* No command replaces a file that is not in quarantine, and a quarantined *)
(* file is given up only for a bound task.                                 *)
THEOREM FilesNotOverwritten == Spec => NothingOverwritten
<1>1. IndInv /\ [Next]_vars => [\A f \in Files : KeepsFile(f)]_vars
  BY StepKeepsFiles
<1>2. QED
  BY <1>1, InvHolds, PTL DEF Spec, NothingOverwritten

(* A successful embed or finalize leaves a complete task.                  *)
THEOREM SuccessMeansComplete == Spec => OkMeansComplete
<1>1. IndInv /\ [Next]_vars =>
        [pc # "idle" /\ pc' = "idle" /\ outcome' = "ok" => EndsComplete]_vars
  BY StepEndsComplete
<1>2. QED
  BY <1>1, InvHolds, PTL DEF Spec, OkMeansComplete

(* The quarantine action moves no file of a complete task of embed.        *)
THEOREM CompleteTasksSpared == Spec => QuarantineSparesComplete
<1>1. IndInv /\ [Next]_vars =>
        [command = "quarantine" /\ backend = "lmstudio" /\ Complete =>
           file' = file \/ pc = "idle"]_vars
  BY StepSparesComplete
<1>2. QED
  BY <1>1, InvHolds, PTL DEF Spec, QuarantineSparesComplete
=============================================================================
