---------------------------- MODULE VolumeProofs ----------------------------
(***************************************************************************)
(* Proofs about three uses of the network volume.                          *)
(*                                                                         *)
(* VolumeStage, for any number of stagers, objects, parts, tasks and       *)
(* failures: a bundle.json on the volume is the last object of a whole     *)
(* bundle, and no object is replaced, if bundles staged under one prefix   *)
(* agree on the objects that are uploaded in parts (LargeShared): the      *)
(* completion of a multipart upload is not conditional.                    *)
(*                                                                         *)
(* StorageChallenge, for any number of commands, containers, deletion      *)
(* attempts and failures, if no command is named like an absent object: a  *)
(* success shows what it claims, and no object is replaced.                *)
(*                                                                         *)
(* VolumeFetch, for any bundle, markers, number of fetchers and of         *)
(* failures, if a worker completes one attempt of a bundle (OneAttempt):   *)
(* a directory that verify accepts holds exactly what the workers          *)
(* completed with, and a fetch that succeeded has published one.           *)
(*                                                                         *)
(* The inductive invariants IndInv, ChallengeInv and FetchInv are stated   *)
(* at the end of the three modules.                                        *)
(***************************************************************************)
EXTENDS VolumeStage, VolumeFetch, StorageChallenge, FiniteSetTheorems, TLAPS

-----------------------------------------------------------------------------
(* The objects.                                                            *)

(* The completed parts in their order are the parts of the layout.         *)
LEMMA AllPartsSorted ==
    ASSUME NEW list, ToSet(list) = Parts
    PROVE  Sorted(list) = [i \in Parts |-> i]
<1>0. PartCount \in Nat
  BY StageAssumption
<1>1. Cardinality(Parts) = PartCount
  BY <1>0, FS_Interval DEF Parts
<1>2. ASSUME NEW i \in Parts
      PROVE  Cardinality({ j \in Parts : j < i }) = i - 1
  <2>1. { j \in Parts : j < i } = 1 .. i - 1
    BY <1>0 DEF Parts
  <2>2. i - 1 \in Nat /\ 1 \in Int /\ i - 1 \in Int
    BY <1>0 DEF Parts
  <2>3. Cardinality(1 .. i - 1) = IF 1 > i - 1 THEN 0 ELSE i - 1 - 1 + 1
    BY <2>2, FS_Interval
  <2>4. CASE i = 1
    BY <2>1, <2>3, <2>4
  <2>5. CASE i # 1
    <3>1. ~ (1 > i - 1) /\ i - 1 - 1 + 1 = i - 1
      BY <1>0, <2>5 DEF Parts
    <3>2. QED
      BY <2>1, <2>3, <3>1
  <2>6. QED
    BY <2>4, <2>5
<1>3. ASSUME NEW k \in Parts
      PROVE  (CHOOSE i \in Parts : Cardinality({ j \in Parts : j < i }) = k - 1) = k
  <2>1. \A i \in Parts : Cardinality({ j \in Parts : j < i }) = k - 1 => i = k
    <3>1. SUFFICES ASSUME NEW i \in Parts, Cardinality({ j \in Parts : j < i }) = k - 1
                   PROVE  i = k
      OBVIOUS
    <3>2. i - 1 = k - 1
      BY <1>2, <3>1
    <3>3. QED
      BY <1>0, <3>2 DEF Parts
  <2>2. Cardinality({ j \in Parts : j < k }) = k - 1
    BY <1>2
  <2>3. QED
    BY <2>1, <2>2
<1>4. Sorted(list) =
        [k \in 1 .. Cardinality(Parts) |->
            CHOOSE i \in Parts : Cardinality({ j \in Parts : j < i }) = k - 1]
  BY DEF Sorted, Ascending, Ordered
<1>5. 1 .. Cardinality(Parts) = Parts
  BY <1>1 DEF Parts
<1>6. QED
  BY <1>3, <1>4, <1>5

(* An object of a bundle is no absent object, and the large ones are those *)
(* of every bundle.                                                        *)
LEMMA WholeFacts ==
    /\ \A s \in Stagers, k \in Objects : Whole(s, k) # NoObject
    /\ LargeShared => \A s, t \in Stagers, k \in Large : Whole(s, k) = Whole(t, k)
    /\ \A s \in Stagers, k \in Objects :
         Whole(s, k) \in [content : Contents, parts : Seq(Parts)]
<1>1. ASSUME NEW s \in Stagers, NEW k \in Objects
      PROVE  /\ Whole(s, k) # NoObject
             /\ Whole(s, k) \in [content : Contents, parts : Seq(Parts)]
  <2>1. Whole(s, k).content # NoObject.content
    BY StageAssumption DEF Whole
  <2>2. Bundle[s][k] \in Contents
    BY DEF Contents
  <2>3. [i \in Parts |-> i] \in Seq(Parts) /\ << >> \in Seq(Parts)
    BY StageAssumption DEF Parts
  <2>4. QED
    BY <2>1, <2>2, <2>3 DEF Whole
<1>2. ASSUME LargeShared, NEW s \in Stagers, NEW t \in Stagers, NEW k \in Large
      PROVE  Whole(s, k) = Whole(t, k)
  BY <1>2 DEF LargeShared, Whole
<1>3. QED
  BY <1>1, <1>2

-----------------------------------------------------------------------------
(* Types.                                                                  *)

\* A step of one stager.
StagerStep(s) == Start(s) \/ Step(s) \/ Failing(s)

(* Every step keeps the types.                                             *)
LEMMA TypeStep ==
    ASSUME TypeOK, NEW s \in Stagers, StagerStep(s),
           volume' \in [Objects -> {NoObject} \cup [content : Contents, parts : Seq(Parts)]]
    PROVE  TypeOK'
<1> DEFINE Steps == {"idle", "head", "verify", "precheck", "put", "create", "parts", "confirm",
                     "abort"}
           Returns == {"none", "ok", "error", "killed"}
           Uploads == {"none", "unnamed", "open", "completed", "aborted"}
           Pc == pc' \in [Stagers -> Steps] /\ outcome' \in [Stagers -> Returns]
           At == at' \in [Stagers -> Objects]
           Locals == /\ next' \in [Stagers -> 1 .. PartCount + 1]
                     /\ sending' \in [Stagers -> [Parts -> 0 .. PartAttempts]]
                     /\ done' \in [Stagers -> Seq(Parts)]
           Upload == upload' \in [Stagers -> Uploads]
           Cleanup == cleanup' \in [Stagers -> {"none", "succeeded", "failed"}]
           Faults == faults' \in 0 .. MaxFaults
<1>0. /\ ObjectCount \in Nat \ {0} /\ PartCount \in Nat \ {0} /\ PartAttempts \in Nat \ {0}
      /\ MaxFaults \in Nat /\ NoSending \in [Parts -> 0 .. PartAttempts]
      /\ 1 \in 1 .. PartCount + 1 /\ << >> \in Seq(Parts)
  BY StageAssumption DEF NoSending
<1>1. \A step \in Steps : Goto(s, step) => Pc
  BY DEF Goto, TypeOK
<1>2. \A how \in Returns : Return(s, how) => Pc
  BY DEF Return, TypeOK
<1>3. DropParts(s) => Locals
  BY <1>0 DEF DropParts, TypeOK
<1>4. NextObject(s) => Pc /\ At
  <2>1. CASE at[s] = ObjectCount
    BY <1>2, <2>1 DEF NextObject, TypeOK
  <2>2. CASE at[s] # ObjectCount
    <3>1. at[s] + 1 \in Objects
      BY <1>0, <2>2 DEF TypeOK, Objects
    <3>2. NextObject(s) => Goto(s, "head") /\ at' = [at EXCEPT ![s] = at[s] + 1]
      BY <2>2 DEF NextObject
    <3>3. NextObject(s) => At
      BY <3>1, <3>2 DEF TypeOK
    <3>4. QED
      BY <1>1, <3>2, <3>3
  <2>3. QED
    BY <2>1, <2>2
<1>5. (Fault => Faults) /\ (UNCHANGED faults => Faults)
  BY <1>0 DEF Fault, TypeOK
<1>6. /\ UNCHANGED << pc, outcome >> => Pc
      /\ UNCHANGED at => At
      /\ UNCHANGED << next, sending, done >> => Locals
      /\ UNCHANGED upload => Upload
      /\ UNCHANGED cleanup => Cleanup
  BY DEF TypeOK
<1>7. \A u \in Uploads : upload' = [upload EXCEPT ![s] = u] => Upload
  BY DEF TypeOK
<1>8. \A c \in {"none", "succeeded", "failed"} : cleanup' = [cleanup EXCEPT ![s] = c] => Cleanup
  BY DEF TypeOK
<1>9. SpawnPart(s) => Locals
  <2> SUFFICES ASSUME SpawnPart(s) PROVE Locals
    OBVIOUS
  <2>1. next[s] \in Parts /\ next[s] + 1 \in 1 .. PartCount + 1
    BY <1>0 DEF SpawnPart, Parts, TypeOK
  <2>2. 1 \in 0 .. PartAttempts
    BY <1>0
  <2>3. next' \in [Stagers -> 1 .. PartCount + 1]
    BY <2>1 DEF SpawnPart, TypeOK
  <2>4. sending' \in [Stagers -> [Parts -> 0 .. PartAttempts]]
    BY <2>1, <2>2 DEF SpawnPart, TypeOK
  <2>5. done' \in [Stagers -> Seq(Parts)]
    BY DEF SpawnPart, TypeOK
  <2>6. QED
    BY <2>3, <2>4, <2>5
<1>10. ASSUME NEW i \in Parts, PartUploaded(s, i)
       PROVE  Locals
  <2>1. Append(done[s], i) \in Seq(Parts) /\ 0 \in 0 .. PartAttempts
    BY <1>0 DEF TypeOK
  <2>2. QED
    BY <1>10, <2>1 DEF PartUploaded, TypeOK
<1>11. ASSUME NEW i \in Parts, PartFails(s, i)
       PROVE  Locals
  <2>1. CASE sending[s][i] < PartAttempts
    <3>1. sending[s][i] + 1 \in 0 .. PartAttempts
      BY <1>0, <2>1 DEF TypeOK
    <3>2. UNCHANGED << next, done >> /\ sending' = [sending EXCEPT ![s][i] = sending[s][i] + 1]
      BY <1>11, <2>1 DEF PartFails
    <3>3. sending' \in [Stagers -> [Parts -> 0 .. PartAttempts]]
      BY <3>1, <3>2 DEF TypeOK
    <3>4. QED
      BY <3>2, <3>3 DEF TypeOK
  <2>2. CASE ~ (sending[s][i] < PartAttempts)
    BY <1>3, <1>11, <2>2 DEF PartFails
  <2>3. QED
    BY <2>1, <2>2
<1>12. ASSUME Start(s)
       PROVE  Pc /\ At /\ Upload /\ Cleanup
  BY <1>0, <1>12 DEF Start, TypeOK, Objects
<1> HIDE DEF Pc, At, Locals, Upload, Cleanup, Faults
<1>13. Pc /\ At /\ Locals /\ Upload /\ Cleanup /\ Faults
  <2>1. CASE Start(s)
    BY <1>5, <1>6, <1>12, <2>1 DEF Start, locals
  <2>2. CASE CheckObject(s)
    BY <1>1, <1>2, <1>5, <1>6, <2>2 DEF CheckObject, locals
  <2>3. CASE VerifyStaged(s)
    BY <1>2, <1>4, <1>5, <1>6, <2>3 DEF VerifyStaged, locals
  <2>4. CASE Precheck(s) \/ PutSingle(s) \/ PutFails(s)
    BY <1>1, <1>2, <1>5, <1>6, <2>4 DEF Precheck, PutSingle, PutFails, locals
  <2>5. CASE CreateUpload(s) \/ CreateFails(s)
    BY <1>1, <1>2, <1>5, <1>6, <1>7, <2>5 DEF CreateUpload, CreateFails, locals
  <2>6. CASE SpawnPart(s)
    BY <1>5, <1>6, <1>9, <2>6 DEF SpawnPart
  <2>7. ASSUME NEW i \in Parts, PartUploaded(s, i)
        PROVE  Pc /\ At /\ Locals /\ Upload /\ Cleanup /\ Faults
    BY <1>5, <1>6, <1>10, <2>7 DEF PartUploaded
  <2>8. ASSUME NEW i \in Parts, PartFails(s, i)
        PROVE  Pc /\ At /\ Locals /\ Upload /\ Cleanup /\ Faults
    BY <1>1, <1>5, <1>6, <1>11, <2>8 DEF PartFails
  <2>9. CASE CompleteUpload(s) \/ CompleteFails(s)
    BY <1>1, <1>3, <1>5, <1>6, <1>7, <2>9 DEF CompleteUpload, CompleteFails
  <2>10. CASE Confirm(s)
    BY <1>1, <1>2, <1>4, <1>5, <1>6, <2>10 DEF Confirm, locals
  <2>11. CASE CallFails(s)
    BY <1>1, <1>2, <1>5, <1>6, <2>11 DEF CallFails, locals
  <2>12. CASE AbortUpload(s)
    BY <1>2, <1>5, <1>6, <1>7, <1>8, <2>12 DEF AbortUpload, locals
  <2>13. CASE Kill(s)
    BY <1>2, <1>3, <1>5, <1>6, <2>13 DEF Kill
  <2>14. QED
    BY <2>1, <2>2, <2>3, <2>4, <2>5, <2>6, <2>7, <2>8, <2>9, <2>10, <2>11, <2>12, <2>13
       DEF StagerStep, Step, Failing
<1>14. QED
  BY <1>13 DEF Pc, At, Locals, Upload, Cleanup, Faults, TypeOK

-----------------------------------------------------------------------------
(* What one step does.                                                     *)

\* The stager puts the object it is at.
Puts(s) ==
    /\ pc[s] \in {"put", "parts"}
    /\ volume' = [volume EXCEPT ![at[s]] = Whole(s, at[s])]
    /\ volume[at[s]] = NoObject \/ at[s] \in Large

\* The other stagers stay as they are.
Alone(s) ==
    \A t \in Stagers \ {s} :
        /\ pc'[t] = pc[t] /\ at'[t] = at[t] /\ outcome'[t] = outcome[t]
        /\ next'[t] = next[t] /\ sending'[t] = sending[t] /\ done'[t] = done[t]

\* No object is replaced.
Kept == \A k \in Objects : volume[k] # NoObject => volume'[k] = volume[k]

(* When all parts are joined, the completed list names every part.         *)
LEMMA JoinedParts ==
    ASSUME TypeOK, NEW s \in Stagers, PartsKept(s), AllJoined(s)
    PROVE  ToSet(done[s]) = Parts
<1>1. done[s] \in Seq(Parts) /\ sending[s] \in [Parts -> 0 .. PartAttempts]
      /\ PartCount \in Nat /\ next[s] \in 1 .. PartCount + 1
  BY StageAssumption DEF TypeOK
<1>2. ToSet(done[s]) \subseteq Parts
  BY <1>1 DEF ToSet
<1>3. ASSUME NEW i \in Parts
      PROVE  i \in ToSet(done[s])
  <2>1. i < next[s]
    BY <1>1 DEF AllJoined, Parts
  <2>2. ~ (sending[s][i] > 0)
    BY DEF AllJoined, InFlight
  <2>3. QED
    BY <2>1, <2>2 DEF PartsKept, AllJoined
<1>4. QED
  BY <1>2, <1>3

(* The volume changes only when a stager puts its object, whole.           *)
LEMMA VolumeChange ==
    ASSUME TypeOK, NEW s \in Stagers, PartsKept(s), InTurn(s), StagerStep(s)
    PROVE  volume' = volume \/ Puts(s)
<1>1. pc[s] = "put" => Assembled(s, << >>) = Whole(s, at[s])
  BY DEF InTurn, Assembled, Whole
<1>2. AllJoined(s) => Assembled(s, Sorted(done[s])) = Whole(s, at[s]) /\ at[s] \in Large
  BY AllPartsSorted, JoinedParts DEF InTurn, Assembled, Whole, AllJoined
<1>3. CASE PutSingle(s) \/ PutFails(s)
  BY <1>1, <1>3 DEF PutSingle, PutFails, Puts
<1>4. CASE CompleteUpload(s) \/ CompleteFails(s)
  BY <1>2, <1>4 DEF CompleteUpload, CompleteFails, AllJoined, Puts
<1>5. CASE ~ (PutSingle(s) \/ PutFails(s) \/ CompleteUpload(s) \/ CompleteFails(s))
  BY <1>5 DEF StagerStep, Step, Failing, Start, CheckObject, VerifyStaged, Precheck, CreateUpload,
     SpawnPart, PartUploaded, Confirm, AbortUpload, CreateFails, PartFails, CallFails, Kill
<1>6. QED
  BY <1>3, <1>4, <1>5

(* Each step is a step of one stager.                                      *)
LEMMA StepAlone ==
    ASSUME TypeOK, NEW s \in Stagers, StagerStep(s)
    PROVE  Alone(s)
<1> SUFFICES ASSUME NEW t \in Stagers \ {s}
             PROVE  /\ pc'[t] = pc[t] /\ at'[t] = at[t] /\ outcome'[t] = outcome[t]
                    /\ next'[t] = next[t] /\ sending'[t] = sending[t] /\ done'[t] = done[t]
  BY DEF Alone
<1> DEFINE Pc == pc'[t] = pc[t] /\ outcome'[t] = outcome[t]
           At == at'[t] = at[t]
           Locals == next'[t] = next[t] /\ sending'[t] = sending[t] /\ done'[t] = done[t]
<1>1. /\ \A step : Goto(s, step) => Pc
      /\ \A how : Return(s, how) => Pc
      /\ UNCHANGED << pc, outcome >> => Pc
  BY DEF Goto, Return, TypeOK
<1>2. DropParts(s) => Locals
  BY DEF DropParts, TypeOK
<1>3. UNCHANGED << next, sending, done >> => Locals
  OBVIOUS
<1>4. NextObject(s) => Pc /\ At
  BY <1>1 DEF NextObject, TypeOK
<1>5. UNCHANGED at => At
  OBVIOUS
<1>6. Start(s) => Pc /\ At
  BY DEF Start, TypeOK
<1>7. SpawnPart(s) => Locals
  BY DEF SpawnPart, TypeOK
<1>8. ASSUME NEW i \in Parts, PartUploaded(s, i) \/ PartFails(s, i)
      PROVE  Locals
  BY <1>2, <1>8 DEF PartUploaded, PartFails, TypeOK
<1> HIDE DEF Pc, At, Locals
<1>9. Pc /\ At /\ Locals
  <2>1. CASE Start(s)
    BY <1>3, <1>6, <2>1 DEF Start, locals
  <2>2. CASE CheckObject(s) \/ VerifyStaged(s) \/ Precheck(s) \/ PutSingle(s) \/ PutFails(s)
    BY <1>1, <1>3, <1>4, <1>5, <2>2 DEF CheckObject, VerifyStaged, Precheck, PutSingle, PutFails,
       locals
  <2>3. CASE CreateUpload(s) \/ CreateFails(s) \/ Confirm(s) \/ CallFails(s) \/ AbortUpload(s)
    BY <1>1, <1>3, <1>4, <1>5, <2>3 DEF CreateUpload, CreateFails, Confirm, CallFails, AbortUpload,
       locals
  <2>4. CASE SpawnPart(s)
    BY <1>1, <1>5, <1>7, <2>4 DEF SpawnPart
  <2>5. ASSUME NEW i \in Parts, PartUploaded(s, i) \/ PartFails(s, i)
        PROVE  Pc /\ At /\ Locals
    BY <1>1, <1>5, <1>8, <2>5 DEF PartUploaded, PartFails
  <2>6. CASE CompleteUpload(s) \/ CompleteFails(s) \/ Kill(s)
    BY <1>1, <1>2, <1>5, <2>6 DEF CompleteUpload, CompleteFails, Kill
  <2>7. QED
    BY <2>1, <2>2, <2>3, <2>4, <2>5, <2>6 DEF StagerStep, Step, Failing
<1>10. QED
  BY <1>9 DEF Pc, At, Locals

(* An object of the volume is whole, and so a stager that puts a large one *)
(* again puts the same.                                                    *)
LEMMA PutsKeep ==
    ASSUME LargeShared, IndInv, NEW s \in Stagers, Puts(s)
    PROVE  Kept /\ volume'[at[s]] = Whole(s, at[s])
<1>1. at[s] \in Objects /\ volume \in [Objects -> {NoObject} \cup
                                         [content : Contents, parts : Seq(Parts)]]
  BY DEF IndInv, TypeOK
<1>2. volume'[at[s]] = Whole(s, at[s]) /\ \A k \in Objects \ {at[s]} : volume'[k] = volume[k]
  BY <1>1 DEF Puts
<1>3. volume[at[s]] # NoObject => volume[at[s]] = Whole(s, at[s])
  BY <1>1, WholeFacts DEF IndInv, Puts
<1>4. QED
  BY <1>2, <1>3 DEF Kept

(* What is placed stays placed.                                            *)
LEMMA PlacedStays ==
    ASSUME Kept, NEW s \in Stagers, NEW n, n <= ObjectCount, n \in Int, Placed(s, n)
    PROVE  Placed(s, n)'
<1>1. ASSUME NEW k \in 1 .. n
      PROVE  volume'[k] = Whole(s, k)
  <2>1. k \in Objects /\ volume[k] = Whole(s, k)
    BY StageAssumption DEF Objects, Placed
  <2>2. QED
    BY <2>1, WholeFacts DEF Kept
<1>2. QED
  BY <1>1 DEF Placed, Whole

(* The stager that steps keeps its parts.                                  *)
LEMMA PartsKeptStep ==
    ASSUME TypeOK, NEW s \in Stagers, PartsKept(s), StagerStep(s)
    PROVE  PartsKept(s)'
<1>0. /\ next[s] \in Nat /\ done[s] \in Seq(Parts)
      /\ sending[s] \in [Parts -> Nat] /\ PartCount \in Nat
      /\ \A i \in Parts : i \in Nat
  BY StageAssumption DEF TypeOK, Parts
<1>1. \A step : step # "parts" /\ Goto(s, step) => pc'[s] # "parts"
  BY DEF Goto, TypeOK
<1>2. \A how : Return(s, how) => pc'[s] # "parts"
  BY DEF Return, TypeOK
<1>3. NextObject(s) => pc'[s] # "parts"
  BY <1>1, <1>2 DEF NextObject
<1>4. DropParts(s) => next'[s] = 1
  BY DEF DropParts, TypeOK
<1>5. CASE pc'[s] # "parts" /\ next'[s] = 1
  BY <1>5 DEF PartsKept
<1>6. CASE Start(s) \/ CheckObject(s) \/ VerifyStaged(s) \/ Precheck(s) \/ PutSingle(s)
           \/ PutFails(s) \/ CreateFails(s) \/ Confirm(s) \/ CallFails(s) \/ AbortUpload(s)
  <2>1. pc[s] # "parts" /\ next' = next
    BY <1>6 DEF Start, CheckObject, VerifyStaged, Precheck, PutSingle, PutFails, CreateFails,
       Confirm, CallFails, AbortUpload, locals
  <2>2. pc'[s] # "parts"
    <3>1. CASE Start(s)
      BY <3>1 DEF Start, TypeOK
    <3>2. CASE CheckObject(s) \/ VerifyStaged(s) \/ Precheck(s) \/ PutSingle(s)
      BY <1>1, <1>2, <1>3, <3>2 DEF CheckObject, VerifyStaged, Precheck, PutSingle
    <3>3. CASE PutFails(s) \/ CreateFails(s) \/ Confirm(s) \/ CallFails(s) \/ AbortUpload(s)
      BY <1>1, <1>2, <1>3, <3>3 DEF PutFails, CreateFails, Confirm, CallFails, AbortUpload
    <3>4. QED
      BY <1>6, <3>1, <3>2, <3>3
  <2>3. QED
    BY <1>5, <2>1, <2>2 DEF PartsKept
<1>7. CASE CompleteUpload(s) \/ CompleteFails(s) \/ Kill(s)
  BY <1>1, <1>2, <1>4, <1>5, <1>7 DEF CompleteUpload, CompleteFails, Kill
<1>8. CASE CreateUpload(s)
  <2>1. next'[s] = 1
    BY <1>8 DEF CreateUpload, PartsKept, locals
  <2>2. \A i \in Parts : ~ (i < 1)
    BY DEF Parts
  <2>3. QED
    BY <1>5, <2>1, <2>2 DEF PartsKept
<1>9. CASE SpawnPart(s)
  <2>1. /\ pc'[s] = pc[s] /\ pc[s] = "parts" /\ done' = done
        /\ next'[s] = next[s] + 1 /\ next[s] \in Parts
        /\ sending'[s][next[s]] = 1
        /\ \A i \in Parts \ {next[s]} : sending'[s][i] = sending[s][i]
    BY <1>0, <1>9 DEF SpawnPart, TypeOK, Parts
  <2>2. ASSUME NEW i \in Parts, i < next[s] + 1
        PROVE  sending'[s][i] > 0 \/ i \in ToSet(done[s])
    <3>1. i = next[s] \/ i < next[s]
      BY <1>0, <2>2
    <3>2. QED
      BY <1>0, <2>1, <3>1 DEF PartsKept
  <2>3. QED
    BY <2>1, <2>2 DEF PartsKept
<1>10. ASSUME NEW i \in Parts, PartUploaded(s, i)
       PROVE  PartsKept(s)'
  <2>1. /\ pc'[s] = pc[s] /\ pc[s] = "parts" /\ next'[s] = next[s]
        /\ done'[s] = Append(done[s], i)
        /\ \A j \in Parts \ {i} : sending'[s][j] = sending[s][j]
    BY <1>10 DEF PartUploaded, TypeOK
  <2>2. \A j \in ToSet(done[s]) \cup {i} : j \in ToSet(Append(done[s], i))
    <3> DEFINE list == Append(done[s], i)
    <3>1. /\ Len(done[s]) \in Nat /\ DOMAIN done[s] = 1 .. Len(done[s])
          /\ DOMAIN list = 1 .. Len(done[s]) + 1
          /\ list[Len(done[s]) + 1] = i /\ \A k \in DOMAIN done[s] : list[k] = done[s][k]
      BY <1>0
    <3> HIDE DEF list
    <3>2. \A k \in DOMAIN done[s] : k \in DOMAIN list
      BY <3>1
    <3>3. Len(done[s]) + 1 \in DOMAIN list
      BY <3>1
    <3>4. \A j \in ToSet(done[s]) \cup {i} : j \in ToSet(list)
      BY <3>1, <3>2, <3>3 DEF ToSet
    <3>5. QED
      BY <3>4 DEF list
  <2>3. QED
    BY <2>1, <2>2 DEF PartsKept
<1>11. ASSUME NEW i \in Parts, PartFails(s, i)
       PROVE  PartsKept(s)'
  <2>1. CASE sending[s][i] < PartAttempts
    <3>1. /\ pc' = pc /\ pc[s] = "parts" /\ next' = next /\ done' = done
          /\ sending'[s][i] = sending[s][i] + 1
          /\ \A j \in Parts \ {i} : sending'[s][j] = sending[s][j]
      BY <1>11, <2>1 DEF PartFails, TypeOK
    <3>2. sending'[s][i] > 0
      BY <1>0, <3>1
    <3>3. QED
      BY <3>1, <3>2 DEF PartsKept
  <2>2. CASE ~ (sending[s][i] < PartAttempts)
    BY <1>1, <1>4, <1>5, <1>11, <2>2 DEF PartFails
  <2>3. QED
    BY <2>1, <2>2
<1>12. QED
  BY <1>6, <1>7, <1>8, <1>9, <1>10, <1>11 DEF StagerStep, Step, Failing

(* The stager that steps takes its objects in turn.                        *)
LEMMA InTurnStep ==
    ASSUME LargeShared, IndInv, NEW s \in Stagers, StagerStep(s), Kept,
           volume' = volume \/ (Puts(s) /\ volume'[at[s]] = Whole(s, at[s]))
    PROVE  InTurn(s)'
<1> DEFINE PlacedNext(n) == \A k \in 1 .. n : volume'[k] = Whole(s, k)
<1>0. /\ TypeOK /\ InTurn(s) /\ ObjectCount \in Nat \ {0} /\ at[s] \in Objects
      /\ at' \in [Stagers -> Objects] => at'[s] \in Objects
  BY StageAssumption DEF IndInv, TypeOK
<1>1. \A n \in Int : n <= ObjectCount /\ Placed(s, n) => PlacedNext(n)
  <2> SUFFICES ASSUME NEW n \in Int, n <= ObjectCount, Placed(s, n), NEW k \in 1 .. n
               PROVE  volume'[k] = Whole(s, k)
    OBVIOUS
  <2>1. k \in Objects /\ volume[k] = Whole(s, k)
    BY <1>0 DEF Placed, Objects
  <2>2. QED
    BY <2>1, WholeFacts DEF Kept
<1>2. /\ pc[s] # "idle" => PlacedNext(at[s] - 1)
      /\ outcome[s] = "ok" => PlacedNext(ObjectCount)
  BY <1>0, <1>1 DEF InTurn, Objects
<1>3. InTurn(s)' =
        (/\ pc'[s] = "put" => at'[s] \notin Large
         /\ pc'[s] \in {"create", "parts"} => at'[s] \in Large
         /\ pc'[s] = "confirm" => volume'[at'[s]] = Whole(s, at'[s])
         /\ pc'[s] # "idle" => PlacedNext(at'[s] - 1)
         /\ outcome'[s] = "ok" => PlacedNext(ObjectCount))
  BY DEF InTurn, Placed, Whole
<1> HIDE DEF PlacedNext
<1>4. \A how : how # "ok" /\ Return(s, how) => InTurn(s)'
  <2> SUFFICES ASSUME NEW how, how # "ok", Return(s, how)
               PROVE  InTurn(s)'
    OBVIOUS
  <2>1. pc'[s] = "idle" /\ outcome'[s] = how
    BY <1>0 DEF Return, TypeOK
  <2>2. QED
    BY <1>3, <2>1
<1>5. ASSUME NEW step, Goto(s, step), UNCHANGED at, pc[s] # "idle",
             step = "put" => at[s] \notin Large,
             step \in {"create", "parts"} => at[s] \in Large,
             step = "confirm" => volume'[at[s]] = Whole(s, at[s])
      PROVE  InTurn(s)'
  <2>1. pc'[s] = step /\ outcome'[s] = outcome[s] /\ at'[s] = at[s]
    BY <1>0, <1>5 DEF Goto, TypeOK
  <2>2. QED
    BY <1>2, <1>3, <1>5, <2>1
<1>6. ASSUME NextObject(s), pc[s] # "idle", volume' = volume, volume[at[s]] = Whole(s, at[s])
      PROVE  InTurn(s)'
  <2>1. PlacedNext(at[s])
    <3>1. ASSUME NEW k \in 1 .. at[s]
          PROVE  volume'[k] = Whole(s, k)
      <4>1. k = at[s] \/ k \in 1 .. at[s] - 1
        BY <1>0 DEF Objects
      <4>2. QED
        BY <1>2, <1>6, <4>1 DEF PlacedNext
    <3>2. QED
      BY <3>1 DEF PlacedNext
  <2>2. CASE at[s] = ObjectCount
    <3>1. pc'[s] = "idle" /\ outcome'[s] = "ok"
      BY <1>0, <1>6, <2>2 DEF NextObject, Return, TypeOK
    <3>2. QED
      BY <1>3, <2>1, <2>2, <3>1
  <2>3. CASE at[s] # ObjectCount
    <3>1. pc'[s] = "head" /\ outcome'[s] = outcome[s] /\ at'[s] = at[s] + 1
      BY <1>0, <1>6, <2>3 DEF NextObject, Goto, TypeOK
    <3>2. at'[s] - 1 = at[s]
      BY <1>0, <3>1 DEF Objects
    <3>3. outcome'[s] = "ok" => PlacedNext(ObjectCount)
      BY <1>2, <3>1
    <3>4. PlacedNext(at'[s] - 1)
      BY <2>1, <3>2
    <3>5. QED
      BY <1>3, <3>1, <3>3, <3>4
  <2>4. QED
    BY <2>2, <2>3
<1>7. CASE UNCHANGED << pc, at, outcome, volume >>
  BY <1>2, <1>3, <1>7, <1>0 DEF InTurn
<1>8. CASE Start(s)
  <2>1. pc'[s] = "head" /\ at'[s] = 1 /\ outcome'[s] = "none"
    BY <1>0, <1>8 DEF Start, TypeOK
  <2>2. PlacedNext(1 - 1)
    BY DEF PlacedNext
  <2>3. QED
    BY <1>3, <2>1, <2>2
<1>9. CASE CheckObject(s)
  BY <1>4, <1>5, <1>9 DEF CheckObject
<1>10. CASE VerifyStaged(s)
  BY <1>4, <1>6, <1>10 DEF VerifyStaged
<1>11. CASE Precheck(s)
  BY <1>4, <1>5, <1>11 DEF Precheck
<1>12. CASE PutSingle(s)
  <2>1. CASE volume[at[s]] = NoObject
    <3>1. volume'[at[s]] = Assembled(s, << >>)
      BY <1>0, <1>12, <2>1 DEF PutSingle, TypeOK
    <3>2. Assembled(s, << >>) = Whole(s, at[s])
      BY <1>0, <1>12 DEF PutSingle, InTurn, Assembled, Whole
    <3>3. QED
      BY <1>5, <1>12, <2>1, <3>1, <3>2 DEF PutSingle
  <2>2. CASE volume[at[s]] # NoObject
    BY <1>4, <1>12, <2>2 DEF PutSingle
  <2>3. QED
    BY <2>1, <2>2
<1>13. CASE PutFails(s)
  BY <1>4, <1>13 DEF PutFails
<1>14. CASE CreateUpload(s) \/ CreateFails(s)
  BY <1>0, <1>4, <1>5, <1>14 DEF CreateUpload, CreateFails, InTurn
<1>15. CASE SpawnPart(s) \/ \E i \in Parts : PartUploaded(s, i)
  BY <1>7, <1>15 DEF SpawnPart, PartUploaded
<1>16. ASSUME NEW i \in Parts, PartFails(s, i)
       PROVE  InTurn(s)'
  <2>1. CASE sending[s][i] < PartAttempts
    BY <1>7, <1>16, <2>1 DEF PartFails
  <2>2. CASE ~ (sending[s][i] < PartAttempts)
    BY <1>5, <1>16, <2>2 DEF PartFails
  <2>3. QED
    BY <2>1, <2>2
<1>17. CASE CompleteUpload(s)
  <2>1. volume'[at[s]] = Assembled(s, Sorted(done[s]))
    BY <1>0, <1>17 DEF CompleteUpload, TypeOK
  <2>2. Assembled(s, Sorted(done[s])) = Whole(s, at[s])
    <3>1. AllJoined(s) /\ PartsKept(s)
      BY <1>17 DEF CompleteUpload, IndInv
    <3>2. QED
      BY <1>0, <3>1, AllPartsSorted, JoinedParts DEF InTurn, Assembled, Whole, AllJoined
  <2>3. QED
    BY <1>5, <1>17, <2>1, <2>2 DEF CompleteUpload, AllJoined
<1>18. CASE CompleteFails(s)
  BY <1>5, <1>18 DEF CompleteFails, AllJoined
<1>19. CASE Confirm(s)
  BY <1>0, <1>4, <1>5, <1>6, <1>19 DEF Confirm, InTurn
<1>20. CASE CallFails(s)
  BY <1>4, <1>5, <1>20 DEF CallFails
<1>21. CASE AbortUpload(s) \/ Kill(s)
  BY <1>4, <1>21 DEF AbortUpload, Kill
<1>22. QED
  BY <1>8, <1>9, <1>10, <1>11, <1>12, <1>13, <1>14, <1>15, <1>16, <1>17, <1>18, <1>19, <1>20, <1>21
     DEF StagerStep, Step, Failing

-----------------------------------------------------------------------------
(* A bundle.json on the volume says that its bundle is there: the stager   *)
(* that puts it has placed the rest, and so has any with an equal one.     *)
LEMMA ClosedStep ==
    ASSUME LargeShared, IndInv, NEW s \in Stagers, Kept,
           volume' = volume \/ (Puts(s) /\ volume'[at[s]] = Whole(s, at[s])),
           NEW u \in Stagers
    PROVE  Closed(u)'
<1>0. /\ ObjectCount \in Nat \ {0} /\ ObjectCount \in Objects
      /\ at[s] \in Objects /\ volume \in [Objects -> {NoObject} \cup
                                              [content : Contents, parts : Seq(Parts)]]
  BY StageAssumption DEF IndInv, TypeOK, Objects
<1>1. Closed(u)' = (volume'[ObjectCount] = Whole(u, ObjectCount) =>
                      \A k \in 1 .. ObjectCount : volume'[k] = Whole(u, k))
  BY DEF Closed, Placed, Whole
<1>2. SUFFICES ASSUME volume'[ObjectCount] = Whole(u, ObjectCount), NEW k \in Objects
               PROVE  volume'[k] = Whole(u, k)
  BY <1>1 DEF Objects
<1>3. CASE volume[ObjectCount] = volume'[ObjectCount]
  <2>1. volume[k] = Whole(u, k)
    BY <1>2, <1>3 DEF IndInv, Closed, Placed, Objects
  <2>2. QED
    BY <2>1, WholeFacts DEF Kept
<1>4. CASE volume[ObjectCount] # volume'[ObjectCount]
  <2>1. Puts(s) /\ at[s] = ObjectCount /\ volume'[ObjectCount] = Whole(s, ObjectCount)
    BY <1>0, <1>4 DEF Puts
  <2>2. Whole(s, k) = Whole(u, k)
    <3>1. Bundle[s][ObjectCount] = Bundle[u][ObjectCount]
      BY <1>2, <2>1 DEF Whole
    <3>2. Bundle[s][k] = Bundle[u][k]
      BY <3>1, StageAssumption
    <3>3. QED
      BY <3>2 DEF Whole
  <2>3. volume'[k] = Whole(s, k)
    <3>1. CASE k = ObjectCount
      BY <2>1, <3>1
    <3>2. CASE k # ObjectCount
      <4>1. Placed(s, at[s] - 1)
        BY <2>1 DEF IndInv, InTurn, Puts
      <4>2. volume[k] = Whole(s, k)
        BY <1>0, <2>1, <3>2, <4>1 DEF Placed, Objects
      <4>3. QED
        BY <4>2, WholeFacts DEF Kept
    <3>3. QED
      BY <3>1, <3>2
  <2>4. QED
    BY <2>2, <2>3
<1>5. QED
  BY <1>3, <1>4

(* Every step keeps the invariant, and replaces no object.                 *)
LEMMA IndInvStep ==
    ASSUME LargeShared, IndInv, [Next]_vars
    PROVE  IndInv' /\ Kept
<1>1. CASE UNCHANGED vars
  <2>1. Kept
    BY <1>1 DEF vars, Kept
  <2>2. TypeOK'
    BY <1>1 DEF IndInv, TypeOK, vars, locals
  <2>3. \A s \in Stagers : PartsKept(s)' /\ InTurn(s)' /\ Closed(s)'
    BY <1>1 DEF IndInv, PartsKept, InTurn, Closed, Placed, Whole, vars, locals
  <2>4. \A k \in Objects : volume'[k] # NoObject => \E s \in Stagers : volume'[k] = Whole(s, k)
    BY <1>1 DEF IndInv, vars
  <2>5. QED
    BY <2>1, <2>2, <2>3, <2>4 DEF IndInv, Whole
<1>2. ASSUME NEW s \in Stagers, StagerStep(s)
      PROVE  IndInv' /\ Kept
  <2>1. volume' = volume \/ (Puts(s) /\ volume'[at[s]] = Whole(s, at[s]))
    BY <1>2, VolumeChange, PutsKeep DEF IndInv
  <2>2. Kept
    BY <2>1, PutsKeep DEF Kept
  <2>3. /\ volume' \in [Objects -> {NoObject} \cup [content : Contents, parts : Seq(Parts)]]
        /\ \A k \in Objects : volume'[k] # NoObject => \E t \in Stagers : volume'[k] = Whole(t, k)
    <3>1. CASE volume' = volume
      BY <3>1 DEF IndInv, TypeOK, Whole
    <3>2. CASE Puts(s)
      <4>1. at[s] \in Objects
        BY DEF IndInv, TypeOK
      <4>2. Whole(s, at[s]) \in [content : Contents, parts : Seq(Parts)]
        BY <4>1, WholeFacts
      <4>3. QED
        BY <3>2, <4>1, <4>2 DEF IndInv, TypeOK, Puts
    <3>3. QED
      BY <2>1, <3>1, <3>2
  <2>4. TypeOK'
    BY <1>2, <2>3, TypeStep DEF IndInv
  <2>5. Alone(s)
    BY <1>2, StepAlone DEF IndInv
  <2>6. ASSUME NEW u \in Stagers
        PROVE  PartsKept(u)' /\ InTurn(u)' /\ Closed(u)'
    <3>1. Closed(u)'
      BY <2>1, <2>2, ClosedStep
    <3>2. CASE u = s
      BY <1>2, <2>1, <2>2, <3>1, <3>2, PartsKeptStep, InTurnStep DEF IndInv
    <3>3. CASE u # s
      <4>1. /\ pc'[u] = pc[u] /\ at'[u] = at[u] /\ outcome'[u] = outcome[u]
            /\ next'[u] = next[u] /\ sending'[u] = sending[u] /\ done'[u] = done[u]
        BY <2>5, <3>3 DEF Alone
      <4>2. PartsKept(u)'
        BY <4>1 DEF IndInv, PartsKept
      <4>3. InTurn(u) /\ at[u] \in Objects /\ ObjectCount \in Nat
        BY StageAssumption DEF IndInv, TypeOK
      <4>4. \A n \in Int : n <= ObjectCount /\ Placed(u, n) =>
              \A k \in 1 .. n : volume'[k] = Whole(u, k)
        <5> SUFFICES ASSUME NEW n \in Int, n <= ObjectCount, Placed(u, n), NEW k \in 1 .. n
                     PROVE  volume'[k] = Whole(u, k)
          OBVIOUS
        <5>1. k \in Objects /\ volume[k] = Whole(u, k)
          BY <4>3 DEF Placed, Objects
        <5>2. QED
          BY <2>2, <5>1, WholeFacts DEF Kept
      <4>5. /\ pc[u] # "idle" => \A k \in 1 .. at[u] - 1 : volume'[k] = Whole(u, k)
            /\ outcome[u] = "ok" => \A k \in 1 .. ObjectCount : volume'[k] = Whole(u, k)
        BY <4>3, <4>4 DEF InTurn, Objects
      <4>6. pc[u] = "confirm" => volume'[at[u]] = Whole(u, at[u])
        BY <2>2, <4>3, WholeFacts DEF InTurn, Kept
      <4>7. InTurn(u)'
        BY <4>1, <4>3, <4>5, <4>6 DEF InTurn, Placed, Whole
      <4>8. QED
        BY <3>1, <4>2, <4>7
    <3>4. QED
      BY <3>2, <3>3
  <2>7. QED
    BY <2>2, <2>3, <2>4, <2>6 DEF IndInv, Whole
<1>3. QED
  BY <1>1, <1>2 DEF Next, StagerStep

(* The volume is empty at first.                                           *)
LEMMA IndInvInit == Init => IndInv
<1> SUFFICES ASSUME Init PROVE IndInv
  OBVIOUS
<1>0. /\ ObjectCount \in Nat \ {0} /\ PartCount \in Nat \ {0} /\ PartAttempts \in Nat \ {0}
      /\ MaxFaults \in Nat
  BY StageAssumption
<1>1. TypeOK
  BY <1>0 DEF Init, TypeOK, NoSending, Objects
<1>2. ASSUME NEW s \in Stagers
      PROVE  PartsKept(s) /\ InTurn(s) /\ Closed(s)
  <2>1. pc[s] = "idle" /\ next[s] = 1 /\ outcome[s] = "none"
    BY DEF Init
  <2>2. volume[ObjectCount] = NoObject /\ ObjectCount \in Objects
    BY <1>0 DEF Init, Objects
  <2>3. QED
    BY <2>1, <2>2, WholeFacts DEF PartsKept, InTurn, Closed
<1>3. QED
  BY <1>1, <1>2 DEF IndInv, Init

(* The bundle is staged last: wherever its bundle.json is on the volume    *)
(* and whenever its stage has succeeded, all its objects are there, whole, *)
(* for any number of stagers, objects and parts, if large objects under    *)
(* one key are the same.                                                   *)
THEOREM BundlesAreWhole ==
    ASSUME LargeShared
    PROVE  Spec => []BundleLast
<1>1. IndInv => BundleLast
  <2>1. Objects = 1 .. ObjectCount
    BY DEF Objects
  <2>2. QED
    BY <2>1 DEF IndInv, InTurn, Closed, Placed, BundleLast
<1>2. LargeShared /\ IndInv /\ [Next]_vars => IndInv'
  BY IndInvStep
<1>3. QED
  BY <1>1, <1>2, IndInvInit, PTL DEF Spec

(* No step of any stager replaces an object of the volume, not even the    *)
(* completion of a multipart upload, which is not conditional.             *)
THEOREM StagedNeverReplaced ==
    ASSUME LargeShared
    PROVE  Spec => [][\A k \in Objects : volume[k] # NoObject => volume'[k] = volume[k]]_vars
<1>1. LargeShared /\ IndInv /\ [Next]_vars => IndInv'
  BY IndInvStep
<1>2. LargeShared /\ IndInv /\ [Next]_vars =>
        [\A k \in Objects : volume[k] # NoObject => volume'[k] = volume[k]]_vars
  BY IndInvStep DEF Kept
<1>3. QED
  BY <1>1, <1>2, IndInvInit, PTL DEF Spec

-----------------------------------------------------------------------------
(* Storage challenges.                                                     *)

\* A step on behalf of one command.
CommandStep(h) ==
    HostStep(h) \/ PodStarts(h) \/ PodStops(h) \/ MountShows(h) \/ WorkerStep(h)

\* No object of the volume is replaced; what appears is the command's.
ObjectsKept(h) ==
    /\ prefix' \in [KeySet -> Commands \cup {None}]
    /\ \A k \in KeySet : prefix'[k] = prefix[k] \/ (prefix[k] = None /\ prefix'[k] = h)

\* The other commands and their Pods are left alone.
Framed(h) ==
    host' = [host EXCEPT ![h] = host'[h]] /\ pod' = [pod EXCEPT ![h] = pod'[h]]

\* What the invariant says of one command.
CommandInv(h) == Claimed(h) /\ Recorded(h) /\ Answered(h) /\ PodAccounted(h) /\ Succeeded(h)

-----------------------------------------------------------------------------
(* The keys that check_unused looks for.                                   *)
LEMMA KeyFacts ==
    /\ Len(FailureCodes) = 4 /\ Len(Keys) = 7
    /\ \A k \in 1 .. 4 : FailureCodes[k] \in KeySet
    /\ "bootstrap" \in KeySet /\ "challenge" \in KeySet /\ "response" \in KeySet
    /\ None \notin KeySet
<1>1. Len(FailureCodes) = 4 /\ Len(Keys) = 7
  BY DEF FailureCodes, Keys
<1>2. /\ Keys[1] = "bootstrap" /\ Keys[2] = "challenge" /\ Keys[3] = "response"
      /\ Keys[4] = "contract_failure" /\ Keys[5] = "io_failure"
      /\ Keys[6] = "storage_challenge_contract" /\ Keys[7] = "storage_probe"
  BY DEF FailureCodes, Keys
<1>3. KeySet = {"bootstrap", "challenge", "response", "contract_failure", "io_failure",
                "storage_challenge_contract", "storage_probe"}
  <2>1. 1 .. Len(Keys) = {1, 2, 3, 4, 5, 6, 7}
    BY <1>1
  <2>2. QED
    BY <1>2, <2>1 DEF KeySet
<1>4. \A k \in 1 .. 4 : FailureCodes[k] \in KeySet
  <2>1. \A k \in 1 .. 4 : k = 1 \/ k = 2 \/ k = 3 \/ k = 4
    OBVIOUS
  <2>2. QED
    BY <1>3, <2>1 DEF FailureCodes
<1>5. QED
  BY <1>1, <1>3, <1>4 DEF None

LEMMA InitInv ==
    ASSUME None \notin Commands, ChallengeInit
    PROVE  ChallengeInv
<1>1. ChallengeTypeOK
  <2>1. [pc |-> "check", at |-> 1, outcome |-> None, code |-> None, verified |-> FALSE,
         tries |-> 0, cleanup |-> None, receipts |-> {}, result |-> None, leak |-> {}] \in Hosts
    <3>1. 1 \in 1 .. Len(Keys)
      BY KeyFacts
    <3>2. QED
      BY <3>1 DEF Hosts, HostSteps, Outcomes
  <2>2. [state |-> "none", worker |-> "off", starts |-> 0, shown |-> "nothing",
         answered |-> FALSE] \in PodRecords
    BY DEF PodRecords, PodStates, WorkerSteps
  <2>3. QED
    BY <2>1, <2>2 DEF ChallengeInit, ChallengeTypeOK
<1>2. ASSUME NEW h \in Commands PROVE CommandInv(h)
  BY KeyFacts DEF ChallengeInit, CommandInv, Claimed, Recorded, Answered, PodAccounted, Succeeded,
     Alive, None
<1>3. QED
  BY <1>1, <1>2 DEF ChallengeInv, CommandInv

(* No step replaces an object or touches another command or its Pod.       *)
LEMMA StepKeeps ==
    ASSUME ChallengeTypeOK, NEW h \in Commands, CommandStep(h)
    PROVE  ObjectsKept(h) /\ Framed(h)
<1> USE DEF ChallengeTypeOK, ObjectsKept, Framed
<1>1. CASE CheckUnused(h)
  BY <1>1 DEF CheckUnused, Abandon
<1>2. CASE PutBootstrap(h)
  BY <1>2, KeyFacts DEF PutBootstrap, Put, Proceed, Abandon
<1>3. CASE ClaimFails(h)
  BY <1>3, KeyFacts DEF ClaimFails, PutLost, Put, Abandon, Faulted
<1>4. CASE Schedule(h)
  BY <1>4 DEF Schedule, Created, Proceed, Abandon, Faulted
<1>5. CASE WriteReceipt(h, "schedule", "write_create", "admit")
  BY <1>5 DEF WriteReceipt, Proceed, Faulted
<1>6. CASE Admit(h)
  BY <1>6 DEF Admit, Proceed, PodStop, Abandon, Faulted
<1>7. CASE WriteReceipt(h, "launch", "write_launch", "upload")
  BY <1>7 DEF WriteReceipt, Proceed, Faulted
<1>8. CASE PutChallenge(h)
  BY <1>8, KeyFacts DEF PutChallenge, Put, PutLost, Proceed, Break, Faulted
<1>9. CASE CheckLimits(h)
  BY <1>9 DEF CheckLimits, Proceed, Break
<1>10. CASE PollResponse(h)
  BY <1>10 DEF PollResponse, Proceed, Break
<1>11. CASE PollFailure(h)
  BY <1>11 DEF PollFailure
<1>12. CASE PollStatus(h)
  BY <1>12 DEF PollStatus, Proceed, Break
<1>13. CASE PollFails(h)
  BY <1>13 DEF PollFails, Break, Faulted
<1>14. CASE DeletePod(h)
  BY <1>14 DEF DeletePod, PodStop, Deleted, Faulted
<1>15. CASE Fetch(h)
  BY <1>15 DEF Fetch, Fetched, Proceed, Faulted
<1>16. CASE WriteOut(h)
  BY <1>16 DEF WriteOut, Abandon, Faulted
<1>17. CASE HostDies(h)
  BY <1>17 DEF HostDies, Faulted
<1>18. CASE PodStarts(h)
  BY <1>18 DEF PodStarts
<1>19. CASE PodStops(h)
  BY <1>19 DEF PodStops, PodStop
<1>20. CASE MountShows(h)
  BY <1>20 DEF MountShows
<1>21. CASE WorkerStarts(h)
  BY <1>21 DEF WorkerStarts
<1>22. CASE Probe(h)
  BY <1>22 DEF Probe, Worker, WorkerFails, Publish, Faulted
<1>23. CASE CheckContract(h)
  BY <1>23 DEF CheckContract, Worker, WorkerFails, Publish
<1>24. CASE ReadChallenge(h)
  BY <1>24 DEF ReadChallenge, Worker, WorkerFails, Publish
<1>25. CASE WaitFails(h)
  BY <1>25 DEF WaitFails, Worker, WorkerFails, Publish, Faulted
<1>26. CASE PublishResponse(h)
  BY <1>26 DEF PublishResponse, Worker, WorkerFails, Publish, Faulted
<1>27. QED
  BY <1>1, <1>2, <1>3, <1>4, <1>5, <1>6, <1>7, <1>8, <1>9, <1>10, <1>11, <1>12, <1>13,
     <1>14, <1>15, <1>16, <1>17, <1>18, <1>19, <1>20, <1>21, <1>22, <1>23, <1>24,
     <1>25, <1>26 DEF CommandStep, HostStep, WorkerStep

(* So what holds of the other commands goes on holding.                    *)
LEMMA OthersKept ==
    ASSUME ChallengeInv, NEW h \in Commands, ObjectsKept(h), Framed(h), NEW g \in Commands \ {h},
           None \notin Commands
    PROVE  CommandInv(g)'
<1>1. CommandInv(g) /\ host'[g] = host[g] /\ pod'[g] = pod[g]
  BY DEF ChallengeInv, ChallengeTypeOK, CommandInv, Framed
<1>2. \A k \in KeySet : prefix'[k] = g <=> prefix[k] = g
  BY DEF ObjectsKept
<1>3. QED
  BY <1>1, <1>2, KeyFacts DEF CommandInv, Claimed, Recorded, Answered, PodAccounted,
     Succeeded, Alive

(* The types, and the cursor, after a step of one command.                 *)
LEMMA HostTypeStep ==
    ASSUME ChallengeInv, NEW h \in Commands, CommandStep(h)
    PROVE  ChallengeTypeOK'
<1>0. /\ host \in [Commands -> Hosts] /\ host[h] \in Hosts
      /\ host[h].at # 1 => \/ host[h].pc = "check"
                           \/ host[h].pc = "failures" /\ host[h].at <= 4
  BY KeyFacts DEF ChallengeInv, ChallengeTypeOK
<1>a. pod \in [Commands -> PodRecords] /\ pod[h] \in PodRecords
  BY DEF ChallengeInv, ChallengeTypeOK
<1>d. 1 \in 1 .. Len(Keys)
  BY KeyFacts
<1>b. ASSUME /\ host'[h] \in Hosts /\ pod'[h] \in PodRecords /\ challenge_faults' \in Nat
             /\ host'[h].at # 1 => \/ host'[h].pc = "check"
                                   \/ host'[h].pc = "failures" /\ host'[h].at <= 4
      PROVE  ChallengeTypeOK'
  <2>1. ObjectsKept(h) /\ Framed(h)
    BY StepKeeps DEF ChallengeInv
  <2>2. host' \in [Commands -> Hosts] /\ pod' \in [Commands -> PodRecords]
    BY <1>0, <1>a, <1>b, <2>1 DEF Framed
  <2>3. \A g \in Commands \ {h} : host'[g] = host[g]
    BY <1>0, <2>1 DEF Framed
  <2>4. QED
    BY <1>b, <2>1, <2>2, <2>3, KeyFacts DEF ChallengeInv, ChallengeTypeOK, ObjectsKept
<1>c. challenge_faults' \in Nat
  <2>1. challenge_faults' = challenge_faults \/ Faulted
    BY DEF CommandStep, HostStep, WorkerStep,
       CheckUnused, PutBootstrap, ClaimFails, Schedule, WriteReceipt, Admit,
       PutChallenge, CheckLimits, PollResponse, PollFailure, PollStatus, PollFails,
       DeletePod, Fetch, WriteOut, HostDies, PodStarts, PodStops, MountShows,
       WorkerStarts, Probe, CheckContract, ReadChallenge, WaitFails, PublishResponse
  <2>2. challenge_faults \in Nat
    BY DEF ChallengeInv, ChallengeTypeOK
  <2>3. QED
    BY <2>1, <2>2 DEF Faulted
<1>1. CASE CheckUnused(h)
  <2>1. host'[h] \in Hosts
    BY <1>0, <1>1, KeyFacts DEF CheckUnused, Abandon, Hosts, HostSteps
  <2>2. host'[h].at = 1 \/ host'[h] = [host[h] EXCEPT !.at = @ + 1]
    BY <1>0, <1>1 DEF CheckUnused, Abandon, Hosts
  <2>3. host[h].pc = "check" /\ [host[h] EXCEPT !.at = @ + 1].pc = host[h].pc
    BY <1>0, <1>1 DEF CheckUnused, Hosts
  <2>4. pod' = pod
    BY <1>1 DEF CheckUnused
  <2>5. QED
    BY <1>0, <1>a, <1>b, <1>c, <2>1, <2>2, <2>3, <2>4
<1>2. CASE PutBootstrap(h)
  <2>1. host'[h] \in Hosts
    BY <1>0, <1>2, KeyFacts DEF PutBootstrap, Put, Proceed, Abandon, Hosts, HostSteps,
       Outcomes, Reasons
  <2>2. host'[h].at # 1 => \/ host'[h].pc = "check"
                           \/ host'[h].pc = "failures" /\ host'[h].at <= 4
    BY <1>0, <1>2, KeyFacts DEF PutBootstrap, Put, Proceed, Abandon, Hosts
  <2>3. pod' = pod
    BY <1>2 DEF PutBootstrap
  <2>4. QED
    BY <1>0, <1>a, <1>b, <1>c, <2>1, <2>2, <2>3
<1>3. CASE ClaimFails(h)
  <2>1. host'[h] \in Hosts
    BY <1>0, <1>3, <1>d DEF ClaimFails, Abandon, Hosts, HostSteps, Outcomes, Reasons
  <2>2. host'[h].at # 1 => \/ host'[h].pc = "check"
                           \/ host'[h].pc = "failures" /\ host'[h].at <= 4
    BY <1>0, <1>3, KeyFacts DEF ClaimFails, Abandon, Hosts
  <2>3. pod' = pod
    BY <1>3 DEF ClaimFails
  <2>4. QED
    BY <1>0, <1>a, <1>b, <1>c, <2>1, <2>2, <2>3
<1>4. CASE Schedule(h)
  <2>1. host'[h] \in Hosts
    BY <1>0, <1>4, KeyFacts DEF Schedule, Created, Proceed, Abandon, Faulted, Hosts, HostSteps,
       Outcomes, Reasons
  <2>2. host'[h].at # 1 => \/ host'[h].pc = "check"
                           \/ host'[h].pc = "failures" /\ host'[h].at <= 4
    BY <1>0, <1>4, KeyFacts DEF Schedule, Created, Proceed, Abandon, Faulted, Hosts
  <2>3. pod'[h] \in PodRecords
    BY <1>a, <1>4 DEF Schedule, Created, Proceed, Abandon, Faulted, PodRecords, PodStates,
       WorkerSteps
  <2>4. QED
    BY <1>0, <1>a, <1>b, <1>c, <2>1, <2>2, <2>3
<1>5. CASE WriteReceipt(h, "schedule", "write_create", "admit")
  <2>1. host'[h] \in Hosts
    BY <1>0, <1>5, KeyFacts DEF WriteReceipt, Proceed, Faulted, Hosts, HostSteps, Outcomes,
       Reasons
  <2>2. host'[h].at # 1 => \/ host'[h].pc = "check"
                           \/ host'[h].pc = "failures" /\ host'[h].at <= 4
    BY <1>0, <1>5, KeyFacts DEF WriteReceipt, Proceed, Faulted, Hosts
  <2>3. pod' = pod
    BY <1>5 DEF WriteReceipt
  <2>4. QED
    BY <1>0, <1>a, <1>b, <1>c, <2>1, <2>2, <2>3
<1>6. CASE Admit(h)
  <2>1. host'[h] \in Hosts
    BY <1>0, <1>6, KeyFacts DEF Admit, Proceed, PodStop, Abandon, Faulted, Hosts, HostSteps,
       Outcomes, Reasons
  <2>2. host'[h].at # 1 => \/ host'[h].pc = "check"
                           \/ host'[h].pc = "failures" /\ host'[h].at <= 4
    BY <1>0, <1>6, KeyFacts DEF Admit, Proceed, PodStop, Abandon, Faulted, Hosts
  <2>3. pod'[h] \in PodRecords
    BY <1>a, <1>6 DEF Admit, Proceed, PodStop, Abandon, Faulted, PodRecords, PodStates,
       WorkerSteps
  <2>4. QED
    BY <1>0, <1>a, <1>b, <1>c, <2>1, <2>2, <2>3
<1>7. CASE WriteReceipt(h, "launch", "write_launch", "upload")
  <2>1. host'[h] \in Hosts
    BY <1>0, <1>7, KeyFacts DEF WriteReceipt, Proceed, Faulted, Hosts, HostSteps, Outcomes,
       Reasons
  <2>2. host'[h].at # 1 => \/ host'[h].pc = "check"
                           \/ host'[h].pc = "failures" /\ host'[h].at <= 4
    BY <1>0, <1>7, KeyFacts DEF WriteReceipt, Proceed, Faulted, Hosts
  <2>3. pod' = pod
    BY <1>7 DEF WriteReceipt
  <2>4. QED
    BY <1>0, <1>a, <1>b, <1>c, <2>1, <2>2, <2>3
<1>8. CASE PutChallenge(h)
  <2>1. host'[h] \in Hosts
    BY <1>0, <1>8, KeyFacts DEF PutChallenge, Put, PutLost, Proceed, Break, Faulted, Hosts,
       HostSteps, Outcomes, Reasons
  <2>2. host'[h].at # 1 => \/ host'[h].pc = "check"
                           \/ host'[h].pc = "failures" /\ host'[h].at <= 4
    BY <1>0, <1>8, KeyFacts DEF PutChallenge, Put, PutLost, Proceed, Break, Faulted, Hosts
  <2>3. pod' = pod
    BY <1>8 DEF PutChallenge
  <2>4. QED
    BY <1>0, <1>a, <1>b, <1>c, <2>1, <2>2, <2>3
<1>9. CASE CheckLimits(h)
  <2>1. host'[h] \in Hosts
    BY <1>0, <1>9, KeyFacts DEF CheckLimits, Proceed, Break, Hosts, HostSteps, Outcomes,
       Reasons
  <2>2. host'[h].at # 1 => \/ host'[h].pc = "check"
                           \/ host'[h].pc = "failures" /\ host'[h].at <= 4
    BY <1>0, <1>9, KeyFacts DEF CheckLimits, Proceed, Break, Hosts
  <2>3. pod' = pod
    BY <1>9 DEF CheckLimits
  <2>4. QED
    BY <1>0, <1>a, <1>b, <1>c, <2>1, <2>2, <2>3
<1>10. CASE PollResponse(h)
  <2>1. host'[h] \in Hosts
    BY <1>0, <1>10, KeyFacts DEF PollResponse, Proceed, Break, Hosts, HostSteps, Outcomes,
       Reasons
  <2>2. host'[h].at # 1 => \/ host'[h].pc = "check"
                           \/ host'[h].pc = "failures" /\ host'[h].at <= 4
    BY <1>0, <1>10, KeyFacts DEF PollResponse, Proceed, Break, Hosts
  <2>3. pod' = pod
    BY <1>10 DEF PollResponse
  <2>4. QED
    BY <1>0, <1>a, <1>b, <1>c, <2>1, <2>2, <2>3
<1>11. CASE PollFailure(h)
  <2>1. host'[h] \in Hosts
    BY <1>0, <1>11, KeyFacts DEF PollFailure, Hosts, HostSteps, Outcomes, Reasons
  <2>2. host'[h].at # 1 => \/ host'[h].pc = "check"
                           \/ host'[h].pc = "failures" /\ host'[h].at <= 4
    BY <1>0, <1>11, KeyFacts DEF PollFailure, Hosts
  <2>3. pod' = pod
    BY <1>11 DEF PollFailure
  <2>4. QED
    BY <1>0, <1>a, <1>b, <1>c, <2>1, <2>2, <2>3
<1>12. CASE PollStatus(h)
  <2>1. host'[h] \in Hosts
    BY <1>0, <1>12, KeyFacts DEF PollStatus, Proceed, Break, Hosts, HostSteps, Outcomes,
       Reasons
  <2>2. host'[h].at # 1 => \/ host'[h].pc = "check"
                           \/ host'[h].pc = "failures" /\ host'[h].at <= 4
    BY <1>0, <1>12, KeyFacts DEF PollStatus, Proceed, Break, Hosts
  <2>3. pod' = pod
    BY <1>12 DEF PollStatus
  <2>4. QED
    BY <1>0, <1>a, <1>b, <1>c, <2>1, <2>2, <2>3
<1>13. CASE PollFails(h)
  <2>1. host'[h] \in Hosts
    BY <1>0, <1>13, KeyFacts DEF PollFails, Break, Faulted, Hosts, HostSteps, Outcomes,
       Reasons
  <2>2. host'[h].at # 1 => \/ host'[h].pc = "check"
                           \/ host'[h].pc = "failures" /\ host'[h].at <= 4
    BY <1>0, <1>13, KeyFacts DEF PollFails, Break, Faulted, Hosts
  <2>3. pod' = pod
    BY <1>13 DEF PollFails
  <2>4. QED
    BY <1>0, <1>a, <1>b, <1>c, <2>1, <2>2, <2>3
<1>14. CASE DeletePod(h)
  <2>1. host'[h] \in Hosts
    BY <1>0, <1>14, KeyFacts DEF DeletePod, PodStop, Deleted, Faulted, Hosts, HostSteps,
       Outcomes, Reasons
  <2>2. host'[h].at # 1 => \/ host'[h].pc = "check"
                           \/ host'[h].pc = "failures" /\ host'[h].at <= 4
    BY <1>0, <1>14, KeyFacts DEF DeletePod, PodStop, Deleted, Faulted, Hosts
  <2>3. pod'[h] \in PodRecords
    BY <1>a, <1>14 DEF DeletePod, PodStop, Deleted, Faulted, PodRecords, PodStates,
       WorkerSteps
  <2>4. QED
    BY <1>0, <1>a, <1>b, <1>c, <2>1, <2>2, <2>3
<1>15. CASE Fetch(h)
  <2>1. host'[h] \in Hosts
    BY <1>0, <1>15, KeyFacts DEF Fetch, Fetched, Proceed, Faulted, Hosts, HostSteps, Outcomes,
       Reasons
  <2>2. host'[h].at # 1 => \/ host'[h].pc = "check"
                           \/ host'[h].pc = "failures" /\ host'[h].at <= 4
    BY <1>0, <1>15, KeyFacts DEF Fetch, Fetched, Proceed, Faulted, Hosts
  <2>3. pod' = pod
    BY <1>15 DEF Fetch
  <2>4. QED
    BY <1>0, <1>a, <1>b, <1>c, <2>1, <2>2, <2>3
<1>16. CASE WriteOut(h)
  <2>1. host'[h] \in Hosts
    BY <1>0, <1>16, KeyFacts DEF WriteOut, Abandon, Faulted, Hosts, HostSteps, Outcomes,
       Reasons
  <2>2. host'[h].at # 1 => \/ host'[h].pc = "check"
                           \/ host'[h].pc = "failures" /\ host'[h].at <= 4
    BY <1>0, <1>16, KeyFacts DEF WriteOut, Abandon, Faulted, Hosts
  <2>3. pod' = pod
    BY <1>16 DEF WriteOut
  <2>4. QED
    BY <1>0, <1>a, <1>b, <1>c, <2>1, <2>2, <2>3
<1>17. CASE HostDies(h)
  <2>1. /\ host'[h] = [host[h] EXCEPT !.pc = "ended", !.at = 1, !.result = "killed",
                                       !.leak = @ \cup {"host_died"}]
        /\ host[h].leak \cup {"host_died"} \in SUBSET Reasons
    BY <1>0, <1>17 DEF HostDies, Hosts, Reasons
  <2>2. host'[h] \in Hosts /\ host'[h].at = 1
    BY <1>0, <1>d, <2>1 DEF Hosts, HostSteps
  <2>3. pod' = pod
    BY <1>17 DEF HostDies
  <2>4. QED
    BY <1>0, <1>a, <1>b, <1>c, <2>2, <2>3
<1>18. CASE PodStarts(h)
  <2>1. host' = host
    BY <1>18 DEF PodStarts
  <2>2. pod'[h] \in PodRecords
    BY <1>a, <1>18 DEF PodStarts, PodRecords, PodStates, WorkerSteps
  <2>3. QED
    BY <1>0, <1>a, <1>b, <1>c, <2>1, <2>2
<1>19. CASE PodStops(h)
  <2>1. host' = host
    BY <1>19 DEF PodStops
  <2>2. pod'[h] \in PodRecords
    BY <1>a, <1>19 DEF PodStops, PodStop, PodRecords, PodStates, WorkerSteps
  <2>3. QED
    BY <1>0, <1>a, <1>b, <1>c, <2>1, <2>2
<1>20. CASE MountShows(h)
  <2>1. host' = host
    BY <1>20 DEF MountShows
  <2>2. pod'[h] \in PodRecords
    BY <1>a, <1>20 DEF MountShows, PodRecords, PodStates, WorkerSteps
  <2>3. QED
    BY <1>0, <1>a, <1>b, <1>c, <2>1, <2>2
<1>21. CASE WorkerStarts(h)
  <2>1. host' = host
    BY <1>21 DEF WorkerStarts
  <2>2. pod'[h] \in PodRecords
    BY <1>a, <1>21 DEF WorkerStarts, PodRecords, PodStates, WorkerSteps
  <2>3. QED
    BY <1>0, <1>a, <1>b, <1>c, <2>1, <2>2
<1>22. CASE Probe(h)
  <2>1. host' = host
    BY <1>22 DEF Probe
  <2>2. pod'[h] \in PodRecords
    BY <1>a, <1>22 DEF Probe, Worker, WorkerFails, Publish, Faulted, PodRecords, PodStates,
       WorkerSteps
  <2>3. QED
    BY <1>0, <1>a, <1>b, <1>c, <2>1, <2>2
<1>23. CASE CheckContract(h)
  <2>1. host' = host
    BY <1>23 DEF CheckContract
  <2>2. pod'[h] \in PodRecords
    BY <1>a, <1>23 DEF CheckContract, Worker, WorkerFails, Publish, PodRecords, PodStates,
       WorkerSteps
  <2>3. QED
    BY <1>0, <1>a, <1>b, <1>c, <2>1, <2>2
<1>24. CASE ReadChallenge(h)
  <2>1. host' = host
    BY <1>24 DEF ReadChallenge
  <2>2. pod'[h] \in PodRecords
    BY <1>a, <1>24 DEF ReadChallenge, Worker, WorkerFails, Publish, PodRecords, PodStates,
       WorkerSteps
  <2>3. QED
    BY <1>0, <1>a, <1>b, <1>c, <2>1, <2>2
<1>25. CASE WaitFails(h)
  <2>1. host' = host
    BY <1>25 DEF WaitFails
  <2>2. pod'[h] \in PodRecords
    BY <1>a, <1>25 DEF WaitFails, Worker, WorkerFails, Publish, Faulted, PodRecords,
       PodStates, WorkerSteps
  <2>3. QED
    BY <1>0, <1>a, <1>b, <1>c, <2>1, <2>2
<1>26. CASE PublishResponse(h)
  <2>1. host' = host
    BY <1>26 DEF PublishResponse
  <2>2. pod'[h] \in PodRecords
    BY <1>a, <1>26 DEF PublishResponse, Worker, WorkerFails, Publish, Faulted, PodRecords,
       PodStates, WorkerSteps
  <2>3. QED
    BY <1>0, <1>a, <1>b, <1>c, <2>1, <2>2
<1>27. QED
  BY <1>1, <1>2, <1>3, <1>4, <1>5, <1>6, <1>7, <1>8, <1>9, <1>10, <1>11, <1>12, <1>13,
     <1>14, <1>15, <1>16, <1>17, <1>18, <1>19, <1>20, <1>21, <1>22, <1>23, <1>24,
     <1>25, <1>26 DEF CommandStep, HostStep, WorkerStep

-----------------------------------------------------------------------------
(* What the moves of a command do to the fields the invariant is about.    *)

\* The fields of a command's memory that most of its moves leave alone.
DataKept(h) ==
    /\ host'[h].outcome = host[h].outcome
    /\ host'[h].cleanup = host[h].cleanup
    /\ host'[h].receipts = host[h].receipts

EndKept(h) == host'[h].result = host[h].result /\ host'[h].leak = host[h].leak

PodKept(h) == pod'[h].state = pod[h].state /\ pod'[h].answered = pod[h].answered

(* Proceed, Abandon and Break, and the moves that end a storage challenge.    *)
LEMMA HostMoves ==
    ASSUME host \in [Commands -> Hosts], NEW h \in Commands
    PROVE  /\ \A s : Proceed(h, s) => host'[h].pc = s /\ DataKept(h) /\ EndKept(h)
           /\ \A rs : Abandon(h, rs) =>
                /\ host'[h].pc = "ended" /\ DataKept(h)
                /\ host'[h].result = "error" /\ host'[h].leak = host[h].leak \cup rs
           /\ \A o : Break(h, o) =>
                /\ host'[h].pc = "delete" /\ host'[h].outcome = o /\ EndKept(h)
                /\ host'[h].cleanup = host[h].cleanup /\ host'[h].receipts = host[h].receipts
           /\ \A o, v : Fetched(h, o, v) =>
                /\ host'[h].pc = "write_out" /\ host'[h].outcome = o /\ EndKept(h)
                /\ host'[h].cleanup = host[h].cleanup /\ host'[h].receipts = host[h].receipts
<1>0. host[h] \in Hosts
  OBVIOUS
<1>1. ASSUME NEW s, Proceed(h, s) PROVE host'[h].pc = s /\ DataKept(h) /\ EndKept(h)
  BY <1>0, <1>1 DEF Proceed, DataKept, EndKept, Hosts
<1>2. ASSUME NEW rs, Abandon(h, rs)
      PROVE  /\ host'[h].pc = "ended" /\ DataKept(h)
             /\ host'[h].result = "error" /\ host'[h].leak = host[h].leak \cup rs
  BY <1>0, <1>2 DEF Abandon, DataKept, Hosts
<1>3. ASSUME NEW o, Break(h, o)
      PROVE  /\ host'[h].pc = "delete" /\ host'[h].outcome = o /\ EndKept(h)
             /\ host'[h].cleanup = host[h].cleanup /\ host'[h].receipts = host[h].receipts
  BY <1>0, <1>3 DEF Break, EndKept, Hosts
<1>4. ASSUME NEW o, NEW v, Fetched(h, o, v)
      PROVE  /\ host'[h].pc = "write_out" /\ host'[h].outcome = o /\ EndKept(h)
             /\ host'[h].cleanup = host[h].cleanup /\ host'[h].receipts = host[h].receipts
  BY <1>0, <1>4 DEF Fetched, EndKept, Hosts
<1>5. QED
  BY <1>1, <1>2, <1>3, <1>4

(* A deletion that is over, with what it makes of the outcome.             *)
LEMMA DeletedMove ==
    ASSUME host \in [Commands -> Hosts], NEW h \in Commands, NEW ok \in BOOLEAN, Deleted(h, ok)
    PROVE  /\ host'[h].pc \in {"fetch", "ended", "write_out"}
           /\ host'[h].outcome \in {host[h].outcome, "cleanup_failed"}
           /\ host[h].outcome = None => host'[h].outcome = None
           /\ host'[h].receipts = host[h].receipts
           /\ host'[h].result = IF host'[h].pc = "ended" THEN "error" ELSE host[h].result
           /\ host'[h].cleanup = IF ok THEN "succeeded" ELSE "failed"
           /\ ~ ok => "delete_failed" \in host'[h].leak
<1>0. host[h] \in Hosts
  OBVIOUS
<1>1. host'[h].pc \in {"fetch", "ended", "write_out"}
  BY <1>0 DEF Deleted, Hosts
<1>2. /\ host'[h].outcome \in {host[h].outcome, "cleanup_failed"}
      /\ host[h].outcome = None => host'[h].outcome = None
  BY <1>0 DEF Deleted, Hosts
<1>3. /\ host'[h].receipts = host[h].receipts
      /\ host'[h].result = IF host'[h].pc = "ended" THEN "error" ELSE host[h].result
  BY <1>0 DEF Deleted, Hosts
<1>4. host'[h].cleanup = IF ok THEN "succeeded" ELSE "failed"
  BY <1>0 DEF Deleted, Hosts
<1>5. ~ ok => "delete_failed" \in host'[h].leak
  BY <1>0 DEF Deleted, Hosts
<1>6. QED
  BY <1>1, <1>2, <1>3, <1>4, <1>5

(* The moves of a Pod and of its worker.                                   *)
LEMMA PodMoves ==
    ASSUME pod \in [Commands -> PodRecords], NEW h \in Commands
    PROVE  /\ \A s : PodStop(h, s) =>
                /\ pod'[h].state = s /\ pod'[h].worker = "off"
                /\ pod'[h].answered = pod[h].answered
           /\ \A w : Worker(h, w) => pod'[h].worker = w /\ PodKept(h)
           /\ Created(h) =>
                /\ pod'[h].state = "created" /\ pod'[h].worker = pod[h].worker
                /\ pod'[h].answered = pod[h].answered
<1>0. pod[h] \in PodRecords
  OBVIOUS
<1>1. ASSUME NEW s, PodStop(h, s)
      PROVE  /\ pod'[h].state = s /\ pod'[h].worker = "off"
             /\ pod'[h].answered = pod[h].answered
  BY <1>0, <1>1 DEF PodStop, PodRecords
<1>2. ASSUME NEW w, Worker(h, w) PROVE pod'[h].worker = w /\ PodKept(h)
  BY <1>0, <1>2 DEF Worker, PodKept, PodRecords
<1>3. ASSUME Created(h)
      PROVE  /\ pod'[h].state = "created" /\ pod'[h].worker = pod[h].worker
             /\ pod'[h].answered = pod[h].answered
  BY <1>0, <1>3 DEF Created, PodRecords
<1>4. QED
  BY <1>1, <1>2, <1>3

(* A worker that fails publishes nothing but a failure record and what it  *)
(* is said to have published.                                              *)
LEMMA FailureRecords ==
    ASSUME NEW h \in Commands, NEW code, NEW published, WorkerFails(h, code, published),
           code \notin {"bootstrap", "challenge", "response"},
           prefix \in [KeySet -> Commands \cup {None}],
           published \subseteq {"response"}
    PROVE  /\ Worker(h, "off")
           /\ prefix'["bootstrap"] = prefix["bootstrap"]
           /\ prefix'["challenge"] = prefix["challenge"]
           /\ published = {} => prefix'["response"] = prefix["response"]
  BY KeyFacts DEF WorkerFails, Publish

(* What the invariant says of the command that takes the step.             *)
LEMMA OwnStep ==
    ASSUME None \notin Commands, ChallengeInv, NEW h \in Commands, CommandStep(h)
    PROVE  CommandInv(h)'
<1>0. /\ host \in [Commands -> Hosts] /\ pod \in [Commands -> PodRecords]
      /\ host[h] \in Hosts /\ pod[h] \in PodRecords
      /\ prefix \in [KeySet -> Commands \cup {None}]
  BY DEF ChallengeInv, ChallengeTypeOK
<1>a. CommandInv(h)
  BY DEF ChallengeInv, CommandInv
<1>b. /\ "bootstrap" \in KeySet /\ "challenge" \in KeySet /\ "response" \in KeySet
  BY KeyFacts
<1>c. ObjectsKept(h)
  BY StepKeeps DEF ChallengeInv
<1>1. CASE CheckUnused(h)
  <2>1. /\ host'[h].pc \in {"check", "bootstrap", "ended"}
        /\ DataKept(h) /\ host'[h].leak = host[h].leak
        /\ host'[h].result = IF host'[h].pc = "ended" THEN "error" ELSE host[h].result
    BY <1>0, <1>1 DEF CheckUnused, Abandon, DataKept, Hosts
  <2>2. prefix' = prefix /\ pod' = pod
    BY <1>0, <1>1 DEF CheckUnused
  <2>3. host[h].pc = "check"
    BY <1>1 DEF CheckUnused
  <2>4. QED
    BY <1>a, <1>b, <2>1, <2>2, <2>3 DEF CommandInv, Claimed, Recorded, Answered,
       PodAccounted, Succeeded, Alive, DataKept, EndKept, None
<1>2. CASE PutBootstrap(h)
  <2>1. host[h].pc = "bootstrap" /\ pod' = pod /\ DataKept(h)
    BY <1>0, <1>b, <1>2, HostMoves DEF PutBootstrap
  <2>2. \/ host'[h].pc = "schedule" /\ prefix'["bootstrap"] = h /\ EndKept(h)
        \/ host'[h].pc = "ended" /\ prefix' = prefix /\ host'[h].result = "error"
    BY <1>0, <1>b, <1>2, HostMoves DEF PutBootstrap, Put
  <2>3. prefix'["challenge"] = prefix["challenge"] /\ prefix'["response"] = prefix["response"]
    BY <1>0, <1>b, <1>2 DEF PutBootstrap, Put
  <2>4. QED
    BY <1>a, <1>b, <2>1, <2>2, <2>3 DEF CommandInv, Claimed, Recorded, Answered,
       PodAccounted, Succeeded, Alive, DataKept, EndKept, PodKept, None
<1>3. CASE ClaimFails(h)
  <2>1. /\ host[h].pc \in {"check", "bootstrap"} /\ host'[h].pc = "ended" /\ pod' = pod
        /\ DataKept(h) /\ host'[h].result = "error"
    BY <1>0, <1>3, HostMoves DEF ClaimFails
  <2>2. prefix'["challenge"] = prefix["challenge"] /\ prefix'["response"] = prefix["response"]
    BY <1>0, <1>b, <1>3 DEF ClaimFails, PutLost, Put
  <2>3. QED
    BY <1>a, <1>b, <2>1, <2>2 DEF CommandInv, Claimed, Recorded, Answered, PodAccounted,
       Succeeded, Alive, DataKept, EndKept, PodKept, None
<1>4. CASE Schedule(h)
  <2>1. /\ host[h].pc = "schedule" /\ DataKept(h) /\ prefix' = prefix
        /\ host'[h].result = IF host'[h].pc = "ended" THEN "error" ELSE host[h].result
    BY <1>0, <1>4, HostMoves DEF Schedule, EndKept
  <2>2. \/ host'[h].pc = "write_create" /\ pod'[h].state = "created"
        \/ host'[h].pc = "ended" /\ pod' = pod
        \/ /\ host'[h].pc = "ended" /\ pod'[h].state = "created"
           /\ "answer_lost" \in host'[h].leak
    BY <1>0, <1>4, HostMoves, PodMoves DEF Schedule
  <2>3. pod'[h].worker = pod[h].worker /\ pod'[h].answered = pod[h].answered
    BY <1>0, <1>4, PodMoves DEF Schedule
  <2>4. QED
    BY <1>a, <1>b, <2>1, <2>2, <2>3 DEF CommandInv, Claimed, Recorded, Answered,
       PodAccounted, Succeeded, Alive, DataKept, EndKept, PodKept, None
<1>5. CASE WriteReceipt(h, "schedule", "write_create", "admit")
  <2>1. /\ host'[h].pc \in {"admit", "delete", "ended"}
        /\ host'[h].outcome = host[h].outcome /\ host'[h].cleanup = host[h].cleanup
    BY <1>0, <1>5 DEF WriteReceipt, Proceed, Hosts
  <2>2. /\ host'[h].receipts \in {host[h].receipts, host[h].receipts \cup {"schedule"}}
        /\ host'[h].pc = "admit" => host'[h].receipts = host[h].receipts \cup {"schedule"}
    BY <1>0, <1>5 DEF WriteReceipt, Proceed, Hosts
  <2>3. /\ host'[h].result = IF host'[h].pc = "ended" THEN "error" ELSE host[h].result
        /\ host'[h].leak = host[h].leak \/ "file_unreadable" \in host'[h].leak
        /\ host'[h].pc = "ended" => "file_unreadable" \in host'[h].leak
    BY <1>0, <1>5 DEF WriteReceipt, Proceed, Hosts
  <2>4. prefix' = prefix /\ pod' = pod
    BY <1>0, <1>5 DEF WriteReceipt
  <2>5. host[h].pc = "write_create"
    BY <1>5 DEF WriteReceipt
  <2>6. QED
    BY <1>a, <1>b, <2>1, <2>2, <2>3, <2>4, <2>5 DEF CommandInv, Claimed, Recorded, Answered,
       PodAccounted, Succeeded, Alive, DataKept, EndKept, None
<1>6. CASE Admit(h)
  <2>1. /\ host[h].pc = "admit" /\ DataKept(h) /\ prefix' = prefix
        /\ host'[h].result = IF host'[h].pc = "ended" THEN "error" ELSE host[h].result
    BY <1>0, <1>6, HostMoves DEF Admit, EndKept
  <2>2. \/ host'[h].pc = "write_launch" /\ pod' = pod
        \/ /\ host'[h].pc = "ended" /\ pod'[h].state = "gone" /\ pod'[h].worker = "off"
           /\ pod'[h].answered = pod[h].answered
        \/ host'[h].pc = "ended" /\ pod' = pod /\ "delete_failed" \in host'[h].leak
    BY <1>0, <1>6, HostMoves, PodMoves DEF Admit
  <2>3. QED
    BY <1>a, <1>b, <2>1, <2>2 DEF CommandInv, Claimed, Recorded, Answered, PodAccounted,
       Succeeded, Alive, DataKept, EndKept, PodKept, None
<1>7. CASE WriteReceipt(h, "launch", "write_launch", "upload")
  <2>1. /\ host'[h].pc \in {"upload", "delete", "ended"}
        /\ host'[h].outcome = host[h].outcome /\ host'[h].cleanup = host[h].cleanup
    BY <1>0, <1>7 DEF WriteReceipt, Proceed, Hosts
  <2>2. /\ host'[h].receipts \in {host[h].receipts, host[h].receipts \cup {"launch"}}
        /\ host'[h].pc = "upload" => host'[h].receipts = host[h].receipts \cup {"launch"}
    BY <1>0, <1>7 DEF WriteReceipt, Proceed, Hosts
  <2>3. /\ host'[h].result = IF host'[h].pc = "ended" THEN "error" ELSE host[h].result
        /\ host'[h].leak = host[h].leak \/ "file_unreadable" \in host'[h].leak
        /\ host'[h].pc = "ended" => "file_unreadable" \in host'[h].leak
    BY <1>0, <1>7 DEF WriteReceipt, Proceed, Hosts
  <2>4. prefix' = prefix /\ pod' = pod
    BY <1>0, <1>7 DEF WriteReceipt
  <2>5. host[h].pc = "write_launch"
    BY <1>7 DEF WriteReceipt
  <2>6. QED
    BY <1>a, <1>b, <2>1, <2>2, <2>3, <2>4, <2>5 DEF CommandInv, Claimed, Recorded, Answered,
       PodAccounted, Succeeded, Alive, DataKept, EndKept, None
<1>8. CASE PutChallenge(h)
  <2>1. /\ host[h].pc = "upload" /\ pod' = pod /\ EndKept(h)
        /\ host'[h].cleanup = host[h].cleanup /\ host'[h].receipts = host[h].receipts
    BY <1>0, <1>b, <1>8, HostMoves DEF PutChallenge, DataKept
  <2>2. \/ host'[h].pc = "limits" /\ host'[h].outcome = host[h].outcome
        \/ host'[h].pc = "delete" /\ host'[h].outcome = "challenge_upload_failed"
    BY <1>0, <1>b, <1>8, HostMoves DEF PutChallenge, DataKept
  <2>3. prefix'["bootstrap"] = prefix["bootstrap"] /\ prefix'["response"] = prefix["response"]
    BY <1>0, <1>b, <1>8 DEF PutChallenge, PutLost, Put
  <2>4. QED
    BY <1>a, <1>b, <2>1, <2>2, <2>3 DEF CommandInv, Claimed, Recorded, Answered,
       PodAccounted, Succeeded, Alive, DataKept, EndKept, PodKept, None
<1>9. CASE CheckLimits(h)
  <2>1. host[h].pc = "limits" /\ prefix' = prefix /\ pod' = pod
    BY <1>0, <1>9 DEF CheckLimits
  <2>2. \/ host'[h].pc = "response" /\ DataKept(h) /\ EndKept(h)
        \/ /\ host'[h].pc = "delete" /\ host'[h].outcome \in {"runtime_limit", "cost_limit"}
           /\ host'[h].cleanup = host[h].cleanup /\ host'[h].receipts = host[h].receipts
           /\ EndKept(h)
    BY <1>0, <1>9, HostMoves DEF CheckLimits
  <2>3. QED
    BY <1>a, <1>b, <2>1, <2>2 DEF CommandInv, Claimed, Recorded, Answered, PodAccounted,
       Succeeded, Alive, DataKept, EndKept, PodKept, None
<1>10. CASE PollResponse(h)
  <2>1. host[h].pc = "response" /\ prefix' = prefix /\ pod' = pod
    BY <1>0, <1>10 DEF PollResponse
  <2>2. \/ host'[h].pc = "failures" /\ DataKept(h) /\ EndKept(h)
        \/ /\ host'[h].pc = "delete" /\ host'[h].outcome = "response_published"
           /\ host'[h].cleanup = host[h].cleanup /\ host'[h].receipts = host[h].receipts
           /\ EndKept(h)
    BY <1>0, <1>10, HostMoves DEF PollResponse
  <2>3. QED
    BY <1>a, <1>b, <2>1, <2>2 DEF CommandInv, Claimed, Recorded, Answered, PodAccounted,
       Succeeded, Alive, DataKept, EndKept, PodKept, None
<1>11. CASE PollFailure(h)
  <2>1. /\ host'[h].pc \in {"failures", "status", "delete"} /\ EndKept(h)
        /\ host'[h].cleanup = host[h].cleanup /\ host'[h].receipts = host[h].receipts
    BY <1>0, <1>11 DEF PollFailure, EndKept, Hosts
  <2>2. host'[h].outcome = host[h].outcome \/ host'[h].outcome = "worker_failure_published"
    BY <1>0, <1>11 DEF PollFailure, Hosts
  <2>3. prefix' = prefix /\ pod' = pod
    BY <1>0, <1>11 DEF PollFailure
  <2>4. host[h].pc = "failures"
    BY <1>11 DEF PollFailure
  <2>5. QED
    BY <1>a, <1>b, <2>1, <2>2, <2>3, <2>4 DEF CommandInv, Claimed, Recorded, Answered,
       PodAccounted, Succeeded, Alive, DataKept, EndKept, None
<1>12. CASE PollStatus(h)
  <2>1. host[h].pc = "status" /\ prefix' = prefix /\ pod' = pod
    BY <1>0, <1>12 DEF PollStatus
  <2>2. \/ host'[h].pc = "limits" /\ DataKept(h) /\ EndKept(h)
        \/ /\ host'[h].pc = "delete"
           /\ host'[h].outcome \in {"pod_exited", "control_poll_failed"}
           /\ host'[h].cleanup = host[h].cleanup /\ host'[h].receipts = host[h].receipts
           /\ EndKept(h)
    BY <1>0, <1>12, HostMoves DEF PollStatus
  <2>3. QED
    BY <1>a, <1>b, <2>1, <2>2 DEF CommandInv, Claimed, Recorded, Answered, PodAccounted,
       Succeeded, Alive, DataKept, EndKept, PodKept, None
<1>13. CASE PollFails(h)
  <2>1. /\ host[h].pc \in {"response", "failures", "status"}
        /\ prefix' = prefix /\ pod' = pod
    BY <1>0, <1>13 DEF PollFails
  <2>2. /\ host'[h].pc = "delete"
        /\ host'[h].outcome \in {"storage_poll_failed", "control_poll_failed"}
        /\ host'[h].cleanup = host[h].cleanup /\ host'[h].receipts = host[h].receipts
        /\ EndKept(h)
    BY <1>0, <1>13, HostMoves DEF PollFails
  <2>3. QED
    BY <1>a, <1>b, <2>1, <2>2 DEF CommandInv, Claimed, Recorded, Answered, PodAccounted,
       Succeeded, Alive, DataKept, EndKept, PodKept, None
<1>14. CASE DeletePod(h)
  <2>1. host[h].pc = "delete" /\ prefix' = prefix
    BY <1>0, <1>14 DEF DeletePod
  <2>2. \/ pod' = pod
        \/ /\ pod'[h].state = "gone" /\ pod'[h].worker = "off"
           /\ pod'[h].answered = pod[h].answered
    BY <1>0, <1>14, PodMoves DEF DeletePod
  <2>3. \/ host' = [host EXCEPT ![h].tries = @ + 1]
        \/ Deleted(h, FALSE)
        \/ Deleted(h, TRUE) /\ pod'[h].state = "gone"
    BY <1>0, <1>14, PodMoves DEF DeletePod
  <2>4. host' = [host EXCEPT ![h].tries = @ + 1] =>
            host'[h].pc = "delete" /\ DataKept(h) /\ EndKept(h)
    BY <1>0, <2>1 DEF DataKept, EndKept, Hosts
  <2>5. /\ host'[h].outcome \in {host[h].outcome, "cleanup_failed"}
        /\ host[h].outcome = None => host'[h].outcome = None
        /\ host'[h].receipts = host[h].receipts
        /\ host'[h].result = IF host'[h].pc = "ended" THEN "error" ELSE host[h].result
    BY <1>0, <2>3, <2>4, DeletedMove DEF DataKept, EndKept
  <2>6. \/ host'[h].pc = "delete" /\ host'[h].cleanup = host[h].cleanup /\ EndKept(h)
        \/ /\ host'[h].pc \in {"fetch", "ended", "write_out"} /\ host'[h].cleanup = "failed"
           /\ "delete_failed" \in host'[h].leak
        \/ /\ host'[h].pc \in {"fetch", "ended", "write_out"}
           /\ host'[h].cleanup = "succeeded" /\ pod'[h].state = "gone"
    BY <1>0, <2>3, <2>4, DeletedMove DEF DataKept
  <2>7. QED
    BY <1>a, <1>b, <2>1, <2>2, <2>5, <2>6 DEF CommandInv, Claimed, Recorded, Answered,
       PodAccounted, Succeeded, Alive, DataKept, EndKept, PodKept, None
<1>15. CASE Fetch(h)
  <2>1. host[h].pc = "fetch" /\ prefix' = prefix /\ pod' = pod
    BY <1>0, <1>15 DEF Fetch
  <2>2. /\ host'[h].pc = "write_out" /\ EndKept(h)
        /\ host'[h].cleanup = host[h].cleanup /\ host'[h].receipts = host[h].receipts
    BY <1>0, <1>15, HostMoves DEF Fetch, DataKept
  <2>3. \/ host'[h].outcome = "completed" /\ prefix["response"] = h /\ host[h].outcome # None
        \/ /\ host'[h].outcome \in {"response_fetch_failed", "worker_failure_published",
                                    "worker_failure_fetch_failed"}
           /\ host[h].outcome # None
        \/ host'[h].outcome = host[h].outcome
    BY <1>0, <1>15, HostMoves DEF Fetch, DataKept, None
  <2>4. QED
    BY <1>a, <1>b, <2>1, <2>2, <2>3 DEF CommandInv, Claimed, Recorded, Answered,
       PodAccounted, Succeeded, Alive, DataKept, EndKept, PodKept, None
<1>16. CASE WriteOut(h)
  <2>1. /\ host'[h].pc = "ended"
        /\ host'[h].outcome = host[h].outcome /\ host'[h].cleanup = host[h].cleanup
        /\ host'[h].leak = host[h].leak
    BY <1>0, <1>16 DEF WriteOut, Abandon, Hosts
  <2>2. /\ host[h].receipts \subseteq host'[h].receipts
        /\ host'[h].result = "ok" =>
             /\ host[h].outcome = "completed" /\ host[h].cleanup = "succeeded"
             /\ "out" \in host'[h].receipts
    BY <1>0, <1>16 DEF WriteOut, Abandon, Hosts
  <2>3. prefix' = prefix /\ pod' = pod
    BY <1>0, <1>16 DEF WriteOut
  <2>4. host[h].pc = "write_out"
    BY <1>16 DEF WriteOut
  <2>5. QED
    BY <1>a, <1>b, <2>1, <2>2, <2>3, <2>4 DEF CommandInv, Claimed, Recorded, Answered,
       PodAccounted, Succeeded, Alive, DataKept, EndKept, None
<1>17. CASE HostDies(h)
  <2>1. /\ host'[h].pc = "ended" /\ DataKept(h)
        /\ host'[h].result = "killed" /\ "host_died" \in host'[h].leak
    BY <1>0, <1>17 DEF HostDies, DataKept, Hosts
  <2>2. prefix' = prefix /\ pod' = pod
    BY <1>0, <1>17 DEF HostDies
  <2>3. QED
    BY <1>a, <1>b, <2>1, <2>2 DEF CommandInv, Claimed, Recorded, Answered, PodAccounted,
       Succeeded, Alive, DataKept, EndKept, None
<1>18. CASE PodStarts(h)
  <2>1. host' = host /\ prefix' = prefix
    BY <1>0, <1>18 DEF PodStarts
  <2>2. /\ pod[h].state = "created" /\ pod'[h].state = "running"
        /\ pod'[h].worker = pod[h].worker /\ pod'[h].answered = pod[h].answered
    BY <1>0, <1>18 DEF PodStarts, PodRecords
  <2>3. QED
    BY <1>a, <1>b, <2>1, <2>2 DEF CommandInv, Claimed, Recorded, Answered, PodAccounted,
       Succeeded, Alive, DataKept, EndKept, PodKept, None
<1>19. CASE PodStops(h)
  <2>1. host' = host /\ prefix' = prefix
    BY <1>0, <1>19 DEF PodStops
  <2>2. /\ pod[h].state \in {"created", "running", "exited"}
        /\ pod'[h].state \in {"exited", "gone"} /\ pod'[h].worker = "off"
        /\ pod'[h].answered = pod[h].answered
    BY <1>0, <1>19, PodMoves DEF PodStops, Alive
  <2>3. QED
    BY <1>a, <1>b, <2>1, <2>2 DEF CommandInv, Claimed, Recorded, Answered, PodAccounted,
       Succeeded, Alive, DataKept, EndKept, PodKept, None
<1>20. CASE MountShows(h)
  <2>1. host' = host /\ prefix' = prefix
    BY <1>0, <1>20 DEF MountShows
  <2>2. pod'[h].worker = pod[h].worker /\ PodKept(h)
    BY <1>0, <1>20 DEF MountShows, PodKept, PodRecords
  <2>3. QED
    BY <1>a, <1>b, <2>1, <2>2 DEF CommandInv, Claimed, Recorded, Answered, PodAccounted,
       Succeeded, Alive, DataKept, EndKept, PodKept, None
<1>21. CASE WorkerStarts(h)
  <2>1. host' = host /\ prefix' = prefix
    BY <1>0, <1>21 DEF WorkerStarts
  <2>2. pod'[h].worker = "probe" /\ PodKept(h)
    BY <1>0, <1>21 DEF WorkerStarts, PodKept, PodRecords
  <2>3. QED
    BY <1>a, <1>b, <2>1, <2>2 DEF CommandInv, Claimed, Recorded, Answered, PodAccounted,
       Succeeded, Alive, DataKept, EndKept, PodKept, None
<1>22. CASE Probe(h)
  <2>1. host' = host
    BY <1>0, <1>22 DEF Probe
  <2>2. /\ \A k \in {"bootstrap", "challenge", "response"} : prefix'[k] = prefix[k]
        /\ \E w \in {"contract", "off"} : Worker(h, w)
    BY <1>0, <1>b, <1>22, FailureRecords DEF Probe
  <2>3. pod'[h].worker \in {"contract", "off"} /\ PodKept(h)
    BY <1>0, <2>2, PodMoves
  <2>4. QED
    BY <1>a, <1>b, <2>1, <2>2, <2>3 DEF CommandInv, Claimed, Recorded, Answered,
       PodAccounted, Succeeded, Alive, DataKept, EndKept, PodKept, None
<1>23. CASE CheckContract(h)
  <2>1. host' = host
    BY <1>0, <1>23 DEF CheckContract
  <2>2. /\ \A k \in {"bootstrap", "challenge", "response"} : prefix'[k] = prefix[k]
        /\ \E w \in {"wait", "off"} : Worker(h, w)
    BY <1>0, <1>b, <1>23, FailureRecords DEF CheckContract
  <2>3. pod'[h].worker \in {"wait", "off"} /\ PodKept(h)
    BY <1>0, <2>2, PodMoves
  <2>4. QED
    BY <1>a, <1>b, <2>1, <2>2, <2>3 DEF CommandInv, Claimed, Recorded, Answered,
       PodAccounted, Succeeded, Alive, DataKept, EndKept, PodKept, None
<1>24. CASE ReadChallenge(h)
  <2>1. host' = host
    BY <1>0, <1>24 DEF ReadChallenge
  <2>2. \A k \in {"bootstrap", "challenge", "response"} : prefix'[k] = prefix[k]
    BY <1>0, <1>b, <1>24, FailureRecords DEF ReadChallenge
  <2>3. \/ pod' = [pod EXCEPT ![h].worker = "publish", ![h].answered = TRUE]
        \/ Worker(h, "off")
    BY <1>0, <1>24 DEF ReadChallenge, WorkerFails
  <2>4. \/ pod'[h].state = pod[h].state /\ pod'[h].worker = "publish" /\ pod'[h].answered = TRUE
        \/ pod'[h].worker = "off" /\ PodKept(h)
    BY <1>0, <2>3, PodMoves DEF PodRecords
  <2>5. QED
    BY <1>a, <1>b, <2>1, <2>2, <2>3, <2>4 DEF CommandInv, Claimed, Recorded, Answered,
       PodAccounted, Succeeded, Alive, DataKept, EndKept, PodKept, None
<1>25. CASE WaitFails(h)
  <2>1. host' = host
    BY <1>0, <1>25 DEF WaitFails
  <2>2. /\ \A k \in {"bootstrap", "challenge", "response"} : prefix'[k] = prefix[k]
        /\ Worker(h, "off")
    BY <1>0, <1>b, <1>25, FailureRecords DEF WaitFails
  <2>3. pod'[h].worker = "off" /\ PodKept(h)
    BY <1>0, <2>2, PodMoves
  <2>4. QED
    BY <1>a, <1>b, <2>1, <2>2, <2>3 DEF CommandInv, Claimed, Recorded, Answered,
       PodAccounted, Succeeded, Alive, DataKept, EndKept, PodKept, None
<1>26. CASE PublishResponse(h)
  <2>1. host' = host /\ pod[h].worker = "publish"
    BY <1>0, <1>26 DEF PublishResponse
  <2>2. /\ \A k \in {"bootstrap", "challenge"} : prefix'[k] = prefix[k]
        /\ Worker(h, "off")
    BY <1>0, <1>b, <1>26, FailureRecords DEF PublishResponse, Publish
  <2>3. prefix'["response"] \in {prefix["response"], h}
    BY <1>b, <1>c DEF ObjectsKept
  <2>4. pod'[h].worker = "off" /\ PodKept(h)
    BY <1>0, <2>2, PodMoves
  <2>5. QED
    BY <1>a, <1>b, <2>1, <2>2, <2>3, <2>4 DEF CommandInv, Claimed, Recorded, Answered,
       PodAccounted, Succeeded, Alive, DataKept, EndKept, PodKept, None
<1>27. QED
  BY <1>1, <1>2, <1>3, <1>4, <1>5, <1>6, <1>7, <1>8, <1>9, <1>10, <1>11, <1>12, <1>13,
     <1>14, <1>15, <1>16, <1>17, <1>18, <1>19, <1>20, <1>21, <1>22, <1>23, <1>24,
     <1>25, <1>26 DEF CommandStep, HostStep, WorkerStep

(* Every step keeps the invariant.                                         *)
LEMMA StepInv ==
    ASSUME None \notin Commands, ChallengeInv, [ChallengeNext]_challenge_vars
    PROVE  ChallengeInv'
<1>1. ASSUME NEW h \in Commands, CommandStep(h)
      PROVE  ChallengeInv'
  <2>1. ObjectsKept(h) /\ Framed(h)
    BY <1>1, StepKeeps DEF ChallengeInv
  <2>2. \A g \in Commands \ {h} : CommandInv(g)'
    BY <2>1, OthersKept
  <2>3. CommandInv(h)'
    BY <1>1, OwnStep
  <2>4. \A g \in Commands : CommandInv(g)'
    BY <2>2, <2>3
  <2>5. ChallengeTypeOK'
    BY <1>1, HostTypeStep
  <2>6. QED
    BY <2>4, <2>5 DEF ChallengeInv, CommandInv
<1>2. CASE UNCHANGED challenge_vars
  BY <1>2 DEF challenge_vars, ChallengeInv, ChallengeTypeOK, Claimed, Recorded, Answered,
     PodAccounted, Succeeded,
     Alive
<1>3. QED
  BY <1>1, <1>2 DEF ChallengeNext, CommandStep

(* The invariant holds in every state of a storage challenge.              *)
THEOREM InvHolds ==
    ASSUME None \notin Commands
    PROVE  ChallengeSpec => []ChallengeInv
<1>1. ChallengeInit => ChallengeInv
  BY InitInv
<1>2. ChallengeInv /\ [ChallengeNext]_challenge_vars => ChallengeInv'
  BY StepInv
<1>3. QED
  BY <1>1, <1>2, PTL DEF ChallengeSpec

(* What a storage challenge shows, for any number of commands with one     *)
(* run prefix: a command succeeds only for an answer of a worker in its    *)
(* own Pod that read the whole challenge, and with the Pod gone; the       *)
(* challenge is uploaded only after the Pod was recorded; at most one      *)
(* command has a Pod; and a Pod that outlives its command does so for a    *)
(* recorded reason.                                                        *)
THEOREM AnswerProvesStorage ==
    ASSUME None \notin Commands
    PROVE  ChallengeSpec => []ChallengeAnswered
<1>1. ASSUME ChallengeInv
      PROVE  ChallengeAnswered
  <2>1. SUFFICES ASSUME NEW h \in Commands
                 PROVE  /\ host[h].result = "ok" =>
                             /\ pod[h].answered /\ prefix["response"] = h
                             /\ pod[h].state = "gone"
                             /\ host[h].receipts = {"schedule", "launch", "out"}
                        /\ prefix["challenge"] = h =>
                             {"schedule", "launch"} \subseteq host[h].receipts
                        /\ pod[h].state # "none" =>
                             \A g \in Commands \ {h} : pod[g].state = "none"
                        /\ host[h].pc = "ended" /\ Alive(h) => host[h].leak # {}
    BY DEF ChallengeAnswered
  <2>2. \A g \in Commands : Claimed(g)
    BY <1>1 DEF ChallengeInv
  <2>3. Recorded(h) /\ Answered(h) /\ PodAccounted(h) /\ Succeeded(h)
    BY <1>1 DEF ChallengeInv
  <2>4. host[h].receipts \subseteq {"schedule", "launch", "out"}
    BY <1>1 DEF ChallengeInv, ChallengeTypeOK, Hosts
  <2>5. host[h].result = "ok" =>
             /\ pod[h].answered /\ prefix["response"] = h
             /\ pod[h].state = "gone"
    BY <2>3 DEF Answered, PodAccounted, Succeeded
  <2>6. host[h].result = "ok" => host[h].receipts = {"schedule", "launch", "out"}
    BY <2>3, <2>4 DEF Recorded, Succeeded, None
  <2>7. pod[h].state # "none" => \A g \in Commands \ {h} : pod[g].state = "none"
    BY <2>2 DEF Claimed
  <2>8. QED
    BY <2>3, <2>5, <2>6, <2>7 DEF Recorded, PodAccounted
<1>2. QED
  BY <1>1, InvHolds, PTL

(* Nothing below the run prefix is ever replaced or removed, by any host   *)
(* or worker: what a command read at a key it can read there again.        *)
THEOREM ObjectsNeverReplaced ==
    ASSUME None \notin Commands
    PROVE  ChallengeSpec =>
             [][\A k \in KeySet : prefix[k] # None => prefix'[k] = prefix[k]]_challenge_vars
<1>1. ASSUME ChallengeInv, ChallengeNext
      PROVE  \A k \in KeySet : prefix[k] # None => prefix'[k] = prefix[k]
  <2>1. PICK h \in Commands : CommandStep(h)
    BY <1>1 DEF ChallengeNext, CommandStep
  <2>2. ObjectsKept(h)
    BY <1>1, <2>1, StepKeeps DEF ChallengeInv
  <2>3. QED
    BY <2>2 DEF ObjectsKept
<1>2. QED
  BY <1>1, InvHolds, PTL DEF ChallengeSpec

-----------------------------------------------------------------------------
(* Sequences of sequences, one after the other.                            *)

(* A set of numbers has a least one.                                       *)
LEMMA LeastOf ==
    ASSUME NEW T, T \subseteq Nat, T # {}
    PROVE  \E x \in T : \A y \in T : x <= y
<1>1. PICK x \in T : \A y \in T : << y, x >> \notin OpToRel(<, Nat)
  BY NatLessThanWellFounded, WFMin
<1>2. ASSUME NEW y \in T
      PROVE  x <= y
  <2>1. x \in Nat /\ y \in Nat
    OBVIOUS
  <2>2. ~ (y < x)
    BY <1>1, <2>1 DEF OpToRel
  <2>3. QED
    BY <2>1, <2>2
<1>3. QED
  BY <1>2

\* The sequences up to each of them, one after the other.
Flat(h, seqs, n) ==
    h = [i \in 1 .. n |-> IF i = 1 THEN seqs[i] ELSE h[i - 1] \o seqs[i]]

(* Sequences can be joined.                                                *)
LEMMA FlatExists ==
    ASSUME NEW T, NEW seqs, NEW n \in Nat, \A k \in 1 .. n : seqs[k] \in Seq(T)
    PROVE  \E h \in [1 .. n -> Seq(T)] : Flat(h, seqs, n)
<1> DEFINE Bad == { m \in 0 .. n : ~ \E h \in [1 .. m -> Seq(T)] : Flat(h, seqs, m) }
<1>2. SUFFICES ASSUME n \in Bad PROVE FALSE
  OBVIOUS
<1>3. Bad \subseteq Nat /\ \A m \in Bad : m \in 0 .. n
  OBVIOUS
<1>4. \A m \in 0 .. n : m \in Bad \/ \E h \in [1 .. m -> Seq(T)] : Flat(h, seqs, m)
  OBVIOUS
<1>5. \A m \in Bad : ~ \E h \in [1 .. m -> Seq(T)] : Flat(h, seqs, m)
  OBVIOUS
<1> HIDE DEF Bad
<1>6. PICK m \in Bad : \A j \in Bad : m <= j
  BY <1>2, <1>3, LeastOf
<1>7. CASE m = 0
  <2> DEFINE h == [i \in 1 .. 0 |-> << >>]
  <2>1. h \in [1 .. m -> Seq(T)] /\ Flat(h, seqs, m)
    BY <1>7 DEF Flat
  <2>2. QED
    BY <1>5, <2>1
<1>8. CASE m # 0
  <2>1. m \in 1 .. n /\ m - 1 \in 0 .. n /\ ~ m <= m - 1
    BY <1>3, <1>8
  <2>2. PICK g \in [1 .. m - 1 -> Seq(T)] : Flat(g, seqs, m - 1)
    BY <1>4, <1>6, <2>1
  <2>3. \A i \in 1 .. m - 1 : g[i] = IF i = 1 THEN seqs[i] ELSE g[i - 1] \o seqs[i]
    BY <2>2 DEF Flat
  <2> DEFINE last == IF m = 1 THEN seqs[m] ELSE g[m - 1] \o seqs[m]
             h == [i \in 1 .. m |-> IF i = m THEN last ELSE g[i]]
  <2>4. \A i \in 1 .. m : i = m \/ i \in 1 .. m - 1
    BY <2>1
  <2>5. last \in Seq(T)
    <3>1. seqs[m] \in Seq(T)
      BY <2>1
    <3>2. CASE m # 1
      <4>1. m - 1 \in 1 .. m - 1
        BY <2>1, <3>2
      <4>2. g[m - 1] \in Seq(T)
        BY <4>1
      <4>3. QED
        BY <3>1, <3>2, <4>2
    <3>3. QED
      BY <3>1, <3>2
  <2> HIDE DEF last
  <2>6. h \in [1 .. m -> Seq(T)]
    BY <2>4, <2>5
  <2>7. ASSUME NEW i \in 1 .. m
        PROVE  h[i] = IF i = 1 THEN seqs[i] ELSE h[i - 1] \o seqs[i]
    <3>1. CASE i = m
      <4>1. m \in 1 .. m /\ (m = 1 \/ (m - 1 \in 1 .. m /\ m - 1 # m))
        BY <2>1
      <4>2. h[m] = last /\ (m = 1 \/ h[m - 1] = g[m - 1])
        BY <4>1
      <4> HIDE DEF h
      <4>3. QED
        BY <3>1, <4>2 DEF last
    <3>2. CASE i # m
      <4>1. i \in 1 .. m - 1 /\ (i = 1 \/ (i - 1 \in 1 .. m /\ i - 1 # m))
        BY <2>1, <3>2
      <4>2. h[i] = g[i] /\ (i = 1 \/ h[i - 1] = g[i - 1])
        BY <3>2, <4>1
      <4> HIDE DEF h
      <4>3. QED
        BY <2>3, <4>1, <4>2
    <3>3. QED
      BY <3>1, <3>2
  <2>8. Flat(h, seqs, m)
    <3> HIDE DEF h
    <3>1. QED
      BY <2>6, <2>7 DEF Flat
  <2>9. QED
    BY <1>5, <2>6, <2>8
<1>9. QED
  BY <1>7, <1>8

(* A joined sequence has the members of both.                              *)
LEMMA RangeJoined ==
    ASSUME NEW T, NEW a \in Seq(T), NEW b \in Seq(T)
    PROVE  a \o b \in Seq(T) /\ Range(a \o b) = Range(a) \union Range(b)
<1>1. /\ DOMAIN a = 1 .. Len(a) /\ DOMAIN b = 1 .. Len(b)
      /\ DOMAIN (a \o b) = 1 .. Len(a) + Len(b) /\ Len(a) \in Nat /\ Len(b) \in Nat
  OBVIOUS
<1>2. \A i \in 1 .. Len(a) + Len(b) :
        (a \o b)[i] = IF i <= Len(a) THEN a[i] ELSE b[i - Len(a)]
  OBVIOUS
<1>3. \A i \in 1 .. Len(a) : i \in 1 .. Len(a) + Len(b) /\ (a \o b)[i] = a[i]
  BY <1>1, <1>2
<1>4. \A i \in 1 .. Len(b) : /\ i + Len(a) \in 1 .. Len(a) + Len(b)
                             /\ (a \o b)[i + Len(a)] = b[i]
  BY <1>1, <1>2
<1>5. \A i \in 1 .. Len(a) + Len(b) :
        i \in 1 .. Len(a) \/ i - Len(a) \in 1 .. Len(b)
  BY <1>1
<1>6. ASSUME NEW i \in 1 .. Len(a) + Len(b)
      PROVE  (a \o b)[i] \in Range(a) \union Range(b)
  <2>1. CASE i <= Len(a)
    BY <1>1, <1>2, <2>1 DEF Range
  <2>2. CASE ~ i <= Len(a)
    <3>1. i - Len(a) \in 1 .. Len(b)
      BY <1>1, <2>2
    <3>2. QED
      BY <1>1, <1>2, <2>2, <3>1 DEF Range
  <2>3. QED
    BY <2>1, <2>2
<1>7. Range(a \o b) \subseteq Range(a) \union Range(b)
  BY <1>1, <1>6 DEF Range
<1>8. Range(a) \subseteq Range(a \o b)
  BY <1>1, <1>3 DEF Range
<1>9. Range(b) \subseteq Range(a \o b)
  BY <1>1, <1>4 DEF Range
<1>10. QED
  BY <1>7, <1>8, <1>9

(* FlattenSeq has the members of the sequences it joins.                   *)
LEMMA FlattenHas ==
    ASSUME NEW T, NEW seqs \in Seq(Seq(T))
    PROVE  /\ FlattenSeq(seqs) \in Seq(T)
           /\ Range(FlattenSeq(seqs)) = UNION { Range(seqs[k]) : k \in 1 .. Len(seqs) }
<1> DEFINE n == Len(seqs)
           g == CHOOSE h : Flat(h, seqs, n)
           Members(k) == UNION { Range(seqs[j]) : j \in 1 .. k }
<1>1. n \in Nat /\ \A k \in 1 .. n : seqs[k] \in Seq(T)
  OBVIOUS
<1>2. CASE n = 0
  <2>1. FlattenSeq(seqs) = seqs /\ seqs = << >>
    BY <1>2 DEF FlattenSeq
  <2>2. QED
    BY <1>2, <2>1 DEF Range
<1>3. CASE n # 0
  <2>1. FlattenSeq(seqs) = g[n]
    BY <1>3 DEF FlattenSeq, Flat
  <2>2. Flat(g, seqs, n)
    BY <1>1, FlatExists
  <2> HIDE DEF g, n
  <2>3. \A i \in 1 .. n : g[i] = IF i = 1 THEN seqs[i] ELSE g[i - 1] \o seqs[i]
    BY <2>2 DEF Flat
  <2> DEFINE Good(k) == g[k] \in Seq(T) /\ Range(g[k]) = Members(k)
             Bad == { k \in 1 .. n : ~ Good(k) }
  <2>4. Bad \subseteq Nat /\ \A k \in 1 .. n : k \in Bad \/ Good(k)
    OBVIOUS
  <2>5. \A k \in Bad : k \in 1 .. n /\ ~ Good(k)
    OBVIOUS
  <2>6. Members(1) = Range(seqs[1])
    OBVIOUS
  <2>7. \A k \in 1 .. n : k # 1 => Members(k) = Members(k - 1) \union Range(seqs[k])
    <3>1. SUFFICES ASSUME NEW k \in 1 .. n, k # 1
                   PROVE  Members(k) = Members(k - 1) \union Range(seqs[k])
      OBVIOUS
    <3>2. 1 .. k = (1 .. k - 1) \union { k }
      OBVIOUS
    <3>3. QED
      BY <3>2
  <2>8. Bad = {}
    <3> HIDE DEF Bad, Members
    <3>1. SUFFICES ASSUME Bad # {} PROVE FALSE
      OBVIOUS
    <3>2. PICK k \in Bad : \A j \in Bad : k <= j
      BY <2>4, <3>1, LeastOf
    <3>3. k \in 1 .. n /\ ~ Good(k)
      BY <2>5
    <3>4. k # 1
      <4>1. SUFFICES ASSUME k = 1 PROVE FALSE
        OBVIOUS
      <4>2. g[1] = seqs[1] /\ seqs[1] \in Seq(T)
        BY <1>1, <2>3, <3>3, <4>1
      <4>3. QED
        BY <2>6, <3>3, <4>1, <4>2
    <3>5. k - 1 \in 1 .. n /\ ~ k <= k - 1
      BY <1>1, <3>3, <3>4
    <3>6. g[k - 1] \in Seq(T) /\ seqs[k] \in Seq(T) /\ Range(g[k - 1]) = Members(k - 1)
      BY <1>1, <2>4, <3>2, <3>3, <3>5
    <3>7. g[k] = g[k - 1] \o seqs[k]
      BY <2>3, <3>3, <3>4
    <3>8. Range(g[k]) = Range(g[k - 1]) \union Range(seqs[k])
      BY <3>6, <3>7, RangeJoined
    <3>10. g[k] \in Seq(T)
      BY <3>6, <3>7, RangeJoined
    <3>9. QED
      BY <2>7, <3>10, <3>3, <3>4, <3>6, <3>7, <3>8
  <2>9. n \in 1 .. n
    BY <1>1, <1>3
  <2>10. Good(n)
    BY <2>4, <2>8, <2>9
  <2>11. QED
    BY <2>1, <2>10 DEF n
<1>4. QED
  BY <1>2, <1>3

-----------------------------------------------------------------------------
(* A fetched directory: what verify accepts is what the workers completed  *)
(* with.                                                                   *)

\* One object that marker k of a list declares for its task i.
Declared(markers, k, i, kind) ==
    [key |-> OutputKey(markers[k].outputs[i].task, kind),
     content |-> markers[k].outputs[i].content[kind]]

(* The outputs of a list of markers are the three objects of every task.   *)
LEMMA OutputsListed ==
    ASSUME NEW markers, Len(markers) \in Nat,
           \A k \in 1 .. Len(markers) : IsSequence(markers[k].outputs)
    PROVE  \E T :
             /\ OutputObjects(markers) \in Seq(T)
             /\ \A o : o \in Range(OutputObjects(markers)) <=>
                  \E k \in 1 .. Len(markers) : \E i \in 1 .. Len(markers[k].outputs) :
                    \E kind \in Range(Kinds) : o = Declared(markers, k, i, kind)
<1> DEFINE n == Len(markers)
           many(k) == Len(markers[k].outputs)
           Of(k, i) == [j \in 1 .. Len(Kinds) |-> Declared(markers, k, i, Kinds[j])]
           Lists(k) == [i \in 1 .. many(k) |-> Of(k, i)]
           All == [k \in 1 .. n |-> FlattenSeq(Lists(k))]
           T == { Declared(markers, k, i, kind) :
                    k \in 1 .. n, i \in UNION { 1 .. many(l) : l \in 1 .. n }, kind \in Range(Kinds) }
<1>1. OutputObjects(markers) = FlattenSeq(All)
  BY DEF OutputObjects, MapSeq, Declared
<1>2. n \in Nat /\ \A k \in 1 .. n : many(k) \in Nat
  BY DEF IsSequence
<1>3. Len(Kinds) = 3 /\ Range(Kinds) = { Kinds[j] : j \in 1 .. 3 } /\ Kinds \in Seq(Range(Kinds))
  BY DEF Kinds, Range
<1>4. \A k \in 1 .. n : \A i \in 1 .. many(k) : \A kind \in Range(Kinds) :
        Declared(markers, k, i, kind) \in T
  OBVIOUS
<1> HIDE DEF T
<1>5. \A k \in 1 .. n : \A i \in 1 .. many(k) :
        /\ Of(k, i) \in Seq(T)
        /\ Range(Of(k, i)) = { Declared(markers, k, i, kind) : kind \in Range(Kinds) }
  <2>1. SUFFICES ASSUME NEW k \in 1 .. n, NEW i \in 1 .. many(k)
                 PROVE  /\ Of(k, i) \in Seq(T)
                        /\ Range(Of(k, i)) = { Declared(markers, k, i, kind) : kind \in Range(Kinds) }
    OBVIOUS
  <2>2. Of(k, i) = [j \in 1 .. 3 |-> Declared(markers, k, i, Kinds[j])]
    BY <1>3
  <2>3. \A j \in 1 .. 3 : Declared(markers, k, i, Kinds[j]) \in T
    BY <1>3, <1>4
  <2> HIDE DEF Of
  <2>4. Of(k, i) \in Seq(T)
    BY <2>2, <2>3
  <2>5. QED
    BY <1>3, <2>2, <2>4 DEF Range
<1> HIDE DEF Of
<1>6. \A k \in 1 .. n :
        /\ FlattenSeq(Lists(k)) \in Seq(T)
        /\ Range(FlattenSeq(Lists(k))) = UNION { Range(Of(k, i)) : i \in 1 .. many(k) }
  <2>1. SUFFICES ASSUME NEW k \in 1 .. n
                 PROVE  /\ FlattenSeq(Lists(k)) \in Seq(T)
                        /\ Range(FlattenSeq(Lists(k))) = UNION { Range(Of(k, i)) : i \in 1 .. many(k) }
    OBVIOUS
  <2>2. /\ Lists(k) \in Seq(Seq(T)) /\ Len(Lists(k)) = many(k)
        /\ \A i \in 1 .. many(k) : Lists(k)[i] = Of(k, i)
    BY <1>2, <1>5
  <2> HIDE DEF Lists
  <2>3. /\ FlattenSeq(Lists(k)) \in Seq(T)
        /\ Range(FlattenSeq(Lists(k))) = UNION { Range(Lists(k)[i]) : i \in 1 .. Len(Lists(k)) }
    BY <2>2, FlattenHas
  <2>4. QED
    BY <2>2, <2>3
<1> HIDE DEF Lists
<1>7. /\ FlattenSeq(All) \in Seq(T)
      /\ Range(FlattenSeq(All)) = UNION { Range(FlattenSeq(Lists(k))) : k \in 1 .. n }
  <2>1. /\ All \in Seq(Seq(T)) /\ Len(All) = n
        /\ \A k \in 1 .. n : All[k] = FlattenSeq(Lists(k))
    BY <1>2, <1>6
  <2> HIDE DEF All
  <2>2. /\ FlattenSeq(All) \in Seq(T)
        /\ Range(FlattenSeq(All)) = UNION { Range(All[k]) : k \in 1 .. Len(All) }
    BY <2>1, FlattenHas
  <2>3. QED
    BY <2>1, <2>2
<1> HIDE DEF All
<1>8. \A o : o \in Range(OutputObjects(markers)) <=>
         \E k \in 1 .. n : \E i \in 1 .. many(k) :
            \E kind \in Range(Kinds) : o = Declared(markers, k, i, kind)
  BY <1>1, <1>5, <1>6, <1>7
<1>9. QED
  BY <1>1, <1>7, <1>8

(* The query vectors of one marker lie at keys of query vectors.           *)
LEMMA QueriesListed ==
    ASSUME NEW marker, IsSequence(marker.query)
    PROVE  \E T : /\ QueryVectorObjects(<<marker>>) \in Seq(T)
                  /\ \A o \in T : \E k : o.key = QueryKey(k)
<1> DEFINE objects == [k \in 1 .. Len(marker.query) |->
                          [key |-> QueryKey(k), content |-> marker.query[k]]]
           T == { [key |-> QueryKey(k), content |-> marker.query[k]] : k \in 1 .. Len(marker.query) }
           All == << objects >>
<1>1. objects \in Seq(T)
  BY DEF IsSequence
<1>2. QueryVectorObjects(<<marker>>) = FlattenSeq(All)
  <2>1. MapSeq(LAMBDA m : [k \in 1..Len(m.query) |-> [key |-> QueryKey(k), content |-> m.query[k]]], <<marker>>)
          = All
    BY DEF MapSeq
  <2>2. QED
    BY <2>1 DEF QueryVectorObjects
<1>3. \A o \in T : \E k : o.key = QueryKey(k)
  OBVIOUS
<1> HIDE DEF objects, T
<1>4. All \in Seq(Seq(T))
  BY <1>1
<1>5. FlattenSeq(All) \in Seq(T)
  BY <1>4, FlattenHas
<1>6. QED
  BY <1>2, <1>3, <1>5

(* No object that a marker declares has the key of a marker.               *)
LEMMA NoMarkerDeclared ==
    ASSUME NEW w \in Workers, NEW v \in Workers
    PROVE  LET objects == OutputObjects(<<Completed[w]>>) \o QueryVectorObjects(<<Completed[w]>>)
           IN  \A o \in Range(objects) : o.key # MarkerKey(v)
<1> DEFINE outputs == OutputObjects(<<Completed[w]>>)
           queries == QueryVectorObjects(<<Completed[w]>>)
<1>1. IsSequence(Completed[w].outputs) /\ IsSequence(Completed[w].query)
  BY FetchAssumption
<1>2. PICK T : /\ outputs \in Seq(T)
               /\ \A o : o \in Range(outputs) <=>
                    \E k \in 1 .. Len(<<Completed[w]>>) : \E i \in 1 .. Len(<<Completed[w]>>[k].outputs) :
                      \E kind \in Range(Kinds) : o = Declared(<<Completed[w]>>, k, i, kind)
  <2>1. Len(<<Completed[w]>>) \in Nat
        /\ \A k \in 1 .. Len(<<Completed[w]>>) : IsSequence(<<Completed[w]>>[k].outputs)
    BY <1>1
  <2>2. QED
    BY <2>1, OutputsListed
<1>3. PICK U : queries \in Seq(U) /\ \A o \in U : \E k : o.key = QueryKey(k)
  BY <1>1, QueriesListed
<1>4. \A o \in Range(outputs) : o.key # MarkerKey(v)
  BY <1>2 DEF Declared, OutputKey, MarkerKey
<1>5. \A o \in Range(queries) : o.key # MarkerKey(v)
  <2>1. Range(queries) \subseteq U
    BY <1>3 DEF Range
  <2>2. QED
    BY <1>3, <2>1 DEF QueryKey, MarkerKey
<1> HIDE DEF outputs, queries
<1>6. outputs \in Seq(T \union U) /\ queries \in Seq(T \union U)
  BY <1>2, <1>3
<1>7. Range(outputs \o queries) = Range(outputs) \union Range(queries)
  BY <1>6, RangeJoined
<1>8. QED
  BY <1>4, <1>5, <1>7 DEF outputs, queries

(* A completed attempt has the tasks of its assignment and no others.      *)
LEMMA TasksOfAttempt ==
    ASSUME NEW outputs, IsSequence(outputs), NEW a \in Range(TheBundle.assignments),
           OutputsValid(outputs, a)
    PROVE  {outputs[i].task : i \in 1 .. Len(outputs)} = Range(a.tasks)
<1> DEFINE names == MapSeq(LAMBDA output : output.task, outputs)
<1>1. IsSequence(a.tasks) /\ NoRepeats(a.tasks)
  BY FetchAssumption
<1>2. Len(outputs) \in Nat /\ DOMAIN outputs = 1 .. Len(outputs)
  BY DEF IsSequence
<1>3. names = [i \in 1 .. Len(outputs) |-> outputs[i].task]
  BY DEF MapSeq
<1>0. OutputsValid(outputs, a) => NoRepeats(names)
  BY DEF OutputsValid
<1> HIDE DEF names
<1>11. DOMAIN names = 1 .. Len(outputs) /\ \A i \in 1 .. Len(outputs) : names[i] = outputs[i].task
  BY <1>3
<1>4. Range(names) = {outputs[i].task : i \in 1 .. Len(outputs)}
  BY <1>11 DEF Range
<1>5. Range(a.tasks) \subseteq Range(names)
  <2>1. Range(a.tasks) \subseteq {output.task : output \in Range(outputs)}
    BY DEF OutputsValid
  <2>2. Range(outputs) = {outputs[i] : i \in 1 .. Len(outputs)}
    BY <1>2 DEF Range
  <2>3. QED
    BY <1>4, <2>1, <2>2
<1>6. Cardinality(Range(names)) = Len(outputs)
  <2>1. NoRepeats(names)
    BY <1>0
  <2>2. Len(names) = Len(outputs)
    BY <1>2, <1>3
  <2>3. QED
    BY <2>1, <2>2 DEF NoRepeats
<1>7. Cardinality(Range(a.tasks)) = Len(outputs)
  BY <1>1 DEF NoRepeats, OutputsValid
<1>8. IsFiniteSet(Range(names))
  <2>1. IsFiniteSet(1 .. Len(outputs))
    BY <1>2, FS_Interval
  <2>2. names \in [1 .. Len(outputs) -> Range(names)]
    BY <1>3, <1>11 DEF Range
  <2>3. names \in Surjection(1 .. Len(outputs), Range(names))
    BY <1>11, <2>2 DEF Surjection, Range
  <2>4. QED
    BY <2>1, <2>3, FS_Surjection
<1>9. Range(a.tasks) = Range(names)
  BY <1>5, <1>6, <1>7, <1>8, FS_Subset
<1>10. QED
  BY <1>4, <1>9

(* Every marker of a directory that verifies is the one its worker         *)
(* completed with: the report wants a completed attempt for every          *)
(* assignment, and it must lie at the key of the worker it names.          *)
LEMMA MarkersVerified ==
    ASSUME OneAttempt, NEW d, DirectoryKnown(d), DirectoryVerified(d, TheBundle)
    PROVE  \A a \in Range(TheBundle.assignments) :
             /\ a.worker \in Workers /\ a.worker \in DOMAIN d.markers
             /\ d.markers[a.worker] = Completed[a.worker]
             /\ Completed[a.worker].worker = a.worker
             /\ Completed[a.worker].outcome = "completed"
             /\ MarkerValid(Completed[a.worker], TheBundle)
<1> DEFINE n == Len(TheBundle.assignments)
           markers == MarkersIn(d, TheBundle)
<1>1. SUFFICES ASSUME NEW a \in Range(TheBundle.assignments)
               PROVE  /\ a.worker \in Workers /\ a.worker \in DOMAIN d.markers
                      /\ d.markers[a.worker] = Completed[a.worker]
                      /\ Completed[a.worker].worker = a.worker
                      /\ Completed[a.worker].outcome = "completed"
                      /\ MarkerValid(Completed[a.worker], TheBundle)
  OBVIOUS
<1>2. n \in Nat /\ markers = [k \in 1 .. n |-> d.markers[TheBundle.assignments[k].worker]]
  BY FetchAssumption DEF MarkersIn, MapSeq, IsSequence
<1>3. Len(markers) = n /\ DOMAIN markers = 1 .. n
  BY <1>2
<1>4. a.worker \in Workers /\ a.worker \in DOMAIN d.markers
  BY FetchAssumption DEF DirectoryVerified
<1>5. /\ BuildReport(TheBundle, markers).ok
      /\ \A k \in 1 .. Len(markers) : d.markers[markers[k].worker] = markers[k]
  BY DEF DirectoryVerified
<1> HIDE DEF markers
<1>6. ReportValid(ReportOf(TheBundle, markers), TheBundle, markers)
  BY <1>5 DEF BuildReport, Ok, Err
<1>7. PICK marker \in Range(markers) :
         /\ marker.worker = a.worker
         /\ marker.outcome = "completed"
         /\ MarkerValid(marker, TheBundle)
  BY <1>6 DEF ReportValid
<1>8. PICK k \in 1 .. n : marker = markers[k]
  BY <1>3 DEF Range
<1>9. d.markers[a.worker] = marker
  BY <1>3, <1>5, <1>7, <1>8
<1>10. marker \in MarkersAt(a.worker)
  BY <1>4, <1>9 DEF DirectoryKnown
<1>11. marker = Completed[a.worker]
  BY <1>4, <1>7, <1>10 DEF MarkersAt, OneAttempt
<1>12. QED
  BY <1>4, <1>7, <1>9, <1>11

(* A directory that verifies has what the workers completed with, and      *)
(* nothing else.                                                           *)
LEMMA VerifiedIsExact ==
    ASSUME OneAttempt, NEW d, DirectoryKnown(d), DirectoryVerified(d, TheBundle)
    PROVE  Exact(d)
<1> DEFINE n == Len(TheBundle.assignments)
           A(k) == TheBundle.assignments[k]
           all == [k \in 1 .. n |-> Completed[A(k).worker]]
           objects == OutputObjects(all)
<1>1. /\ n \in Nat /\ DOMAIN TheBundle.assignments = 1 .. n
      /\ Range(TheBundle.assignments) = {A(k) : k \in 1 .. n}
  BY FetchAssumption DEF IsSequence, Range
<1>2. \A k \in 1 .. n : A(k) \in Range(TheBundle.assignments)
  BY <1>1
<1>3. \A k \in 1 .. n :
        /\ A(k).worker \in Workers /\ d.markers[A(k).worker] = Completed[A(k).worker]
        /\ Completed[A(k).worker].worker = A(k).worker
        /\ Completed[A(k).worker].outcome = "completed"
        /\ MarkerValid(Completed[A(k).worker], TheBundle)
  BY <1>2, MarkersVerified
<1>4. MarkersIn(d, TheBundle) = all
  <2>1. MarkersIn(d, TheBundle) = [k \in 1 .. n |-> d.markers[A(k).worker]]
    BY DEF MarkersIn, MapSeq
  <2>2. QED
    BY <1>3, <2>1
<1>5. \A w \in Workers : w \in DOMAIN d.markers /\ d.markers[w] = Completed[w]
  BY FetchAssumption, MarkersVerified
<1>6. /\ OutputsHeld(d, all) /\ Holds(d.query, QueryVectorObjects(all))
      /\ CoversPlan(d.embeddings, TheBundle)
  BY <1>4 DEF DirectoryVerified
<1>7. \A k \in 1 .. n : IsSequence(Completed[A(k).worker].outputs)
  BY <1>3, FetchAssumption
<1>8. \A k \in 1 .. n :
        {Completed[A(k).worker].outputs[i].task : i \in 1 .. Len(Completed[A(k).worker].outputs)}
          = Range(A(k).tasks)
  <2>1. SUFFICES ASSUME NEW k \in 1 .. n
                 PROVE  {Completed[A(k).worker].outputs[i].task :
                            i \in 1 .. Len(Completed[A(k).worker].outputs)} = Range(A(k).tasks)
    OBVIOUS
  <2>2. PICK a \in Range(TheBundle.assignments) :
           /\ a.worker = A(k).worker
           /\ OutputsValid(Completed[A(k).worker].outputs, a)
    BY <1>3 DEF MarkerValid
  <2>3. PICK l \in 1 .. n : a = A(l)
    BY <1>1
  <2>4. a = A(k)
    BY <1>1, <2>2, <2>3, FetchAssumption
  <2>5. QED
    BY <1>2, <1>7, <2>2, <2>4, TasksOfAttempt
<1>9. PICK T :
        /\ objects \in Seq(T)
        /\ \A o : o \in Range(objects) <=>
             \E k \in 1 .. Len(all) : \E i \in 1 .. Len(all[k].outputs) :
               \E kind \in Range(Kinds) : o = Declared(all, k, i, kind)
  <2>1. Len(all) \in Nat /\ \A k \in 1 .. Len(all) : IsSequence(all[k].outputs)
    BY <1>1, <1>7
  <2> HIDE DEF all
  <2>2. QED
    BY <2>1, OutputsListed
<1> DEFINE Mine(k) == 1 .. Len(Completed[A(k).worker].outputs)
           Task(k, i) == Completed[A(k).worker].outputs[i].task
<1>10. \A key : key \in {o.key : o \in Range(objects)} <=>
         \E k \in 1 .. n : \E i \in Mine(k) : \E kind \in Range(Kinds) :
            key = OutputKey(Task(k, i), kind)
  <2>1. Len(all) = n /\ \A k \in 1 .. n : all[k] = Completed[A(k).worker]
    BY <1>1
  <2> HIDE DEF all
  <2>2. \A k \in 1 .. n : /\ Len(all[k].outputs) = Len(Completed[A(k).worker].outputs)
                          /\ \A i, kind : Declared(all, k, i, kind).key = OutputKey(Task(k, i), kind)
    BY <2>1 DEF Declared
  <2>3. \A k \in 1 .. n : 1 .. Len(all[k].outputs) = Mine(k)
    BY <2>2
  <2> HIDE DEF objects, Task, Mine
  <2>4. ASSUME NEW key, key \in {o.key : o \in Range(objects)}
        PROVE  \E k \in 1 .. n : \E i \in Mine(k) : \E kind \in Range(Kinds) :
                  key = OutputKey(Task(k, i), kind)
    <3>1. PICK o \in Range(objects) : key = o.key
      BY <2>4
    <3>2. PICK k \in 1 .. n : \E i \in 1 .. Len(all[k].outputs) :
             \E kind \in Range(Kinds) : o = Declared(all, k, i, kind)
      BY <1>9, <2>1
    <3>3. PICK i \in Mine(k), kind \in Range(Kinds) : o = Declared(all, k, i, kind)
      BY <2>3, <3>2
    <3>4. key = OutputKey(Task(k, i), kind)
      BY <2>2, <3>1, <3>3
    <3>5. QED
      BY <3>3, <3>4
  <2>5. ASSUME NEW k \in 1 .. n, NEW i \in Mine(k), NEW kind \in Range(Kinds)
        PROVE  OutputKey(Task(k, i), kind) \in {o.key : o \in Range(objects)}
    <3>1. i \in 1 .. Len(all[k].outputs) /\ k \in 1 .. Len(all)
      BY <2>1, <2>3
    <3>2. Declared(all, k, i, kind) \in Range(objects)
      BY <1>9, <3>1
    <3>3. QED
      BY <2>2, <3>2
  <2>6. QED
    BY <2>4, <2>5
<1>11. DOMAIN d.embeddings = {o.key : o \in Range(objects)}
  <2>1. DOMAIN d.embeddings = {OutputKey(task, kind) : task \in PlanTasks(TheBundle), kind \in Range(Kinds)}
    BY <1>6 DEF CoversPlan
  <2> HIDE DEF objects
  <2>2. \A k \in 1 .. n : {Task(k, i) : i \in Mine(k)} = Range(A(k).tasks)
    BY <1>8
  <2>3. \A task : task \in PlanTasks(TheBundle) <=> \E k \in 1 .. n : task \in Range(A(k).tasks)
    BY <1>1 DEF PlanTasks
  <2> HIDE DEF A, Task, Mine
  <2>4. \A task : task \in PlanTasks(TheBundle) <=>
          \E k \in 1 .. n : \E i \in Mine(k) : task = Task(k, i)
    <3>1. \A k \in 1 .. n : \A task :
            task \in Range(A(k).tasks) <=> \E i \in Mine(k) : task = Task(k, i)
      BY <2>2
    <3>2. ASSUME NEW task, task \in PlanTasks(TheBundle)
          PROVE  \E k \in 1 .. n : \E i \in Mine(k) : task = Task(k, i)
      <4>1. PICK k \in 1 .. n : task \in Range(A(k).tasks)
        BY <2>3, <3>2
      <4>2. \E i \in Mine(k) : task = Task(k, i)
        BY <3>1, <4>1
      <4>3. QED
        BY <4>2
    <3>3. ASSUME NEW k \in 1 .. n, NEW i \in Mine(k)
          PROVE  Task(k, i) \in PlanTasks(TheBundle)
      <4>1. Task(k, i) \in Range(A(k).tasks)
        BY <3>1
      <4>2. QED
        BY <2>3, <4>1
    <3>4. QED
      BY <3>2, <3>3
  <2>5. ASSUME NEW key \in DOMAIN d.embeddings
        PROVE  key \in {o.key : o \in Range(objects)}
    <3>1. PICK task \in PlanTasks(TheBundle), kind \in Range(Kinds) : key = OutputKey(task, kind)
      BY <2>1
    <3>2. PICK k \in 1 .. n : \E i \in Mine(k) : task = Task(k, i)
      BY <2>4, <3>1
    <3>3. QED
      BY <1>10, <3>1, <3>2
  <2>6. ASSUME NEW key \in {o.key : o \in Range(objects)}
        PROVE  key \in DOMAIN d.embeddings
    <3>1. PICK k \in 1 .. n : \E i \in Mine(k) : \E kind \in Range(Kinds) :
             key = OutputKey(Task(k, i), kind)
      BY <1>10, <2>6
    <3>2. PICK i \in Mine(k), kind \in Range(Kinds) : key = OutputKey(Task(k, i), kind)
      BY <3>1
    <3>3. Task(k, i) \in PlanTasks(TheBundle)
      BY <2>4
    <3>4. QED
      BY <2>1, <3>2, <3>3
  <2>7. QED
    BY <2>5, <2>6
<1>12. QED
  BY <1>5, <1>6, <1>11 DEF Exact, OutputsHeld

-----------------------------------------------------------------------------
(* The fetchers keep FetchInv.                                             *)

(* An empty directory has no marker.                                       *)
LEMMA EmptyKnown == DirectoryKnown(EmptyDirectory)
BY DEF DirectoryKnown, EmptyDirectory, Nothing

(* Other contents of one tree leave the markers as they are.               *)
LEMMA TreeKnown ==
    ASSUME NEW d, DirectoryKnown(d), NEW tree \in DOMAIN EmptyDirectory \ {"markers"}, NEW files
    PROVE  DirectoryKnown([d EXCEPT ![tree] = files])
<1> DEFINE e == [d EXCEPT ![tree] = files]
<1>1. DOMAIN d = DOMAIN EmptyDirectory /\ "markers" \in DOMAIN d
  BY DEF DirectoryKnown, EmptyDirectory
<1>2. e = [field \in DOMAIN EmptyDirectory |-> e[field]] /\ e.markers = d.markers
  BY <1>1
<1> HIDE DEF e
<1>3. QED
  BY <1>2 DEF DirectoryKnown, e

(* A marker that may lie at a worker's key may lie in a directory.         *)
LEMMA MarkerKnown ==
    ASSUME NEW d, DirectoryKnown(d), NEW w \in Workers, NEW marker \in MarkersAt(w)
    PROVE  /\ DirectoryKnown([d EXCEPT !.markers = WithFile(@, w, marker)])
           /\ DirectoryKnown([d EXCEPT !.markers[w] = marker])
<1> DEFINE e == [d EXCEPT !.markers = WithFile(@, w, marker)]
           g == [d EXCEPT !.markers[w] = marker]
<1>1. DOMAIN d = DOMAIN EmptyDirectory /\ "markers" \in DOMAIN d
  BY DEF DirectoryKnown, EmptyDirectory
<1>2. /\ e = [field \in DOMAIN EmptyDirectory |-> e[field]]
      /\ g = [field \in DOMAIN EmptyDirectory |-> g[field]]
      /\ e.markers = WithFile(d.markers, w, marker) /\ g.markers = [d.markers EXCEPT ![w] = marker]
  BY <1>1
<1> HIDE DEF e, g
<1>3. \A v \in DOMAIN e.markers : v \in Workers /\ e.markers[v] \in MarkersAt(v)
  BY <1>2 DEF DirectoryKnown, WithFile
<1>4. \A v \in DOMAIN g.markers : v \in Workers /\ g.markers[v] \in MarkersAt(v)
  BY <1>2 DEF DirectoryKnown
<1>5. QED
  BY <1>2, <1>3, <1>4 DEF DirectoryKnown, e, g

(* Nothing is fetched at first.                                            *)
LEMMA FetchInitInv == FetchInit => FetchInv
<1> SUFFICES ASSUME FetchInit PROVE FetchInv
  OBVIOUS
<1>1. RunKnown /\ OutKnown
  BY DEF FetchInit, RunKnown, OutKnown, Nothing
<1>2. ASSUME NEW f \in Fetchers
      PROVE  Fetching(f)
  BY EmptyKnown DEF FetchInit, Fetching, Publishing
<1>3. QED
  BY <1>1, <1>2 DEF FetchInit, FetchInv

(* Steps of the workers and of the storage change the run only.            *)
LEMMA RunStep ==
    ASSUME FetchInv, RunKnown', UNCHANGED <<fpc, fat, staging, out, altered>>
    PROVE  FetchInv'
<1>1. OutKnown'
  BY DEF FetchInv, OutKnown
<1>2. ASSUME NEW f \in Fetchers
      PROVE  Fetching(f)'
  BY DEF FetchInv, Fetching, Publishing
<1>3. QED
  BY <1>1, <1>2 DEF FetchInv

\* A step of one fetcher that leaves the run and the output directory alone
\* and is not publishing afterwards.
FetcherAlone(f) ==
    /\ fpc' = [fpc EXCEPT ![f] = fpc'[f]] /\ fat' = [fat EXCEPT ![f] = fat'[f]]
    /\ staging' = [staging EXCEPT ![f] = staging'[f]]
    /\ UNCHANGED <<run, out, altered>>
    /\ fpc'[f] \in {"markers", "outputs", "queries", "report", "reserve", "failed"}
    /\ fat'[f] \in Nat /\ DirectoryKnown(staging'[f])
    /\ fpc'[f] = "markers" => fat'[f] \in DOMAIN TheBundle.assignments
    /\ fpc'[f] = "reserve" => DirectoryVerified(staging'[f], TheBundle)

(* Such a step disturbs no other fetcher.                                  *)
LEMMA FetcherStep ==
    ASSUME FetchInv, NEW f \in Fetchers, FetcherAlone(f)
    PROVE  FetchInv'
<1>1. RunKnown' /\ OutKnown'
  BY DEF FetchInv, RunKnown, OutKnown, FetcherAlone
<1>2. \A g \in Fetchers \ {f} : fpc'[g] = fpc[g] /\ fat'[g] = fat[g] /\ staging'[g] = staging[g]
  BY DEF FetchInv, FetcherAlone
<1>3. Fetching(f)'
  BY DEF Fetching, Publishing, FetcherAlone
<1>4. ASSUME NEW g \in Fetchers \ {f}
      PROVE  Fetching(g)'
  <2>1. Fetching(g)
    BY DEF FetchInv
  <2>2. \A h \in Fetchers : Publishing(h)' => Publishing(h)
    BY <1>2 DEF Publishing, FetcherAlone
  <2>3. out' = out /\ altered' = altered
    BY DEF FetcherAlone
  <2>4. QED
    BY <1>2, <2>1, <2>2, <2>3 DEF Fetching, Publishing
<1>5. /\ fpc' \in [Fetchers -> {"idle", "markers", "outputs", "queries", "report",
                                "reserve", "move", "ok", "failed"}]
      /\ fat' \in [Fetchers -> Nat]
      /\ staging' = [g \in Fetchers |-> staging'[g]]
  BY DEF FetchInv, FetcherAlone
<1>6. QED
  BY <1>1, <1>3, <1>4, <1>5 DEF FetchInv

(* A fetch that fails leaves what it has published.                        *)
LEMMA FetchEnds ==
    ASSUME FetchInv, NEW f \in Fetchers, End(f, "failed"), UNCHANGED <<run, out, altered>>
    PROVE  FetchInv'
<1>1. FetcherAlone(f)
  BY EmptyKnown DEF End, FetcherAlone, FetchInv
<1>2. QED
  BY <1>1, FetcherStep

(* One object is downloaded.                                               *)
LEMMA DownloadKeeps ==
    ASSUME FetchInv, NEW f \in Fetchers, NEW objects, NEW tree \in {"embeddings", "query"},
           NEW then \in {"queries", "report"}, fpc[f] \in {"outputs", "queries"},
           Download(f, objects, tree, then), UNCHANGED <<run, out, altered>>
    PROVE  FetchInv'
<1>1. CASE End(f, "failed")
  BY <1>1, FetchEnds
<1>2. CASE ~ End(f, "failed")
  <2> DEFINE o == objects[fat[f]]
             files == WithFile(staging[f][tree], o.key, run[o.key])
             d == [staging[f] EXCEPT ![tree] = files]
  <2>1. /\ staging' = [staging EXCEPT ![f][tree] = WithFile(@, o.key, run[o.key])]
        /\ \/ FetchGoto(f, then)
           \/ fat' = [fat EXCEPT ![f] = @ + 1] /\ UNCHANGED fpc
    BY <1>2 DEF Download
  <2>2. staging' = [staging EXCEPT ![f] = d]
    BY <2>1
  <2>3. DirectoryKnown(d)
    <3>1. DirectoryKnown(staging[f]) /\ tree \in DOMAIN EmptyDirectory \ {"markers"}
      BY DEF FetchInv, Fetching, EmptyDirectory
    <3> HIDE DEF files
    <3>2. QED
      BY <3>1, TreeKnown
  <2> HIDE DEF d
  <2>4. staging'[f] = d /\ staging' = [staging EXCEPT ![f] = staging'[f]]
    BY <2>2 DEF FetchInv
  <2>5. /\ fpc' = [fpc EXCEPT ![f] = fpc'[f]] /\ fat' = [fat EXCEPT ![f] = fat'[f]]
        /\ fpc'[f] \in {"outputs", "queries", "report"} /\ fat'[f] \in Nat
    <3>1. CASE FetchGoto(f, then)
      BY <3>1 DEF FetchGoto, FetchInv
    <3>2. CASE fat' = [fat EXCEPT ![f] = @ + 1] /\ UNCHANGED fpc
      BY <3>2 DEF FetchInv
    <3>3. QED
      BY <2>1, <3>1, <3>2
  <2>6. FetcherAlone(f)
    BY <2>3, <2>4, <2>5 DEF FetcherAlone
  <2>7. QED
    BY <2>6, FetcherStep
<1>3. QED
  BY <1>1, <1>2

(* What a worker, the storage or an operator puts on the volume leaves at  *)
(* a marker's key a marker that may lie there.                             *)
LEMMA VolumeSteps ==
    ASSUME FetchInv,
           \/ \E w \in Workers : Complete(w) \/ Misplace(w)
           \/ \E key \in DOMAIN run : Disturb(key)
    PROVE  FetchInv'
<1>1. RunKnown
  BY DEF FetchInv
<1>2. \A w, v \in Workers : MarkerKey(v) = MarkerKey(w) => v = w
  BY DEF MarkerKey
<1>3. ASSUME NEW w \in Workers, Complete(w)
      PROVE  FetchInv'
  <2> DEFINE objects == OutputObjects(<<Completed[w]>>) \o QueryVectorObjects(<<Completed[w]>>)
             published == [k \in DOMAIN run \union {o.key : o \in Range(objects)} |->
                             IF k \in DOMAIN run THEN run[k]
                             ELSE (CHOOSE o \in Range(objects) : o.key = k).content]
  <2>1. run' = WithFile(published, MarkerKey(w), Completed[w])
    BY <1>3 DEF Complete
  <2>2. \A v \in Workers : \A o \in Range(objects) : o.key # MarkerKey(v)
    BY NoMarkerDeclared
  <2> HIDE DEF objects
  <2>3. \A v \in Workers : MarkerKey(v) \in DOMAIN published =>
           MarkerKey(v) \in DOMAIN run /\ published[MarkerKey(v)] = run[MarkerKey(v)]
    BY <2>2
  <2> HIDE DEF published
  <2>4. ASSUME NEW v \in Workers, MarkerKey(v) \in DOMAIN run'
        PROVE  run'[MarkerKey(v)] \in MarkersAt(v)
    <3>1. CASE v = w
      BY <2>1, <3>1 DEF WithFile, MarkersAt
    <3>2. CASE v # w
      BY <1>1, <1>2, <2>1, <2>3, <2>4, <3>2 DEF WithFile, RunKnown
    <3>3. QED
      BY <3>1, <3>2
  <2>5. RunKnown'
    BY <2>4 DEF RunKnown
  <2>6. QED
    BY <1>3, <2>5, RunStep DEF Complete
<1>4. ASSUME NEW w \in Workers, Misplace(w)
      PROVE  FetchInv'
  <2>1. PICK marker \in Strange[w] : run' = WithFile(run, MarkerKey(w), marker)
    BY <1>4 DEF Misplace
  <2>2. RunKnown'
    BY <1>1, <1>2, <2>1 DEF RunKnown, WithFile, MarkersAt
  <2>3. QED
    BY <1>4, <2>2, RunStep DEF Misplace
<1>5. ASSUME NEW key \in DOMAIN run, Disturb(key)
      PROVE  FetchInv'
  <2>1. key[1] # "attempts" /\ run' = [run EXCEPT ![key].id = <<"other">>]
    BY <1>5 DEF Disturb
  <2>2. \A v \in Workers : MarkerKey(v) # key
    BY <2>1 DEF MarkerKey
  <2>3. RunKnown'
    BY <1>1, <2>1, <2>2 DEF RunKnown
  <2>4. QED
    BY <1>5, <2>3, RunStep DEF Disturb
<1>6. QED
  BY <1>3, <1>4, <1>5

(* Exchanged files are files, and the directory counts as altered.         *)
LEMMA AlterKeeps ==
    ASSUME FetchInv, Alter
    PROVE  FetchInv'
<1>1. /\ out = <<out[1]>> /\ DirectoryKnown(out[1])
      /\ altered' /\ UNCHANGED <<run, fpc, fat, staging>>
  BY DEF FetchInv, OutKnown, Alter
<1>2. /\ DOMAIN out[1] = DOMAIN EmptyDirectory
      /\ {"embeddings", "query"} \subseteq DOMAIN EmptyDirectory \ {"markers"}
  BY <1>1 DEF DirectoryKnown, EmptyDirectory
<1>3. \E d : out' = <<d>> /\ DirectoryKnown(d)
  <2>1. ASSUME NEW key, out' = <<[out[1] EXCEPT !.embeddings[key].id = <<"other">>]>>
        PROVE  \E d : out' = <<d>> /\ DirectoryKnown(d)
    <3> DEFINE files == [out[1].embeddings EXCEPT ![key].id = <<"other">>]
    <3>1. out' = <<[out[1] EXCEPT !["embeddings"] = files]>>
      BY <2>1
    <3> HIDE DEF files
    <3>2. QED
      BY <1>1, <1>2, <3>1, TreeKnown
  <2>2. ASSUME NEW key, out' = <<[out[1] EXCEPT !.embeddings = [k \in DOMAIN @ \ {key} |-> @[k]]]>>
        PROVE  \E d : out' = <<d>> /\ DirectoryKnown(d)
    <3> DEFINE files == [k \in DOMAIN out[1].embeddings \ {key} |-> out[1].embeddings[k]]
    <3>1. out' = <<[out[1] EXCEPT !["embeddings"] = files]>>
      BY <2>2
    <3> HIDE DEF files
    <3>2. QED
      BY <1>1, <1>2, <3>1, TreeKnown
  <2>3. ASSUME NEW key, out' = <<[out[1] EXCEPT !.query[key].id = <<"other">>]>>
        PROVE  \E d : out' = <<d>> /\ DirectoryKnown(d)
    <3> DEFINE files == [out[1].query EXCEPT ![key].id = <<"other">>]
    <3>1. out' = <<[out[1] EXCEPT !["query"] = files]>>
      BY <2>3
    <3> HIDE DEF files
    <3>2. QED
      BY <1>1, <1>2, <3>1, TreeKnown
  <2>4. ASSUME NEW w \in DOMAIN out[1].markers, NEW marker \in Strange[w],
               out' = <<[out[1] EXCEPT !.markers[w] = marker]>>
        PROVE  \E d : out' = <<d>> /\ DirectoryKnown(d)
    <3>1. w \in Workers /\ marker \in MarkersAt(w)
      BY <1>1 DEF DirectoryKnown, MarkersAt
    <3>2. QED
      BY <1>1, <2>4, <3>1, MarkerKnown
  <2>5. QED
    BY <2>1, <2>2, <2>3, <2>4 DEF Alter
<1>4. RunKnown' /\ OutKnown' /\ out' # <<>>
  BY <1>1, <1>3 DEF FetchInv, RunKnown, OutKnown
<1>5. ASSUME NEW f \in Fetchers
      PROVE  Fetching(f)'
  BY <1>1, <1>4 DEF FetchInv, Fetching, Publishing
<1>6. QED
  BY <1>1, <1>4, <1>5 DEF FetchInv

(* A fetch begins, goes from marker to marker, from object to object, and  *)
(* verifies its private directory.                                         *)
LEMMA PrivateSteps ==
    ASSUME FetchInv, NEW f \in Fetchers,
           \/ BeginFetch(f) \/ GetMarker(f) \/ GetOutput(f) \/ GetQueryVectors(f)
           \/ Assemble(f) \/ Fail(f)
    PROVE  FetchInv'
<1>1. /\ DirectoryKnown(staging[f]) /\ fat[f] \in Nat
      /\ fpc[f] = "markers" => fat[f] \in DOMAIN TheBundle.assignments
  BY DEF FetchInv, Fetching
<1>2. LET n == Len(TheBundle.assignments)
      IN  n \in Nat /\ DOMAIN TheBundle.assignments = 1 .. n /\ 1 \in 1 .. n
  BY FetchAssumption DEF IsSequence
<1>3. CASE BeginFetch(f)
  <2>1. FetcherAlone(f)
    BY <1>1, <1>2, <1>3 DEF BeginFetch, FetchGoto, FetcherAlone, FetchInv
  <2>2. QED
    BY <2>1, FetcherStep
<1>4. CASE GetMarker(f)
  <2> DEFINE worker == TheBundle.assignments[fat[f]].worker
             marker == run[MarkerKey(worker)]
             d == [staging[f] EXCEPT !.markers = WithFile(@, worker, marker)]
  <2>1. CASE End(f, "failed")
    BY <1>4, <2>1, FetchEnds DEF GetMarker
  <2>2. CASE ~ End(f, "failed")
    <3>1. /\ MarkerAccepted(worker) /\ fpc[f] = "markers"
          /\ staging' = [staging EXCEPT ![f].markers = WithFile(@, worker, marker)]
          /\ IF fat[f] = Len(TheBundle.assignments) THEN FetchGoto(f, "outputs")
             ELSE fat' = [fat EXCEPT ![f] = @ + 1] /\ UNCHANGED fpc
          /\ UNCHANGED <<run, out, altered>>
      BY <1>4, <2>2 DEF GetMarker
    <3>2. worker \in Workers
      BY <1>1, <3>1, FetchAssumption DEF Range
    <3>3. marker \in MarkersAt(worker)
      BY <3>1, <3>2 DEF MarkerAccepted, FetchInv, RunKnown
    <3>4. staging' = [staging EXCEPT ![f] = d]
      BY <3>1
    <3> HIDE DEF worker, marker
    <3>5. DirectoryKnown(d)
      BY <1>1, <3>2, <3>3, MarkerKnown
    <3> HIDE DEF d
    <3>6. staging'[f] = d /\ staging' = [staging EXCEPT ![f] = staging'[f]]
      BY <3>4 DEF FetchInv
    <3>7. /\ fpc' = [fpc EXCEPT ![f] = fpc'[f]] /\ fat' = [fat EXCEPT ![f] = fat'[f]]
          /\ fpc'[f] \in {"markers", "outputs"} /\ fat'[f] \in Nat
          /\ fpc'[f] = "markers" => fat'[f] \in DOMAIN TheBundle.assignments
      <4>1. CASE fat[f] = Len(TheBundle.assignments)
        BY <3>1, <4>1 DEF FetchGoto, FetchInv
      <4>2. CASE fat[f] # Len(TheBundle.assignments)
        <5>1. fat' = [fat EXCEPT ![f] = @ + 1] /\ UNCHANGED fpc
          BY <3>1, <4>2
        <5>2. fat[f] + 1 \in DOMAIN TheBundle.assignments /\ fat[f] + 1 \in Nat
          BY <1>1, <1>2, <3>1, <4>2
        <5>3. QED
          BY <3>1, <5>1, <5>2 DEF FetchInv
      <4>3. QED
        BY <4>1, <4>2
    <3>8. FetcherAlone(f)
      BY <3>1, <3>5, <3>6, <3>7 DEF FetcherAlone
    <3>9. QED
      BY <3>8, FetcherStep
  <2>3. QED
    BY <2>1, <2>2
<1>5. CASE GetOutput(f)
  BY <1>5, DownloadKeeps DEF GetOutput
<1>6. CASE GetQueryVectors(f)
  BY <1>6, DownloadKeeps DEF GetQueryVectors
<1>7. CASE Assemble(f)
  <2> DEFINE value == BuildReport(TheBundle, MarkersFetched(f)).value
             receipt == FetchReceipt(TheBundle, MarkersFetched(f), value)
             d == [staging[f] EXCEPT !.report = <<value>>, !.receipt = receipt]
  <2>1. UNCHANGED <<run, out, altered>>
    BY <1>7 DEF Assemble
  <2>2. CASE End(f, "failed")
    BY <2>1, <2>2, FetchEnds
  <2>3. CASE ~ End(f, "failed")
    <3>1. /\ DirectoryVerified(d, TheBundle)
          /\ FetchGoto(f, "reserve") /\ staging' = [staging EXCEPT ![f] = d]
      BY <1>7, <2>3 DEF Assemble
    <3> HIDE DEF value, receipt
    <3>2. DirectoryKnown(d)
      <4>1. DOMAIN staging[f] = DOMAIN EmptyDirectory
        BY <1>1 DEF DirectoryKnown
      <4>2. {"report", "receipt"} \subseteq DOMAIN EmptyDirectory \ {"markers"}
        BY DEF EmptyDirectory
      <4>3. DirectoryKnown([staging[f] EXCEPT !["report"] = <<value>>])
        BY <1>1, <4>2, TreeKnown
      <4>4. DirectoryKnown([[staging[f] EXCEPT !["report"] = <<value>>] EXCEPT !["receipt"] = receipt])
        BY <4>2, <4>3, TreeKnown
      <4>5. QED
        BY <4>4
    <3> HIDE DEF d
    <3>3. FetcherAlone(f)
      BY <2>1, <3>1, <3>2 DEF FetchGoto, FetcherAlone, FetchInv
    <3>4. QED
      BY <3>3, FetcherStep
  <2>4. QED
    BY <2>2, <2>3
<1>8. CASE Fail(f)
  BY <1>8, FetchEnds DEF Fail
<1>9. QED
  BY <1>3, <1>4, <1>5, <1>6, <1>7, <1>8

(* Only one fetcher reserves the output directory: whoever has is alone    *)
(* with it until the end.                                                  *)
LEMMA ReserveKeeps ==
    ASSUME FetchInv, NEW f \in Fetchers, Reserve(f)
    PROVE  FetchInv'
<1>1. CASE out # <<>>
  BY <1>1, FetchEnds DEF Reserve
<1>2. CASE out = <<>>
  <2>1. /\ FetchGoto(f, "move") /\ out' = <<EmptyDirectory>>
        /\ UNCHANGED <<run, staging, altered>> /\ fpc[f] = "reserve"
    BY <1>2 DEF Reserve
  <2>2. /\ fpc'[f] = "move" /\ fat'[f] = 1
        /\ \A g \in Fetchers \ {f} : fpc'[g] = fpc[g] /\ fat'[g] = fat[g]
        /\ fpc' \in [Fetchers -> {"idle", "markers", "outputs", "queries", "report",
                                  "reserve", "move", "ok", "failed"}]
        /\ fat' \in [Fetchers -> Nat]
    BY <2>1 DEF FetchGoto, FetchInv
  <2>3. \A g \in Fetchers : ~ Publishing(g)
    BY <1>2 DEF FetchInv, Fetching
  <2>4. RunKnown' /\ OutKnown' /\ out' # <<>>
    BY <2>1, EmptyKnown DEF FetchInv, RunKnown, OutKnown
  <2>5. Fetching(f)'
    <3>1. Fetching(f)
      BY DEF FetchInv
    <3>2. \A g \in Fetchers : Publishing(g)' => g = f
      BY <2>2, <2>3 DEF Publishing
    <3>3. \A k \in 1 .. (fat'[f] - 1) : FALSE
      BY <2>2
    <3>4. QED
      BY <2>1, <2>2, <2>4, <3>1, <3>2, <3>3 DEF Fetching, Publishing
  <2>6. ASSUME NEW g \in Fetchers \ {f}
        PROVE  Fetching(g)'
    <3>1. Fetching(g) /\ ~ Publishing(g)
      BY <2>3 DEF FetchInv
    <3>2. QED
      BY <2>1, <2>2, <3>1 DEF Fetching, Publishing
  <2>7. QED
    BY <2>1, <2>2, <2>4, <2>5, <2>6 DEF FetchInv
<1>3. QED
  BY <1>1, <1>2

(* When the last entries have moved the directory is the one that was      *)
(* verified.                                                               *)
LEMMA MoveKeeps ==
    ASSUME FetchInv, NEW f \in Fetchers, Move(f)
    PROVE  FetchInv'
<1> DEFINE fields == Entries[fat[f]]
           d == Moved(out[1], staging[f], fields)
<1>1. Fetching(f) /\ RunKnown /\ OutKnown
  BY DEF FetchInv
<1>2. /\ fpc[f] = "move" /\ out' = <<d>> /\ UNCHANGED <<run, altered>>
      /\ IF fat[f] = 3 THEN End(f, "ok")
         ELSE fat' = [fat EXCEPT ![f] = @ + 1] /\ UNCHANGED <<fpc, staging>>
  BY DEF Move, Entries
<1>3. /\ fat[f] \in 1 .. 3 /\ out = <<out[1]>> /\ DirectoryKnown(out[1])
      /\ DirectoryKnown(staging[f]) /\ DirectoryVerified(staging[f], TheBundle)
      /\ \A g \in Fetchers : Publishing(g) => g = f
  BY <1>1, <1>2 DEF Fetching, Publishing, OutKnown
<1>4. /\ DOMAIN out[1] = DOMAIN EmptyDirectory /\ DOMAIN staging[f] = DOMAIN EmptyDirectory
      /\ staging[f] = [field \in DOMAIN EmptyDirectory |-> staging[f][field]]
  BY <1>3 DEF DirectoryKnown
<1>5. d = [field \in DOMAIN EmptyDirectory |->
             IF field \in fields THEN staging[f][field] ELSE out[1][field]]
  BY <1>4 DEF Moved
<1>6. Entries[1] \union Entries[2] \union Entries[3] = DOMAIN EmptyDirectory
  BY DEF Entries, EmptyDirectory
<1>7. \A k \in 1 .. 3 : Entries[k] \subseteq DOMAIN EmptyDirectory
  BY DEF Entries, EmptyDirectory
<1> HIDE DEF d
<1>8. DirectoryKnown(d)
  <2>1. "markers" \in DOMAIN EmptyDirectory
    BY DEF EmptyDirectory
  <2>2. d.markers = staging[f].markers \/ d.markers = out[1].markers
    BY <1>5, <2>1
  <2>3. d = [field \in DOMAIN EmptyDirectory |-> d[field]]
    BY <1>5
  <2>4. QED
    BY <1>3, <2>2, <2>3 DEF DirectoryKnown
<1>9. ~ altered => \A k \in 1 .. fat[f] : \A field \in Entries[k] : d[field] = staging[f][field]
  <2>1. SUFFICES ASSUME ~ altered, NEW k \in 1 .. fat[f], NEW field \in Entries[k]
                 PROVE  d[field] = staging[f][field]
    OBVIOUS
  <2>2. field \in DOMAIN EmptyDirectory
    BY <1>3, <1>7
  <2>3. CASE field \in fields
    BY <1>5, <2>2, <2>3
  <2>4. CASE field \notin fields
    <3>1. k \in 1 .. (fat[f] - 1)
      BY <1>3, <2>4
    <3>2. out[1][field] = staging[f][field]
      BY <1>1, <1>2, <2>1, <3>1 DEF Fetching
    <3>3. QED
      BY <1>5, <2>2, <2>4, <3>2
  <2>5. QED
    BY <2>3, <2>4
<1>10. RunKnown' /\ OutKnown' /\ out' # <<>> /\ out'[1] = d /\ altered' = altered
  BY <1>1, <1>2, <1>8 DEF RunKnown, OutKnown
<1>11. CASE fat[f] = 3
  <2>1. /\ fpc'[f] = "ok" /\ fat'[f] = 1 /\ staging'[f] = EmptyDirectory
        /\ \A g \in Fetchers \ {f} :
             fpc'[g] = fpc[g] /\ fat'[g] = fat[g] /\ staging'[g] = staging[g]
        /\ fpc' \in [Fetchers -> {"idle", "markers", "outputs", "queries", "report",
                                  "reserve", "move", "ok", "failed"}]
        /\ fat' \in [Fetchers -> Nat] /\ staging' = [g \in Fetchers |-> staging'[g]]
    <3>1. /\ fpc' = [fpc EXCEPT ![f] = "ok"] /\ fat' = [fat EXCEPT ![f] = 1]
          /\ staging' = [staging EXCEPT ![f] = EmptyDirectory]
      BY <1>2, <1>11 DEF End
    <3>2. QED
      BY <3>1 DEF FetchInv
  <2>2. ~ altered => d = staging[f]
    <3>1. SUFFICES ASSUME ~ altered PROVE d = staging[f]
      OBVIOUS
    <3>2. \A field \in DOMAIN EmptyDirectory : \E k \in 1 .. fat[f] : field \in Entries[k]
      BY <1>6, <1>11
    <3>3. \A field \in DOMAIN EmptyDirectory : d[field] = staging[f][field]
      BY <1>9, <3>1, <3>2
    <3>4. d = [field \in DOMAIN EmptyDirectory |-> d[field]]
      BY <1>5
    <3>5. QED
      BY <1>4, <3>3, <3>4
  <2>3. ~ altered => DirectoryVerified(d, TheBundle)
    BY <1>3, <2>2
  <2>4. \A g \in Fetchers : Publishing(g)' => g = f
    BY <1>3, <2>1 DEF Publishing
  <2>5. Fetching(f)'
    BY <1>10, <2>1, <2>3, <2>4, EmptyKnown DEF Fetching, Publishing
  <2>6. ASSUME NEW g \in Fetchers \ {f}
        PROVE  Fetching(g)'
    <3>1. Fetching(g) /\ ~ Publishing(g)
      BY <1>3 DEF FetchInv
    <3>2. QED
      BY <2>1, <3>1 DEF Fetching, Publishing
  <2>7. QED
    BY <1>10, <2>1, <2>5, <2>6 DEF FetchInv
<1>12. CASE fat[f] # 3
  <2>1. /\ fpc' = fpc /\ staging' = staging /\ fat'[f] = fat[f] + 1
        /\ \A g \in Fetchers \ {f} : fat'[g] = fat[g]
        /\ fat' \in [Fetchers -> Nat] /\ fat'[f] \in 1 .. 3
    <3>1. fat' = [fat EXCEPT ![f] = fat[f] + 1] /\ UNCHANGED <<fpc, staging>>
      BY <1>2, <1>12
    <3>2. fat[f] + 1 \in 1 .. 3 /\ fat[f] + 1 \in Nat
      BY <1>3, <1>12
    <3>3. QED
      BY <3>1, <3>2 DEF FetchInv
  <2>2. \A g \in Fetchers : Publishing(g)' => g = f
    BY <1>3, <2>1 DEF Publishing
  <2>3. ~ altered' => \A k \in 1 .. (fat'[f] - 1) : \A field \in Entries[k] :
                         out'[1][field] = staging'[f][field]
    <3>1. fat'[f] - 1 = fat[f]
      BY <1>3, <2>1
    <3>2. QED
      BY <1>9, <1>10, <2>1, <3>1
  <2>4. Fetching(f)'
    BY <1>2, <1>3, <1>10, <2>1, <2>2, <2>3 DEF Fetching, Publishing
  <2>5. ASSUME NEW g \in Fetchers \ {f}
        PROVE  Fetching(g)'
    <3>1. Fetching(g) /\ ~ Publishing(g)
      BY <1>3 DEF FetchInv
    <3>2. QED
      BY <2>1, <3>1 DEF Fetching, Publishing
  <2>6. QED
    BY <1>10, <2>1, <2>4, <2>5 DEF FetchInv
<1>13. QED
  BY <1>11, <1>12

(* Every step of the fetchers, the workers and the storage keeps it.       *)
LEMMA FetchStepInv == FetchInv /\ [FetchNext]_fetch_vars => FetchInv'
<1> SUFFICES ASSUME FetchInv, [FetchNext]_fetch_vars PROVE FetchInv'
  OBVIOUS
<1>1. CASE \/ \E w \in Workers : Complete(w) \/ Misplace(w)
           \/ \E key \in DOMAIN run : Disturb(key)
  BY <1>1, VolumeSteps
<1>2. CASE Alter
  BY <1>2, AlterKeeps
<1>3. ASSUME NEW f \in Fetchers,
             \/ BeginFetch(f) \/ GetMarker(f) \/ GetOutput(f) \/ GetQueryVectors(f)
             \/ Assemble(f) \/ Reserve(f) \/ Move(f) \/ Fail(f)
      PROVE  FetchInv'
  BY <1>3, PrivateSteps, ReserveKeeps, MoveKeeps
<1>4. CASE UNCHANGED fetch_vars
  <2>1. RunKnown' /\ UNCHANGED <<fpc, fat, staging, out, altered>>
    BY <1>4 DEF FetchInv, RunKnown, fetch_vars
  <2>2. QED
    BY <2>1, RunStep
<1>5. QED
  BY <1>1, <1>2, <1>3, <1>4 DEF FetchNext

(* Whenever verify would accept the fetched directory it holds exactly     *)
(* what the workers completed with, and a fetch that succeeded published a *)
(* directory that verify accepts: for any bundle, markers, number of       *)
(* fetchers and of failures, if a worker completes one attempt.            *)
THEOREM FetchedDirectoriesExact ==
    ASSUME OneAttempt
    PROVE  FetchSpec => []FetchedExact
<1>1. OneAttempt /\ FetchInv => FetchedExact
  <2>1. SUFFICES ASSUME OneAttempt, FetchInv PROVE FetchedExact
    OBVIOUS
  <2>2. out # <<>> /\ DirectoryVerified(out[1], TheBundle) => Exact(out[1])
    BY <2>1, VerifiedIsExact DEF FetchInv, OutKnown
  <2>3. (\E f \in Fetchers : fpc[f] = "ok") /\ ~ altered => DirectoryVerified(out[1], TheBundle)
    BY <2>1 DEF FetchInv, Fetching
  <2>4. QED
    BY <2>2, <2>3 DEF FetchedExact
<1>2. QED
  BY <1>1, FetchInitInv, FetchStepInv, PTL DEF FetchSpec
=============================================================================
