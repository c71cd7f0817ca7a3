--------------------------- MODULE CandidateProofs ---------------------------
(***************************************************************************)
(* Proofs about a candidate model on the volume and its measurement.       *)
(*                                                                         *)
(* ModelHydration, for any number of model files of any sizes and any      *)
(* limits: the tree a worker serves is exact.                              *)
(*                                                                         *)
(* Conformance, for any candidate templates and drafts, any number of      *)
(* prefixes, runs, outputs and containers, with nothing assumed of the     *)
(* constants: a sealed policy was measured.                                *)
(*                                                                         *)
(* The inductive invariants IndInv and ConformanceInv, and what the sizes  *)
(* and limits of ModelHydration are (Declared), are stated at the end of   *)
(* the two modules.                                                        *)
(***************************************************************************)
EXTENDS ModelHydration, Conformance, Functions, FiniteSetTheorems, TLAPS

-----------------------------------------------------------------------------
(* Files.                                                                  *)

(* A table of links has at most one file for every object.                 *)
LEMMA FewFiles ==
    ASSUME Declared, NEW f \in Links
    PROVE  LET F == {f[o] : o \in ModelObjects}
           IN  IsFiniteSet(F) /\ Cardinality(F) <= ModelFiles
<1> DEFINE F == {f[o] : o \in ModelObjects}
<1>1. IsFiniteSet(ModelObjects) /\ Cardinality(ModelObjects) = ModelFiles
  BY FS_Interval DEF Declared, ModelObjects
<1>2. f \in Surjection(ModelObjects, F)
  BY DEF Links, Surjection
<1>3. QED
  BY <1>1, <1>2, FS_Surjection

(* There is always a free inode for a new partial file: three tables of    *)
(* links, one of which lacks a file, do not use up three per object.       *)
LEMMA FreeInode ==
    ASSUME Declared, TypeOK, NEW x \in ModelObjects, partial[x] = NoFile
    PROVE  \E i \in Inodes : ~Named(i)
<1> DEFINE D == {dest[o] : o \in ModelObjects}
           P == {partial[o] : o \in ModelObjects}
           H == {handle[o] : o \in ModelObjects}
           U == (D \cup P) \cup H
<1>1. /\ IsFiniteSet(D) /\ Cardinality(D) <= ModelFiles
      /\ IsFiniteSet(P) /\ Cardinality(P) <= ModelFiles
      /\ IsFiniteSet(H) /\ Cardinality(H) <= ModelFiles
  BY FewFiles DEF TypeOK
<1>2. IsFiniteSet(D \cup P) /\ Cardinality(D \cup P) <= 2 * ModelFiles
  <2>1. IsFiniteSet(D \cap P) /\ Cardinality(D \cap P) \in Nat
    BY <1>1, FS_Intersection, FS_CardinalityType
  <2>2. Cardinality(D \cup P) = Cardinality(D) + Cardinality(P) - Cardinality(D \cap P)
    BY <1>1, FS_Union
  <2>3. Cardinality(D) \in Nat /\ Cardinality(P) \in Nat
    BY <1>1, FS_CardinalityType
  <2>4. IsFiniteSet(D \cup P)
    BY <1>1, FS_Union
  <2>5. QED
    BY <1>1, <2>1, <2>2, <2>3, <2>4 DEF Declared
<1>3. IsFiniteSet(U) /\ Cardinality(U) <= 3 * ModelFiles
  <2>1. IsFiniteSet((D \cup P) \cap H) /\ Cardinality((D \cup P) \cap H) \in Nat
    BY <1>1, <1>2, FS_Intersection, FS_CardinalityType
  <2>2. Cardinality(U) = Cardinality(D \cup P) + Cardinality(H) - Cardinality((D \cup P) \cap H)
    BY <1>1, <1>2, FS_Union
  <2>3. Cardinality(D \cup P) \in Nat /\ Cardinality(H) \in Nat
    BY <1>1, <1>2, FS_CardinalityType
  <2>4. IsFiniteSet(U)
    BY <1>1, <1>2, FS_Union
  <2>5. QED
    BY <1>1, <1>2, <2>1, <2>2, <2>3, <2>4 DEF Declared
<1>4. NoFile \in U
  <2>1. NoFile \in P
    OBVIOUS
  <2>2. QED
    BY <2>1
<1>5. IsFiniteSet(U \ {NoFile}) /\ Cardinality(U \ {NoFile}) < 3 * ModelFiles
  <2>1. Cardinality(U) \in Nat
    BY <1>3, FS_CardinalityType
  <2>2. IsFiniteSet(U \ {NoFile}) /\ Cardinality(U \ {NoFile}) = Cardinality(U) - 1
    BY <1>3, <1>4, FS_RemoveElement
  <2>3. QED
    BY <1>3, <2>1, <2>2 DEF Declared
<1>6. Cardinality(Inodes) = 3 * ModelFiles
  <2>1. 1 \in Int /\ 3 * ModelFiles \in Int /\ 3 * ModelFiles >= 0
    BY DEF Declared
  <2>2. Cardinality(1..(3 * ModelFiles)) =
          IF 1 > 3 * ModelFiles THEN 0 ELSE 3 * ModelFiles - 1 + 1
    BY <2>1, FS_Interval
  <2>3. QED
    BY <2>1, <2>2 DEF Inodes
<1>7. SUFFICES ASSUME \A i \in Inodes : Named(i)
               PROVE  FALSE
  OBVIOUS
<1>8. Inodes \subseteq U \ {NoFile}
  <2>1. NoFile \notin Inodes
    BY DEF NoFile, Inodes, Declared
  <2>2. \A i \in Inodes : i \in U
    BY <1>7 DEF Named
  <2>3. QED
    BY <2>1, <2>2
<1>9. Cardinality(Inodes) <= Cardinality(U \ {NoFile})
  BY <1>5, <1>8, FS_Subset
<1>10. Cardinality(U \ {NoFile}) \in Nat
  BY <1>5, FS_CardinalityType
<1>11. QED
  BY <1>5, <1>6, <1>9, <1>10 DEF Declared

(* The worker starts on an empty volume.                                   *)
LEMMA InitInv ==
    ASSUME Declared, Init
    PROVE  IndInv
<1>1. TypeOK
  <2>1. next \in 1..(ModelFiles + 1)
    BY DEF Declared, Init
  <2>2. data \in [Inodes -> Seq(Bytes)]
    BY DEF Init
  <2>3. dest \in Links /\ partial \in Links /\ handle \in Links
    BY DEF Init, Idle, Links
  <2>4. step \in [ModelObjects -> Steps]
    BY DEF Init, Idle, Steps
  <2>5. attempt \in [ModelObjects -> Nat] /\ got \in [ModelObjects -> Nat]
    BY DEF Init, Idle
  <2>6. QED
    BY <2>1, <2>2, <2>3, <2>4, <2>5 DEF Init, TypeOK
<1>2. Dropped
  BY DEF Init, Idle, Dropped
<1>3. Apart /\ \A o \in ModelObjects : Own(o)
  <2>1. \A o \in ModelObjects : partial[o] = NoFile /\ dest[o] = NoFile /\ step[o] = "none"
    BY DEF Init, Idle
  <2>2. QED
    BY <2>1 DEF Apart, Own
<1>4. QED
  BY <1>1, <1>2, <1>3 DEF IndInv

-----------------------------------------------------------------------------
(* Types and the worker.                                                   *)

(* A process that ends leaves idle tables behind.                          *)
LEMMA EndTypes ==
    ASSUME Declared, NEW how \in {"served", "failed"}, End(how)
    PROVE  /\ main' = how
           /\ next' \in 1..(ModelFiles + 1)
           /\ step' \in [ModelObjects -> Steps] /\ \A o \in ModelObjects : step'[o] = "none"
           /\ attempt' \in [ModelObjects -> Nat] /\ got' \in [ModelObjects -> Nat]
           /\ handle' \in Links
<1>1. next' \in 1..(ModelFiles + 1)
  BY DEF Declared, End
<1>2. step' \in [ModelObjects -> Steps] /\ \A o \in ModelObjects : step'[o] = "none"
  BY DEF End, Idle, Steps
<1>3. attempt' \in [ModelObjects -> Nat] /\ got' \in [ModelObjects -> Nat]
  BY DEF End, Idle
<1>4. handle' \in Links
  BY DEF End, Idle, Links
<1>5. QED
  BY <1>1, <1>2, <1>3, <1>4 DEF End

(* The variables keep their types.                                         *)
LEMMA TypeStep ==
    ASSUME Declared, TypeOK, Next
    PROVE  TypeOK'
<1>1. CASE Start
  BY <1>1 DEF TypeOK, Start, files, download
<1>2. CASE Consider
  <2>1. next' \in 1..(ModelFiles + 1)
    BY <1>2 DEF Declared, TypeOK, Consider
  <2>2. step' \in [ModelObjects -> Steps]
    BY <1>2 DEF TypeOK, Consider, Steps
  <2>3. QED
    BY <1>2, <2>1, <2>2 DEF TypeOK, Consider, files
<1>3. CASE Serve
  <2>1. PICK how \in {"served", "failed"} : End(how)
    BY <1>3 DEF Serve
  <2>2. QED
    BY <1>3, <2>1, EndTypes DEF TypeOK, Serve, files
<1>4. CASE Kill
  <2>1. faults' \in Nat
    BY <1>4 DEF TypeOK, Kill, Fault
  <2>2. QED
    BY <1>4, <2>1, EndTypes DEF TypeOK, Kill, files
<1>5. ASSUME NEW o \in ModelObjects, Step(o)
      PROVE  TypeOK'
  <2>1. \A t \in Steps : Goto(o, t) => step' \in [ModelObjects -> Steps]
    BY DEF TypeOK, Goto
  <2>2. Fault => faults' \in Nat
    BY DEF TypeOK, Fault
  <2>3. Retry(o) => attempt' \in [ModelObjects -> Nat] /\ step' \in [ModelObjects -> Steps]
    BY <2>1 DEF TypeOK, Retry, Steps
  <2>4. handle' = [handle EXCEPT ![o] = NoFile] => handle' \in Links
    BY DEF TypeOK, Links
  <2>5. partial[o] \in Inodes \cup {NoFile}
    BY DEF TypeOK, Links
  <2>6. ASSUME NEW b \in Bytes, Append1(o, b), step[o] = "stream"
        PROVE  data' \in [Inodes -> Seq(Bytes)] /\ got' \in [ModelObjects -> Nat]
    <3>1. got' \in [ModelObjects -> Nat]
      BY <2>6 DEF TypeOK, Append1
    <3>2. \A s \in Seq(Bytes) : Append(s, b) \in Seq(Bytes)
      OBVIOUS
    <3>3. data' \in [Inodes -> Seq(Bytes)]
      BY <2>6, <3>2 DEF TypeOK, Append1
    <3>4. QED
      BY <3>1, <3>3
  <2>7. CASE Open(o)
    <3>1. step' \in [ModelObjects -> Steps]
      BY <2>1, <2>7 DEF Open, Steps
    <3>2. QED
      BY <2>7, <3>1 DEF TypeOK, Open, files, worker
  <2>8. CASE Create(o)
    <3>1. step' \in [ModelObjects -> Steps]
      BY <2>1, <2>8 DEF Create, Steps
    <3>2. CASE partial[o] # NoFile
      BY <2>8, <3>1, <3>2 DEF TypeOK, Create, files, worker
    <3>3. CASE partial[o] = NoFile
      <4>1. (CHOOSE i \in Inodes : ~Named(i)) \in Inodes
        BY <2>5, <3>3, FreeInode
      <4>2. PICK i \in Inodes : /\ partial' = [partial EXCEPT ![o] = i]
                                /\ data' = [data EXCEPT ![i] = <<>>]
        BY <2>8, <3>3, <4>1 DEF Create
      <4>3. partial' \in Links
        BY <4>2 DEF TypeOK, Links
      <4>4. data' \in [Inodes -> Seq(Bytes)]
        <5>1. <<>> \in Seq(Bytes)
          OBVIOUS
        <5>2. QED
          BY <4>2, <5>1 DEF TypeOK
      <4>5. QED
        BY <2>8, <3>1, <3>3, <4>3, <4>4 DEF TypeOK, Create, worker
    <3>4. QED
      BY <3>2, <3>3
  <2>9. CASE Request(o)
    <3>1. step' \in [ModelObjects -> Steps]
      BY <2>1, <2>9 DEF Request, Steps
    <3>2. partial[o] # NoFile => Length(o) \in Nat
      <4>1. partial[o] # NoFile => data[partial[o]] \in Seq(Bytes)
        BY <2>5 DEF TypeOK
      <4>2. \A s \in Seq(Bytes) : Len(s) \in Nat
        OBVIOUS
      <4>3. QED
        BY <4>1, <4>2 DEF Length
    <3>3. got' \in [ModelObjects -> Nat]
      BY <2>9, <3>2 DEF TypeOK, Request, Offset
    <3>4. QED
      BY <2>9, <3>1, <3>3 DEF TypeOK, Request, files, worker
  <2>10. CASE Respond(o)
    <3>1. step' \in [ModelObjects -> Steps]
      BY <2>1, <2>10 DEF Respond, Steps
    <3>2. handle' \in Links
      BY <2>5, <2>10 DEF TypeOK, Respond, Links
    <3>3. QED
      BY <2>10, <3>1, <3>2 DEF TypeOK, Respond, files, worker
  <2>11. CASE RespondBadly(o)
    <3>1. step' \in [ModelObjects -> Steps] /\ attempt' \in [ModelObjects -> Nat]
      BY <2>1, <2>3, <2>11 DEF TypeOK, RespondBadly, Steps
    <3>2. QED
      BY <2>2, <2>11, <3>1 DEF TypeOK, RespondBadly, files, worker
  <2>12. CASE Receive(o)
    <3>1. <<o, got[o] + 1>> \in Bytes
      BY DEF TypeOK, Bytes
    <3>2. data' \in [Inodes -> Seq(Bytes)] /\ got' \in [ModelObjects -> Nat]
      BY <2>6, <2>12, <3>1 DEF Receive
    <3>3. QED
      BY <2>12, <3>2 DEF TypeOK, Receive, worker
  <2>13. CASE ReceiveWrong(o)
    <3>1. WrongByte \in Bytes
      BY DEF Bytes
    <3>2. data' \in [Inodes -> Seq(Bytes)] /\ got' \in [ModelObjects -> Nat]
      BY <2>6, <2>13, <3>1 DEF ReceiveWrong
    <3>3. QED
      BY <2>2, <2>13, <3>2 DEF TypeOK, ReceiveWrong, worker
  <2>14. CASE ReceiveTooMany(o)
    <3>1. step' \in [ModelObjects -> Steps]
      BY <2>1, <2>14 DEF ReceiveTooMany, Steps
    <3>2. QED
      BY <2>2, <2>4, <2>14, <3>1 DEF TypeOK, ReceiveTooMany, files, worker
  <2>15. CASE EndBody(o)
    <3>1. step' \in [ModelObjects -> Steps] /\ attempt' \in [ModelObjects -> Nat]
      BY <2>1, <2>3, <2>15 DEF TypeOK, EndBody, Steps
    <3>2. QED
      BY <2>2, <2>4, <2>15, <3>1 DEF TypeOK, EndBody, files, worker
  <2>16. CASE Seal(o)
    <3>1. step' \in [ModelObjects -> Steps]
      BY <2>1, <2>16 DEF Seal, Steps
    <3>2. QED
      BY <2>16, <3>1 DEF TypeOK, Seal, files, worker
  <2>17. CASE Link(o)
    <3>1. step' \in [ModelObjects -> Steps]
      BY <2>1, <2>17 DEF Link, Steps
    <3>2. dest' \in Links
      BY <2>5, <2>17 DEF TypeOK, Link, Links
    <3>3. QED
      BY <2>17, <3>1, <3>2 DEF TypeOK, Link, worker
  <2>18. CASE Unlink(o)
    <3>1. step' \in [ModelObjects -> Steps]
      BY <2>1, <2>18 DEF Unlink, Steps
    <3>2. partial' \in Links
      BY <2>18 DEF TypeOK, Unlink, Links
    <3>3. QED
      BY <2>18, <3>1, <3>2 DEF TypeOK, Unlink, worker
  <2>19. CASE Check(o)
    <3>1. step' \in [ModelObjects -> Steps]
      BY <2>1, <2>19 DEF Check, Steps
    <3>2. QED
      BY <2>19, <3>1 DEF TypeOK, Check, files, worker
  <2>20. CASE Join(o)
    <3>1. CASE step[o] = "ok"
      <4>1. step' \in [ModelObjects -> Steps]
        BY <2>20, <3>1 DEF TypeOK, Join, Steps
      <4>2. QED
        BY <2>20, <3>1, <4>1 DEF TypeOK, Join, files, worker
    <3>2. CASE step[o] = "error"
      <4>1. End("failed")
        BY <2>20, <3>2 DEF Join
      <4>2. QED
        BY <2>20, <4>1, EndTypes DEF TypeOK, Join, files
    <3>3. QED
      BY <2>20, <3>1, <3>2 DEF Join
  <2>21. QED
    BY <1>5, <2>7, <2>8, <2>9, <2>10, <2>11, <2>12, <2>13, <2>14, <2>15, <2>16, <2>17, <2>18,
       <2>19, <2>20 DEF Step
<1>6. QED
  BY <1>1, <1>2, <1>3, <1>4, <1>5 DEF Next

(* A download that takes a step is running, and no step of it makes the    *)
(* worker serve.                                                           *)
LEMMA StepOfWorker ==
    ASSUME NEW o \in ModelObjects, Step(o)
    PROVE  step[o] # "none" /\ (main' = main \/ End("failed"))
<1>1. step[o] # "none"
  BY DEF Step, Open, Create, Request, Respond, RespondBadly, Receive, ReceiveWrong,
     ReceiveTooMany, EndBody, Seal, Link, Unlink, Check, Join
<1>2. main' = main \/ End("failed")
  BY DEF Step, Open, Create, Request, Respond, RespondBadly, Receive, ReceiveWrong,
     ReceiveTooMany, EndBody, Seal, Link, Unlink, Check, Join, worker
<1>3. QED
  BY <1>1, <1>2

(* Only a running worker has downloads, and it serves what it has read.    *)
LEMMA DroppedStep ==
    ASSUME Declared, TypeOK, Dropped, Next
    PROVE  Dropped'
<1>1. CASE Start
  BY <1>1 DEF Start, Dropped
<1>2. CASE Consider
  BY <1>2 DEF Consider, Dropped
<1>3. CASE Serve
  <2>1. PICK how \in {"served", "failed"} :
          End(how) /\ (how = "served" => \A o \in ModelObjects : Verified(o))
    BY <1>3 DEF Serve
  <2>2. \A o \in ModelObjects : Verified(o) => Verified(o)'
    BY <1>3 DEF Serve, files, Verified, WholeFile
  <2>3. QED
    BY <2>1, <2>2, EndTypes DEF Dropped
<1>4. CASE Kill
  BY <1>4, EndTypes DEF Kill, Dropped
<1>5. ASSUME NEW o \in ModelObjects, Step(o)
      PROVE  Dropped'
  <2>1. main = "spawning"
    BY <1>5, StepOfWorker DEF Dropped
  <2>2. CASE main' = main
    BY <2>1, <2>2 DEF Dropped
  <2>3. CASE End("failed")
    BY <2>3, EndTypes DEF Dropped
  <2>4. QED
    BY <1>5, <2>2, <2>3, StepOfWorker
<1>6. QED
  BY <1>1, <1>2, <1>3, <1>4, <1>5 DEF Next

-----------------------------------------------------------------------------
(* Files that are nobody else's.                                           *)

(* A step that leaves the files alone keeps them apart.                    *)
LEMMA ApartKept ==
    ASSUME Apart, UNCHANGED files
    PROVE  Apart'
BY DEF Apart, files

(* What a download owns concerns its own step and the file it has open.    *)
LEMMA OwnKept ==
    ASSUME NEW x \in ModelObjects, Own(x), UNCHANGED files, step'[x] = step[x],
           handle'[x] = handle[x]
    PROVE  Own(x)'
BY DEF Own, files, WholeFile

(* A process that ends owns the files that have their final names.         *)
LEMMA OwnEnded ==
    ASSUME NEW x \in ModelObjects, Own(x), UNCHANGED files, step'[x] = "none"
    PROVE  Own(x)'
BY DEF Own, files, WholeFile

(* Steps that leave the files alone: what the download of o does next fits *)
(* what it knows of its files.                                             *)
LEMMA OwnControl ==
    ASSUME TypeOK, Apart, \A x \in ModelObjects : Own(x), NEW o \in ModelObjects,
           UNCHANGED files,
           NEW to, step' = [step EXCEPT ![o] = to],
           \A x \in ModelObjects : x # o => handle'[x] = handle[x],
           to = "stream" => handle'[o] = partial[o] /\ partial[o] # NoFile,
           dest[o] # NoFile => to \in {"none", "open", "unlink", "check", "ok", "error"},
           to = "link" => partial[o] # NoFile /\ data[partial[o]] = WholeFile(o)
    PROVE  Apart' /\ \A x \in ModelObjects : Own(x)'
<1>1. Apart'
  BY ApartKept
<1>2. step'[o] = to /\ \A x \in ModelObjects : x # o => step'[x] = step[x]
  BY DEF TypeOK
<1>3. Own(o)'
  BY <1>2 DEF Own, files, WholeFile
<1>4. ASSUME NEW x \in ModelObjects, x # o
      PROVE  Own(x)'
  BY <1>2, <1>4, OwnKept
<1>5. QED
  BY <1>1, <1>3, <1>4

(* A step that leaves the files alone.                                     *)
LEMMA ControlStep ==
    ASSUME TypeOK, Apart, \A x \in ModelObjects : Own(x), NEW o \in ModelObjects,
           \/ Open(o) \/ Request(o) \/ Respond(o) \/ RespondBadly(o) \/ ReceiveTooMany(o)
           \/ EndBody(o) \/ Seal(o) \/ Check(o)
    PROVE  Apart' /\ \A x \in ModelObjects : Own(x)'
<1>1. Own(o) /\ handle \in Links
  BY DEF TypeOK
<1>2. CASE Open(o)
  <2>1. PICK to : /\ Goto(o, to) /\ to \notin {"stream", "link"}
                  /\ dest[o] # NoFile => to \in {"check", "error"}
    BY <1>2 DEF Open
  <2>2. QED
    BY <1>2, <2>1, OwnControl DEF Open, Goto
<1>3. CASE Request(o)
  <2>1. PICK to \in {"error", "seal", "respond"} : Goto(o, to)
    BY <1>3 DEF Request
  <2>2. dest[o] = NoFile
    BY <1>1, <1>3 DEF Own, Request
  <2>3. QED
    BY <1>3, <2>1, <2>2, OwnControl DEF Request, Goto
<1>4. CASE Respond(o)
  <2>1. dest[o] = NoFile
    BY <1>1, <1>4 DEF Own, Respond
  <2>2. PICK to \in {"error", "stream"} :
          /\ Goto(o, to)
          /\ to = "stream" => handle'[o] = partial[o] /\ partial[o] # NoFile
    BY <1>1, <1>4 DEF Respond, Links
  <2>3. \A x \in ModelObjects : x # o => handle'[x] = handle[x]
    BY <1>1, <1>4 DEF Respond, Links
  <2>4. QED
    BY <1>4, <2>1, <2>2, <2>3, OwnControl DEF Respond, Goto
<1>5. CASE RespondBadly(o)
  <2>1. PICK to \in {"error", "request"} : Goto(o, to)
    BY <1>5 DEF RespondBadly, Retry
  <2>2. dest[o] = NoFile
    BY <1>1, <1>5 DEF Own, RespondBadly
  <2>3. QED
    BY <1>5, <2>1, <2>2, OwnControl DEF RespondBadly, Goto
<1>6. CASE ReceiveTooMany(o)
  <2>1. dest[o] = NoFile
    BY <1>1, <1>6 DEF Own, ReceiveTooMany
  <2>2. \A x \in ModelObjects : x # o => handle'[x] = handle[x]
    BY <1>1, <1>6 DEF ReceiveTooMany, Links
  <2>3. QED
    BY <1>6, <2>1, <2>2, OwnControl DEF ReceiveTooMany, Goto
<1>7. CASE EndBody(o)
  <2>1. PICK to \in {"seal", "request"} : Goto(o, to)
    BY <1>7 DEF EndBody, Retry
  <2>2. dest[o] = NoFile
    BY <1>1, <1>7 DEF Own, EndBody
  <2>3. \A x \in ModelObjects : x # o => handle'[x] = handle[x]
    BY <1>1, <1>7 DEF EndBody, Links
  <2>4. QED
    BY <1>7, <2>1, <2>2, <2>3, OwnControl DEF EndBody, Goto
<1>8. CASE Seal(o)
  <2>1. PICK to \in {"link", "error"} :
          Goto(o, to) /\ (to = "link" => partial[o] # NoFile /\ data[partial[o]] = WholeFile(o))
    BY <1>8 DEF Seal, Sealable
  <2>2. dest[o] = NoFile
    BY <1>1, <1>8 DEF Own, Seal
  <2>3. QED
    BY <1>8, <2>1, <2>2, OwnControl DEF Seal, Goto
<1>9. CASE Check(o)
  <2>1. PICK to \in {"ok", "error"} : Goto(o, to)
    BY <1>9 DEF Check
  <2>2. QED
    BY <1>9, <2>1, OwnControl DEF Check, Goto
<1>10. QED
  BY <1>2, <1>3, <1>4, <1>5, <1>6, <1>7, <1>8, <1>9

(* A new link under the partial name of one object is no other object's.   *)
LEMMA OnePart ==
    ASSUME TypeOK, NEW o \in ModelObjects, NEW i,
           partial' = [partial EXCEPT ![o] = i]
    PROVE  partial'[o] = i /\ \A x \in ModelObjects : x # o => partial'[x] = partial[x]
BY DEF TypeOK, Links

(* create_new: the new file is empty and nobody's.                         *)
LEMMA CreateStep ==
    ASSUME Declared, TypeOK, Apart, \A x \in ModelObjects : Own(x),
           NEW o \in ModelObjects,
           Create(o)
    PROVE  Apart' /\ \A x \in ModelObjects : Own(x)'
<1>1. dest[o] = NoFile
  BY DEF Own, Create
<1>2. CASE partial[o] # NoFile
  BY <1>1, <1>2, OwnControl DEF Create, Goto
<1>3. CASE partial[o] = NoFile
  <2>1. /\ (CHOOSE i \in Inodes : ~Named(i)) \in Inodes
        /\ ~Named(CHOOSE i \in Inodes : ~Named(i))
    BY <1>3, FreeInode
  <2>2. PICK i \in Inodes : /\ ~Named(i)
                            /\ partial' = [partial EXCEPT ![o] = i]
                            /\ data' = [data EXCEPT ![i] = <<>>]
    BY <1>3, <2>1 DEF Create
  <2>3. dest' = dest /\ handle' = handle /\ Goto(o, "request")
    BY <1>3 DEF Create
  <2>4. partial'[o] = i /\ \A x \in ModelObjects : x # o => partial'[x] = partial[x]
    BY <2>2, <2>3, OnePart
  <2>5. \A x \in ModelObjects : partial[x] # i /\ dest[x] # i
    BY <2>2 DEF TypeOK, Named
  <2>6. \A j : j \in Inodes /\ j # i => data'[j] = data[j]
    BY <2>2 DEF TypeOK
  <2>7. step'[o] = "request" /\ \A x \in ModelObjects : x # o => step'[x] = step[x]
    BY <2>3 DEF TypeOK, Goto
  <2>8. Apart'
    BY <2>3, <2>4, <2>5 DEF Apart
  <2>9. Own(o)'
    BY <1>1, <2>3, <2>7 DEF Own
  <2>10. ASSUME NEW x \in ModelObjects, x # o
         PROVE  Own(x)'
    <3>1. /\ dest[x] # NoFile => data'[dest[x]] = data[dest[x]]
          /\ partial[x] # NoFile => data'[partial[x]] = data[partial[x]]
      BY <2>5, <2>6 DEF TypeOK, Links
    <3>2. QED
      BY <2>3, <2>4, <2>7, <2>10, <3>1 DEF Own, WholeFile
  <2>11. QED
    BY <2>8, <2>9, <2>10
<1>4. QED
  BY <1>2, <1>3

(* A byte that arrives changes no file but the partial one.                *)
LEMMA ReceiveStep ==
    ASSUME TypeOK, Apart, \A x \in ModelObjects : Own(x), NEW o \in ModelObjects,
           Receive(o) \/ ReceiveWrong(o)
    PROVE  Apart' /\ \A x \in ModelObjects : Own(x)'
<1>1. PICK b : Append1(o, b)
  BY DEF Receive, ReceiveWrong
<1>2. UNCHANGED <<dest, partial, step, handle>> /\ step[o] = "stream"
  BY DEF Receive, ReceiveWrong
<1>3. handle[o] = partial[o] /\ partial[o] # NoFile /\ dest[o] = NoFile
  BY <1>2 DEF Own
<1>4. \A j : j \in Inodes /\ j # partial[o] => data'[j] = data[j]
  BY <1>1, <1>3 DEF TypeOK, Append1
<1>5. Apart'
  BY <1>2 DEF Apart
<1>6. Own(o)'
  BY <1>2, <1>3 DEF Own
<1>7. ASSUME NEW x \in ModelObjects, x # o
      PROVE  Own(x)'
  <2>1. partial[o] # partial[x] /\ partial[o] # dest[x]
    BY <1>3, <1>7 DEF Apart
  <2>2. /\ dest[x] # NoFile => data'[dest[x]] = data[dest[x]]
        /\ partial[x] # NoFile => data'[partial[x]] = data[partial[x]]
    BY <1>4, <2>1 DEF TypeOK, Links
  <2>3. Own(x)
    OBVIOUS
  <2>4. partial'[x] = partial[x]
    BY <1>2
  <2>5. QED
    BY <1>2, <2>2, <2>3, <2>4 DEF Own, WholeFile
<1>8. QED
  BY <1>5, <1>6, <1>7

(* hard_link: what was digested gets the final name.                       *)
LEMMA LinkStep ==
    ASSUME TypeOK, Apart, \A x \in ModelObjects : Own(x), NEW o \in ModelObjects, Link(o)
    PROVE  Apart' /\ \A x \in ModelObjects : Own(x)'
<1>1. dest[o] = NoFile /\ partial[o] # NoFile /\ data[partial[o]] = WholeFile(o)
  BY DEF Own, Link
<1>2. dest' = [dest EXCEPT ![o] = partial[o]] /\ Goto(o, "unlink")
  BY <1>1 DEF Link
<1>3. UNCHANGED <<data, partial, handle>>
  BY DEF Link
<1>4. dest'[o] = partial[o] /\ \A x \in ModelObjects : x # o => dest'[x] = dest[x]
  BY <1>2 DEF TypeOK, Links
<1>5. step'[o] = "unlink" /\ \A x \in ModelObjects : x # o => step'[x] = step[x]
  BY <1>2 DEF TypeOK, Goto
<1>6. \A x \in ModelObjects : partial'[x] = partial[x]
  BY <1>3
<1>7. Apart'
  BY <1>1, <1>4, <1>6 DEF Apart
<1>8. Own(o)'
  BY <1>1, <1>3, <1>4, <1>5 DEF Own, WholeFile
<1>9. ASSUME NEW x \in ModelObjects, x # o
      PROVE  Own(x)'
  BY <1>3, <1>4, <1>5, <1>6, <1>9 DEF Own, WholeFile
<1>10. QED
  BY <1>7, <1>8, <1>9

(* The partial name is removed.                                            *)
LEMMA UnlinkStep ==
    ASSUME TypeOK, Apart, \A x \in ModelObjects : Own(x),
           NEW o \in ModelObjects, Unlink(o)
    PROVE  Apart' /\ \A x \in ModelObjects : Own(x)'
<1>1. CASE partial[o] = NoFile
  BY <1>1, OwnControl DEF Unlink, Goto, files
<1>2. CASE partial[o] # NoFile
  <2>1. partial' = [partial EXCEPT ![o] = NoFile] /\ Goto(o, "check")
    BY <1>2 DEF Unlink
  <2>2. UNCHANGED <<data, dest, handle>>
    BY DEF Unlink
  <2>3. partial'[o] = NoFile /\ \A x \in ModelObjects : x # o => partial'[x] = partial[x]
    BY <2>1, <2>2, OnePart
  <2>4. step'[o] = "check" /\ \A x \in ModelObjects : x # o => step'[x] = step[x]
    BY <2>1 DEF TypeOK, Goto
  <2>5. Apart'
    BY <2>2, <2>3 DEF Apart
  <2>6. Own(o)'
    BY <2>2, <2>4 DEF Own, WholeFile
  <2>7. ASSUME NEW x \in ModelObjects, x # o
        PROVE  Own(x)'
    BY <2>2, <2>3, <2>4, <2>7 DEF Own, WholeFile
  <2>8. QED
    BY <2>5, <2>6, <2>7
<1>3. QED
  BY <1>1, <1>2

(* No step mixes two objects.                                              *)
LEMMA FilesStep ==
    ASSUME Declared, TypeOK, Apart, \A x \in ModelObjects : Own(x), Next
    PROVE  Apart' /\ \A x \in ModelObjects : Own(x)'
<1>1. CASE Start
  BY <1>1, ApartKept, OwnKept DEF Start, download
<1>2. CASE Consider
  <2>1. next \in ModelObjects
    BY <1>2 DEF TypeOK, Consider, ModelObjects, Declared
  <2>2. CASE Verified(next)
    BY <1>2, <2>2, ApartKept, OwnKept DEF Consider
  <2>3. CASE ~Verified(next)
    BY <1>2, <2>1, <2>3, OwnControl DEF Consider
  <2>4. QED
    BY <2>2, <2>3
<1>3. CASE Serve
  <2>1. PICK how \in {"served", "failed"} : End(how)
    BY <1>3 DEF Serve
  <2>2. QED
    BY <1>3, <2>1, EndTypes, ApartKept, OwnEnded DEF Serve
<1>4. CASE Kill
  BY <1>4, EndTypes, ApartKept, OwnEnded DEF Kill
<1>5. ASSUME NEW o \in ModelObjects, Step(o)
      PROVE  Apart' /\ \A x \in ModelObjects : Own(x)'
  <2>1. CASE Join(o)
    <3>1. CASE step[o] = "ok"
      BY <2>1, <3>1, OwnControl DEF Join
    <3>2. CASE End("failed")
      BY <2>1, <3>2, EndTypes, ApartKept, OwnEnded DEF Join
    <3>3. QED
      BY <2>1, <3>1, <3>2 DEF Join
  <2>2. QED
    BY <1>5, <2>1, ControlStep, CreateStep, ReceiveStep, LinkStep, UnlinkStep DEF Step
<1>6. QED
  BY <1>1, <1>2, <1>3, <1>4, <1>5 DEF Next

-----------------------------------------------------------------------------
(* The theorems.                                                           *)

(* Every step keeps the inductive invariant.                               *)
LEMMA InvStep ==
    ASSUME Declared, IndInv, [Next]_vars
    PROVE  IndInv'
<1>1. CASE Next
  <2>1. TypeOK' /\ Dropped'
    BY <1>1, TypeStep, DroppedStep DEF IndInv
  <2>2. Apart' /\ \A x \in ModelObjects : Own(x)'
    BY <1>1, FilesStep DEF IndInv
  <2>3. QED
    BY <2>1, <2>2 DEF IndInv
<1>2. CASE UNCHANGED vars
  <2>1. UNCHANGED <<files, data, dest, partial, step, attempt, got, handle, main, next,
                    tainted, faults>>
    BY <1>2 DEF vars, files, download, worker
  <2>2. TypeOK' /\ Dropped'
    BY <2>1 DEF IndInv, TypeOK, Dropped, Verified, WholeFile
  <2>3. Apart' /\ \A x \in ModelObjects : Own(x)'
    BY <2>1, ApartKept, OwnKept DEF IndInv
  <2>4. QED
    BY <2>2, <2>3 DEF IndInv
<1>3. QED
  BY <1>1, <1>2

(* The inductive invariant holds at every moment.                          *)
THEOREM InvHolds ==
    ASSUME Declared
    PROVE  Spec => []IndInv
<1>1. Init => IndInv
  BY InitInv
<1>2. IndInv /\ [Next]_vars => IndInv'
  BY InvStep
<1>3. QED
  BY <1>1, <1>2, PTL DEF Spec

(***************************************************************************)
(* A worker that goes on to load the model has exactly the declared files, *)
(* and a file with an object's final name has the object's bytes at every  *)
(* moment (hydrate_model_object, validate_candidate_model_tree): for any   *)
(* number of files and any sizes, however many answers were wrong or       *)
(* broken off and wherever workers were killed.                            *)
(***************************************************************************)
THEOREM ServedTreeIsExact ==
    ASSUME Declared
    PROVE  Spec => []TreeExact
<1>1. IndInv => TreeExact
  BY DEF IndInv, Dropped, Own, TreeExact, Verified
<1>2. QED
  BY <1>1, InvHolds, PTL

-----------------------------------------------------------------------------
(* Results and the policy.                                                 *)

(* A sealed draft carries the conformance it is sealed with.               *)
LEMMA SealedConformance ==
    ASSUME NEW draft, NEW conformance
    PROVE  Sealed(draft, conformance).conformance = conformance
BY DEF Sealed

(* What seal loads is the result of a run that was measured for the        *)
(* candidate, with the vectors it lies beside, whatever was exchanged in   *)
(* the directory.                                                          *)
LEMMA LoadedMeasured ==
    ASSUME ConformanceInv, NEW c \in Candidates, NEW d \in Loaded(c)
    PROVE  \E e \in executions : /\ e.run = d.result.run
                                 /\ e.candidate = c
                                 /\ e.output = d.output
<1>1. /\ d \in Directories(c) /\ d.output = d.result.output
      /\ d.result.outcome = "completed" /\ d.result.candidate = c
  BY DEF Loaded, ResultValid
<1>2. PICK f : /\ d = f \/ d \in Alter(f)
               /\ \E p \in RunPrefixes, r \in RunIds : f \in Fetch(p, r, c)
  <2>1. PICK f \in UNION {Fetch(p, r, c) : p \in RunPrefixes, r \in RunIds} :
          d = f \/ d \in Alter(f)
    BY <1>1 DEF Directories
  <2>2. QED
    BY <2>1
<1>3. PICK p \in RunPrefixes, r \in RunIds : f \in Fetch(p, r, c)
  BY <1>2
<1>4. root[p].result[r] # <<>> /\ f.result = root[p].result[r][1]
  BY <1>3 DEF Fetch
<1>5. /\ f.result \in Results /\ f.result.run = r
      /\ MeasuredIn(r, f.result.candidate, f.result.output)
  BY <1>4 DEF ConformanceInv, ResultMeasured
<1>6. d.result = f.result
  <2>1. CASE d = f
    BY <2>1
  <2>2. CASE d \in Alter(f)
    <3>1. PICK how : d = [f EXCEPT !.output = how] \/
                     d = [f EXCEPT !.result.outcome = "failed", !.result.output = Unset]
      BY <2>2 DEF Alter
    <3>2. f = [result |-> f.result, output |-> f.output]
      BY <1>3 DEF Fetch
    <3>3. \A x \in Results : [x EXCEPT !.outcome = "failed", !.output = Unset].outcome = "failed"
      BY DEF Results
    <3>4. [f EXCEPT !.result.outcome = "failed", !.result.output = Unset].result.outcome = "failed"
      BY <1>5, <3>2, <3>3
    <3>5. QED
      BY <1>1, <3>1, <3>2, <3>4
  <2>3. QED
    BY <1>2, <2>1, <2>2
<1>7. QED
  BY <1>1, <1>5, <1>6 DEF MeasuredIn

(* What is sealed was measured on two Pods.                                *)
LEMMA SealStep ==
    ASSUME ConformanceInv, NEW c \in Candidates, NEW a \in Loaded(c), NEW b \in Loaded(c),
           NEW draft \in Drafts, SealPolicy(c, draft, a, b)
    PROVE  PolicyMeasured'
<1> DEFINE p == Sealed(draft, ConformanceFields(c, a.result, b.result))
<1>1. p.conformance = ConformanceFields(c, a.result, b.result)
  BY SealedConformance
<1>2. p.conformance.candidate = c /\ p.conformance.output = a.result.output
  BY <1>1 DEF ConformanceFields
<1>3. /\ policy' = <<p>> /\ PolicyBinds(p, Candidate(c)) /\ Replays(a.result, b.result)
      /\ a.output = b.output /\ executions' = executions
  BY DEF SealPolicy
<1>4. a.result.output = a.output
  BY DEF Loaded
<1>5. PICK x \in executions : x.run = a.result.run /\ x.candidate = c /\ x.output = a.output
  BY LoadedMeasured
<1>6. PICK y \in executions : y.run = b.result.run /\ y.candidate = c /\ y.output = b.output
  BY LoadedMeasured
<1>7. x.run # y.run /\ x.pod # y.pod
  BY <1>3, <1>5, <1>6 DEF Replays, ConformanceInv, RunOfPod
<1>8. /\ p.batch = Candidate(c).execution.batch
      /\ p.batch_tokens = Candidate(c).execution.batch_tokens
  BY <1>3 DEF PolicyBinds
<1> HIDE DEF p
<1>9. \A k \in DOMAIN policy' : policy'[k] = p
  BY <1>3
<1>10. QED
  BY <1>2, <1>3, <1>4, <1>5, <1>6, <1>7, <1>8, <1>9 DEF PolicyMeasured, Candidate

-----------------------------------------------------------------------------
(* The steps.                                                              *)

(* One Pod changes.                                                        *)
LEMMA PodChanged ==
    ASSUME pods \in Seq(Pods), NEW k \in DOMAIN pods, NEW x \in Pods,
           pods' = [pods EXCEPT ![k] = x]
    PROVE  /\ pods' \in Seq(Pods) /\ DOMAIN pods' = DOMAIN pods
           /\ pods[k] \in Pods /\ pods'[k] = x
           /\ \A m \in DOMAIN pods : m # k => pods'[m] = pods[m]
OBVIOUS

(* Every Pod works below one of the prefixes.                              *)
LEMMA PodPrefix ==
    ASSUME ConformanceTypeOK, NEW k \in DOMAIN pods
    PROVE  pods[k].prefix \in RunPrefixes
<1>1. pods[k] \in Pods
  BY DEF ConformanceTypeOK
<1>2. QED
  BY <1>1 DEF Pods

(* A Pod that goes on as it is, or does not publish what it measured.      *)
LEMMA PodKept ==
    ASSUME NEW k \in DOMAIN pods, PodMeasured(k), executions \subseteq executions',
           pods'[k].prefix = pods[k].prefix, pods'[k].run = pods[k].run,
           root'[pods[k].prefix].candidate = root[pods[k].prefix].candidate,
           \/ pods'[k].at \notin {"output", "result"}
           \/ pods[k].at \in {"output", "result"} /\ pods'[k].output = pods[k].output
    PROVE  PodMeasured(k)'
BY DEF PodMeasured

(* Results stay, and measurements are never forgotten.                     *)
LEMMA ResultsKept ==
    ASSUME NEW p, NEW r, ResultMeasured(p, r), executions \subseteq executions',
           root'[p].result[r] = root[p].result[r]
    PROVE  ResultMeasured(p, r)'
BY DEF ResultMeasured, MeasuredIn, Results, ExecutionId, Candidate

(* A Pod that is there keeps its run.                                      *)
LEMMA RunsKept ==
    ASSUME NEW e, RunOfPod(e), DOMAIN pods \subseteq DOMAIN pods',
           \A k \in DOMAIN pods : pods'[k].run = pods[k].run
    PROVE  RunOfPod(e)'
BY DEF RunOfPod

(* Nothing is staged or measured at first.                                 *)
LEMMA ConformanceInitInv == ConformanceInit => ConformanceInv
<1> SUFFICES ASSUME ConformanceInit PROVE ConformanceInv
  OBVIOUS
<1>1. ConformanceTypeOK
  <2>1. EmptyRoot \in Roots
    <3>1. [r \in RunIds |-> Unset] \in [RunIds -> Nat]
      BY DEF Unset
    <3>2. [r \in RunIds |-> <<>>] \in [RunIds -> Seq(Results)]
      OBVIOUS
    <3>3. QED
      BY <3>1, <3>2 DEF EmptyRoot, Roots
  <2>2. QED
    BY <2>1 DEF ConformanceInit, ConformanceTypeOK
<1>2. \A p \in RunPrefixes, r \in RunIds : ResultMeasured(p, r)
  BY DEF ConformanceInit, EmptyRoot, ResultMeasured
<1>3. QED
  BY <1>1, <1>2 DEF ConformanceInit, ConformanceInv, PolicyMeasured

(* A candidate is staged below a prefix that no Pod uses.                  *)
LEMMA StageStep ==
    ASSUME ConformanceInv, NEW p \in RunPrefixes, NEW c \in Candidates, Stage(p, c)
    PROVE  /\ ConformanceTypeOK' /\ \A k \in DOMAIN pods' : PodMeasured(k)'
           /\ \A q \in RunPrefixes, r \in RunIds : ResultMeasured(q, r)'
           /\ \A e \in executions' : RunOfPod(e)'
<1>1. /\ root[p].candidate = "none" /\ root' = [root EXCEPT ![p].candidate = c]
      /\ UNCHANGED <<pods, executions, containers>>
  BY DEF Stage
<1>2. ConformanceTypeOK /\ c \in DOMAIN Templates
  BY DEF ConformanceInv, Candidates
<1>3. ConformanceTypeOK'
  <2>1. root' \in [RunPrefixes -> Roots]
    BY <1>1, <1>2 DEF ConformanceTypeOK, Roots
  <2>2. QED
    BY <1>1, <1>2, <2>1 DEF ConformanceTypeOK
<1>4. \A q \in RunPrefixes : /\ root'[q].result = root[q].result
                             /\ q # p => root'[q].candidate = root[q].candidate
  BY <1>1, <1>2 DEF ConformanceTypeOK, Roots
<1>5. ASSUME NEW k \in DOMAIN pods
      PROVE  PodMeasured(k)'
  <2>1. pods[k].prefix \in RunPrefixes /\ pods[k].prefix # p
    BY <1>1, <1>2, PodPrefix DEF ConformanceInv, PodMeasured
  <2>2. QED
    BY <1>1, <1>4, <2>1 DEF ConformanceInv, PodMeasured
<1>6. QED
  BY <1>1, <1>3, <1>4, <1>5, ResultsKept, RunsKept DEF ConformanceInv

(* A Pod is created in its run, and its observation staged.                *)
LEMMA CreatePodStep ==
    ASSUME ConformanceInv, NEW p \in RunPrefixes, NEW r \in RunIds, CreatePod(p, r)
    PROVE  /\ ConformanceTypeOK' /\ \A k \in DOMAIN pods' : PodMeasured(k)'
           /\ \A q \in RunPrefixes, s \in RunIds : ResultMeasured(q, s)'
           /\ \A e \in executions' : RunOfPod(e)'
<1>1. ConformanceTypeOK /\ root[p].candidate # "none" /\ executions' = executions
  BY DEF ConformanceInv, CreatePod
<1>2. PICK new : /\ new = [prefix |-> p, run |-> r, at |-> "boot", seen |-> Unset,
                           output |-> Unset]
                 /\ pods' = Append(pods, new)
  BY DEF CreatePod
<1>3. new \in Pods
  BY <1>2 DEF Pods, Unset
<1>4. /\ pods' \in Seq(Pods) /\ Len(pods') \in Nat
      /\ DOMAIN pods' = DOMAIN pods \cup {Len(pods) + 1}
      /\ pods'[Len(pods) + 1] = new
      /\ \A k \in DOMAIN pods : pods'[k] = pods[k]
  BY <1>1, <1>2, <1>3 DEF ConformanceTypeOK
<1>5. PICK at \in Nat : root' = [root EXCEPT ![p].observation[r] = at]
  <2>1. root[p].observation[r] \in Nat
    BY <1>1 DEF ConformanceTypeOK, Roots
  <2>2. root' = [root EXCEPT ![p].observation[r] =
                    IF root[p].observation[r] = Unset THEN Len(pods')
                    ELSE root[p].observation[r]]
    BY DEF CreatePod
  <2>3. QED
    BY <1>4, <2>1, <2>2
<1>6. /\ root' \in [RunPrefixes -> Roots]
      /\ \A q \in RunPrefixes : /\ root'[q].result = root[q].result
                                /\ root'[q].candidate = root[q].candidate
  <2>1. [root[p].observation EXCEPT ![r] = at] \in [RunIds -> Nat]
    BY <1>1, <1>5 DEF ConformanceTypeOK, Roots
  <2>2. root' = [root EXCEPT ![p] = [root[p] EXCEPT
                    !.observation = [root[p].observation EXCEPT ![r] = at]]]
    BY <1>1, <1>5 DEF ConformanceTypeOK, Roots
  <2>3. QED
    BY <1>1, <2>1, <2>2 DEF ConformanceTypeOK, Roots
<1>7. ConformanceTypeOK'
  BY <1>1, <1>4, <1>6 DEF ConformanceTypeOK, CreatePod, ContainerStarts
<1>8. ASSUME NEW k \in DOMAIN pods'
      PROVE  PodMeasured(k)'
  <2>1. CASE k \in DOMAIN pods
    <3>1. pods[k].prefix \in RunPrefixes
      BY <1>1, <2>1, PodPrefix
    <3>2. QED
      BY <1>1, <1>4, <1>6, <2>1, <3>1 DEF ConformanceInv, PodMeasured
  <2>2. CASE pods'[k] = new
    <3>1. /\ pods'[k].prefix = p /\ pods'[k].at = "boot"
          /\ root'[p].candidate # "none"
      BY <1>1, <1>2, <1>6, <2>2
    <3>2. QED
      BY <3>1 DEF PodMeasured
  <2>3. QED
    BY <1>4, <1>8, <2>1, <2>2
<1>9. \A e \in executions' : RunOfPod(e)'
  BY <1>1, <1>4 DEF ConformanceInv, RunOfPod
<1>10. QED
  BY <1>1, <1>6, <1>7, <1>8, <1>9, ResultsKept DEF ConformanceInv

(* A Pod measures what it read, and remembers it.                          *)
LEMMA MeasureStep ==
    ASSUME ConformanceInv, NEW k \in DOMAIN pods, NEW output \in Outputs, Measure(k, output)
    PROVE  /\ ConformanceTypeOK' /\ \A m \in DOMAIN pods' : PodMeasured(m)'
           /\ \A q \in RunPrefixes, s \in RunIds : ResultMeasured(q, s)'
           /\ \A e \in executions' : RunOfPod(e)'
<1>1. ConformanceTypeOK /\ UNCHANGED <<root, containers>>
  BY DEF ConformanceInv, Measure
<1>2. PICK seen, c, e :
        /\ seen = root[pods[k].prefix].observation[pods[k].run]
        /\ c = root[pods[k].prefix].candidate
        /\ e = [pod |-> k, run |-> pods[k].run, output |-> output, candidate |-> c]
  OBVIOUS
<1>3. pods[k] \in Pods /\ k \in Nat
  BY <1>1 DEF ConformanceTypeOK
<1>4. seen \in Nat /\ c \in DOMAIN Templates
  <2>1. root[pods[k].prefix] \in Roots
    BY <1>1, <1>3 DEF ConformanceTypeOK, Pods
  <2>2. c # "none"
    BY <1>2 DEF ConformanceInv, PodMeasured
  <2>3. QED
    BY <1>2, <1>3, <2>1, <2>2 DEF Roots, Pods
<1>5. PICK x : x = [pods[k] EXCEPT !.at = "output", !.seen = seen, !.output = output]
  OBVIOUS
<1>6. x \in Pods /\ x.prefix = pods[k].prefix /\ x.run = pods[k].run /\ x.output = output
  BY <1>3, <1>4, <1>5 DEF Pods
<1>7. pods' = [pods EXCEPT ![k] = x] /\ executions' = executions \cup {e}
  BY <1>1, <1>2, <1>5 DEF Measure, ConformanceTypeOK
<1>8. /\ pods' \in Seq(Pods) /\ DOMAIN pods' = DOMAIN pods /\ pods'[k] = x
      /\ \A m \in DOMAIN pods : m # k => pods'[m] = pods[m]
  BY <1>1, <1>6, <1>7, PodChanged DEF ConformanceTypeOK
<1>9. ConformanceTypeOK'
  <2>1. e \in [pod : Nat, run : RunIds, output : Outputs, candidate : DOMAIN Templates]
    BY <1>2, <1>3, <1>4 DEF Pods
  <2>2. QED
    BY <1>1, <1>7, <1>8, <2>1 DEF ConformanceTypeOK
<1>10. ASSUME NEW m \in DOMAIN pods
       PROVE  PodMeasured(m)'
  <2>1. CASE m = k
    <3>1. pods'[m].prefix = pods[k].prefix /\ pods'[m].run = pods[k].run /\ pods'[m].output = output
      BY <1>6, <1>8, <2>1
    <3>2. root'[pods'[m].prefix].candidate = c /\ c # "none"
      BY <1>1, <1>2, <3>1 DEF ConformanceInv, PodMeasured
    <3>3. QED
      BY <1>2, <1>7, <2>1, <3>1, <3>2 DEF PodMeasured
  <2>2. CASE m # k
    BY <1>1, <1>7, <1>8, <2>2 DEF ConformanceInv, PodMeasured
  <2>3. QED
    BY <2>1, <2>2
<1>11. ASSUME NEW f \in executions'
       PROVE  RunOfPod(f)'
  <2>1. \A m \in DOMAIN pods : pods'[m].run = pods[m].run
    BY <1>6, <1>8
  <2>2. CASE f \in executions
    BY <1>8, <2>1, <2>2 DEF ConformanceInv, RunOfPod
  <2>3. CASE f = e
    BY <1>2, <1>8, <2>1, <2>3 DEF RunOfPod
  <2>4. QED
    BY <1>7, <1>11, <2>2, <2>3
<1>12. QED
  BY <1>1, <1>7, <1>8, <1>9, <1>10, <1>11, ResultsKept DEF ConformanceInv

(* A Pod that moves on with what it has, or starts over with nothing.      *)
LEMMA MoveStep ==
    ASSUME ConformanceInv, NEW k \in DOMAIN pods, NEW x \in Pods, pods' = [pods EXCEPT ![k] = x],
           executions' = executions, containers' \in Nat, root' \in [RunPrefixes -> Roots],
           x.prefix = pods[k].prefix, x.run = pods[k].run,
           \/ x.at \notin {"output", "result"}
           \/ pods[k].at \in {"output", "result"} /\ x.output = pods[k].output,
           \A q \in RunPrefixes : root'[q].candidate = root[q].candidate,
           \A q \in RunPrefixes, s \in RunIds : ResultMeasured(q, s)'
    PROVE  /\ ConformanceTypeOK' /\ \A m \in DOMAIN pods' : PodMeasured(m)'
           /\ \A q \in RunPrefixes, s \in RunIds : ResultMeasured(q, s)'
           /\ \A e \in executions' : RunOfPod(e)'
<1>1. ConformanceTypeOK
  BY DEF ConformanceInv
<1>2. /\ pods' \in Seq(Pods) /\ DOMAIN pods' = DOMAIN pods /\ pods'[k] = x
      /\ \A m \in DOMAIN pods : m # k => pods'[m] = pods[m]
  BY <1>1, PodChanged DEF ConformanceTypeOK
<1>3. ConformanceTypeOK'
  BY <1>1, <1>2 DEF ConformanceTypeOK
<1>4. ASSUME NEW m \in DOMAIN pods
      PROVE  PodMeasured(m)'
  <2>1. PodMeasured(m) /\ pods[m].prefix \in RunPrefixes
    BY <1>1, PodPrefix DEF ConformanceInv
  <2>2. QED
    BY <1>2, <2>1, PodKept
<1>5. \A e \in executions' : RunOfPod(e)'
  BY <1>2 DEF ConformanceInv, RunOfPod
<1>6. QED
  BY <1>2, <1>3, <1>4, <1>5

(* The output key takes the output of a Pod, or keeps what it has.         *)
LEMMA PublishOutputStep ==
    ASSUME ConformanceInv, NEW k \in DOMAIN pods, PublishOutput(k)
    PROVE  /\ ConformanceTypeOK' /\ \A m \in DOMAIN pods' : PodMeasured(m)'
           /\ \A q \in RunPrefixes, s \in RunIds : ResultMeasured(q, s)'
           /\ \A e \in executions' : RunOfPod(e)'
<1>1. ConformanceTypeOK /\ pods[k] \in Pods /\ pods[k].at = "output"
  BY DEF ConformanceInv, ConformanceTypeOK, PublishOutput
<1>2. PICK to \in {"result", "gone"} : Move(k, to)
  BY DEF PublishOutput
<1>3. PICK x : x = [pods[k] EXCEPT !.at = to]
  OBVIOUS
<1>4. x \in Pods /\ x.prefix = pods[k].prefix /\ x.run = pods[k].run /\ x.output = pods[k].output
  BY <1>1, <1>2, <1>3 DEF Pods
<1>5. pods' = [pods EXCEPT ![k] = x] /\ executions' = executions /\ containers' \in Nat
  BY <1>1, <1>2, <1>3 DEF Move, PublishOutput, ConformanceTypeOK
<1>6. /\ root' \in [RunPrefixes -> Roots]
      /\ \A q \in RunPrefixes : /\ root'[q].result = root[q].result
                                /\ root'[q].candidate = root[q].candidate
  <2>1. root \in [RunPrefixes -> Roots]
    BY <1>1 DEF ConformanceTypeOK
  <2>2. PICK p \in RunPrefixes, output \in Outputs \cup {Unset} :
          root' = root \/ root' = [root EXCEPT ![p].output = output]
    <3>1. pods[k].output \in Outputs \cup {Unset}
      BY <1>1 DEF Pods
    <3>2. QED
      BY <1>1, <3>1, PodPrefix DEF PublishOutput
  <2>3. CASE root' = root
    BY <2>1, <2>3
  <2>4. CASE root' = [root EXCEPT ![p].output = output]
    <3>1. PICK new : new = [root[p] EXCEPT !.output = output]
      OBVIOUS
    <3>2. /\ new \in Roots
          /\ new.result = root[p].result /\ new.candidate = root[p].candidate
      BY <2>1, <2>2, <3>1 DEF Roots
    <3>3. root' = [root EXCEPT ![p] = new]
      BY <2>1, <2>4, <3>1
    <3>4. QED
      BY <2>1, <3>2, <3>3
  <2>5. QED
    BY <2>2, <2>3, <2>4
<1>7. \A q \in RunPrefixes, s \in RunIds : ResultMeasured(q, s)'
  BY <1>5, <1>6, ResultsKept DEF ConformanceInv
<1>8. QED
  BY <1>1, <1>4, <1>5, <1>6, <1>7, MoveStep

(* The result that a Pod publishes says what it measured.                  *)
LEMMA PublishResultStep ==
    ASSUME ConformanceInv, NEW k \in DOMAIN pods, PublishResult(k)
    PROVE  /\ ConformanceTypeOK' /\ \A m \in DOMAIN pods' : PodMeasured(m)'
           /\ \A q \in RunPrefixes, s \in RunIds : ResultMeasured(q, s)'
           /\ \A e \in executions' : RunOfPod(e)'
<1>1. ConformanceTypeOK /\ pods[k] \in Pods /\ pods[k].at = "result"
  BY DEF ConformanceInv, ConformanceTypeOK, PublishResult
<1>2. PICK to \in {"done", "gone"} : Move(k, to)
  BY DEF PublishResult
<1>3. PICK x : x = [pods[k] EXCEPT !.at = to]
  OBVIOUS
<1>4. x \in Pods /\ x.prefix = pods[k].prefix /\ x.run = pods[k].run /\ x.at = to
  BY <1>1, <1>2, <1>3 DEF Pods
<1>5. pods' = [pods EXCEPT ![k] = x] /\ executions' = executions /\ containers' \in Nat
  BY <1>1, <1>2, <1>3 DEF Move, PublishResult, ConformanceTypeOK
<1>6. PICK p, r, c, output : /\ p \in RunPrefixes /\ p = pods[k].prefix
                             /\ r \in RunIds /\ r = pods[k].run
                             /\ c = root[p].candidate /\ output = pods[k].output
  BY <1>1 DEF Pods
<1>7. [pod |-> k, run |-> r, output |-> output, candidate |-> c] \in executions
  BY <1>1, <1>6 DEF ConformanceInv, PodMeasured
<1>8. c \in DOMAIN Templates /\ output \in Outputs /\ MeasuredIn(r, c, output)
  BY <1>1, <1>7 DEF ConformanceTypeOK, MeasuredIn
<1>9. PICK result : result = ResultOf(k)
  OBVIOUS
<1>10. /\ result \in Results
       /\ result.run = r /\ result.candidate = c /\ result.output = output
  BY <1>1, <1>6, <1>8, <1>9 DEF ResultOf, Results, Pods
<1>11. \/ root' = root
       \/ root' = [root EXCEPT ![p].result[r] = <<result>>]
  BY <1>6, <1>9 DEF PublishResult
<1>12. CASE root' = root
  <2>1. \A q \in RunPrefixes, s \in RunIds : ResultMeasured(q, s)'
    BY <1>5, <1>12, ResultsKept DEF ConformanceInv
  <2>2. root' \in [RunPrefixes -> Roots]
    BY <1>1, <1>12 DEF ConformanceTypeOK
  <2>3. QED
    BY <1>4, <1>5, <1>12, <2>1, <2>2, MoveStep
<1>13. CASE root' = [root EXCEPT ![p].result[r] = <<result>>]
  <2>1. <<result>> \in Seq(Results)
    BY <1>10
  <2>2. [root[p].result EXCEPT ![r] = <<result>>] \in [RunIds -> Seq(Results)]
    BY <1>1, <1>6, <2>1 DEF ConformanceTypeOK, Roots
  <2>3. root' = [root EXCEPT ![p] = [root[p] EXCEPT
                    !.result = [root[p].result EXCEPT ![r] = <<result>>]]]
    BY <1>1, <1>6, <1>13 DEF ConformanceTypeOK, Roots
  <2>4. /\ root' \in [RunPrefixes -> Roots]
        /\ \A q \in RunPrefixes : root'[q].candidate = root[q].candidate
    <3>1. PICK new : new = [root[p] EXCEPT
                               !.result = [root[p].result EXCEPT ![r] = <<result>>]]
      OBVIOUS
    <3>2. root[p] \in Roots
      BY <1>1, <1>6 DEF ConformanceTypeOK
    <3>3. new \in Roots /\ new.candidate = root[p].candidate
      BY <2>2, <3>1, <3>2 DEF Roots
    <3>4. root' = [root EXCEPT ![p] = new]
      BY <2>3, <3>1
    <3>5. QED
      BY <1>1, <1>6, <3>3, <3>4 DEF ConformanceTypeOK
  <2>5. /\ root'[p].result[r] = <<result>>
        /\ \A q \in RunPrefixes, s \in RunIds :
              q # p \/ s # r => root'[q].result[s] = root[q].result[s]
    BY <1>1, <1>6, <2>3 DEF ConformanceTypeOK, Roots
  <2>6. ASSUME NEW q \in RunPrefixes, NEW s \in RunIds
        PROVE  ResultMeasured(q, s)'
    <3>1. CASE q = p /\ s = r
      <4>1. result \in Results'
        BY <1>10 DEF Results, ExecutionId, Candidate
      <4>2. MeasuredIn(r, result.candidate, result.output)'
        BY <1>5, <1>8, <1>10 DEF MeasuredIn
      <4>3. QED
        BY <1>10, <2>5, <3>1, <4>1, <4>2 DEF ResultMeasured
    <3>2. CASE q # p \/ s # r
      BY <1>5, <2>5, <3>2, ResultsKept DEF ConformanceInv
    <3>3. QED
      BY <3>1, <3>2
  <2>7. QED
    BY <1>4, <1>5, <2>4, <2>6, MoveStep
<1>14. QED
  BY <1>11, <1>12, <1>13

(* A container that starts again has measured nothing yet.                 *)
LEMMA RestartStep ==
    ASSUME ConformanceInv, NEW k \in DOMAIN pods, Restart(k)
    PROVE  /\ ConformanceTypeOK' /\ \A m \in DOMAIN pods' : PodMeasured(m)'
           /\ \A q \in RunPrefixes, s \in RunIds : ResultMeasured(q, s)'
           /\ \A e \in executions' : RunOfPod(e)'
<1>1. ConformanceTypeOK /\ pods[k] \in Pods
  BY DEF ConformanceInv, ConformanceTypeOK
<1>2. PICK x : x = [pods[k] EXCEPT !.at = "boot", !.seen = Unset, !.output = Unset]
  OBVIOUS
<1>3. x \in Pods /\ x.prefix = pods[k].prefix /\ x.run = pods[k].run /\ x.at = "boot"
  BY <1>1, <1>2 DEF Pods, Unset
<1>4. /\ pods' = [pods EXCEPT ![k] = x] /\ UNCHANGED <<root, executions>>
      /\ containers' \in Nat /\ root' \in [RunPrefixes -> Roots]
  <2>1. pods' = [pods EXCEPT ![k] = x]
    BY <1>1, <1>2 DEF Restart, ConformanceTypeOK
  <2>2. containers' \in Nat
    BY <1>1 DEF Restart, ContainerStarts, ConformanceTypeOK
  <2>3. UNCHANGED <<root, executions>>
    BY DEF Restart
  <2>4. QED
    BY <1>1, <2>1, <2>2, <2>3 DEF ConformanceTypeOK
<1>5. \A q \in RunPrefixes, s \in RunIds : ResultMeasured(q, s)'
  BY <1>4, ResultsKept DEF ConformanceInv
<1>6. QED
  BY <1>3, <1>4, <1>5, MoveStep

-----------------------------------------------------------------------------
(* The theorems.                                                           *)

(* Every step keeps the inductive invariant.                               *)
LEMMA ConformanceInvStep ==
    ASSUME ConformanceInv, [ConformanceNext]_conformance_vars
    PROVE  ConformanceInv'
<1>1. ASSUME policy = <<>>, policy' = policy
      PROVE  PolicyMeasured'
  BY <1>1 DEF PolicyMeasured
<1>2. ASSUME NEW p \in RunPrefixes, NEW c \in Candidates, Stage(p, c), policy = <<>>
      PROVE  ConformanceInv'
  BY <1>1, <1>2, StageStep DEF Stage, ConformanceInv
<1>3. ASSUME NEW p \in RunPrefixes, NEW r \in RunIds, CreatePod(p, r), policy = <<>>
      PROVE  ConformanceInv'
  BY <1>1, <1>3, CreatePodStep DEF CreatePod, ConformanceInv
<1>4. ASSUME NEW k \in DOMAIN pods, PublishOutput(k) \/ PublishResult(k) \/ Restart(k), policy = <<>>
      PROVE  ConformanceInv'
  BY <1>1, <1>4, PublishOutputStep, PublishResultStep, RestartStep
     DEF PublishOutput, PublishResult, Restart, ConformanceInv
<1>5. ASSUME NEW k \in DOMAIN pods, NEW output \in Outputs, Measure(k, output), policy = <<>>
      PROVE  ConformanceInv'
  BY <1>1, <1>5, MeasureStep DEF Measure, ConformanceInv
<1>6. ASSUME NEW c \in Candidates, NEW a \in Loaded(c), NEW b \in Loaded(c),
             NEW draft \in Drafts, SealPolicy(c, draft, a, b)
      PROVE  ConformanceInv'
  <2>1. UNCHANGED <<root, pods, executions, containers>>
    BY <1>6 DEF SealPolicy
  <2>2. ConformanceTypeOK'
    BY <2>1 DEF ConformanceInv, ConformanceTypeOK, Roots, Results, ExecutionId, Candidate
  <2>3. QED
    BY <1>6, <2>1, <2>2, SealStep, ResultsKept, RunsKept DEF ConformanceInv, PodMeasured
<1>7. CASE UNCHANGED conformance_vars
  <2>1. UNCHANGED <<root, pods, policy, executions, containers>>
    BY <1>7 DEF conformance_vars
  <2>2. ConformanceTypeOK'
    BY <2>1 DEF ConformanceInv, ConformanceTypeOK, Roots, Results, ExecutionId, Candidate
  <2>3. PolicyMeasured'
    BY <2>1 DEF ConformanceInv, PolicyMeasured, Candidate
  <2>4. QED
    BY <2>1, <2>2, <2>3, ResultsKept, RunsKept DEF ConformanceInv, PodMeasured
<1>8. QED
  BY <1>2, <1>3, <1>4, <1>5, <1>6, <1>7 DEF ConformanceNext

(* The inductive invariant holds at every moment.                          *)
THEOREM ConformanceInvHolds == ConformanceSpec => []ConformanceInv
<1>1. ConformanceInv /\ [ConformanceNext]_conformance_vars => ConformanceInv'
  BY ConformanceInvStep
<1>2. QED
  BY <1>1, ConformanceInitInv, PTL DEF ConformanceSpec

(***************************************************************************)
(* A sealed policy was measured: two different Pods, in two different      *)
(* runs, computed the vectors it carries, for the candidate it names,      *)
(* whose engine limits are the policy's (seal_conformance_policy,          *)
(* conformance): for any candidates and drafts and any number of runs, and *)
(* although a Pod may read another's observation, run twice or share a     *)
(* prefix, and files of a fetched directory may be exchanged.              *)
(***************************************************************************)
THEOREM PoliciesAreMeasured == ConformanceSpec => []PolicyMeasured
<1>1. ConformanceInv => PolicyMeasured
  BY DEF ConformanceInv
<1>2. QED
  BY <1>1, ConformanceInvHolds, PTL
=============================================================================
