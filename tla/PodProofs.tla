------------------------------ MODULE PodProofs ------------------------------
(***************************************************************************)
(* Proofs about the Pod and about the host that supervises it:             *)
(* PodSupervisor for every limit, call duration, number of deletion        *)
(* attempts and number of failures, and RunpodWorker for every number of   *)
(* Pods, assignments, tasks, attempts, faults and byte strings.  The       *)
(* inductive invariants are stated at the end of the two modules.          *)
(***************************************************************************)
EXTENDS PodSupervisor, RunpodWorker, TLAPS

-----------------------------------------------------------------------------
(* The earlier of two limits and the later of two instants.                *)

LEMMA MinOfTwo ==
    ASSUME NEW a \in Int, NEW b \in Int
    PROVE  Min({a, b}) = IF a <= b THEN a ELSE b
  BY DEF Min

LEMMA MaxOfTwo ==
    ASSUME NEW a \in Int, NEW b \in Int
    PROVE  Max({a, b}) = IF a <= b THEN b ELSE a
  BY DEF Max

(* The minimum of three is one of them and no greater than any.            *)
LEMMA MinOfThree ==
    ASSUME NEW a \in Int, NEW b \in Int, NEW c \in Int
    PROVE  LET x == Min({a, b, c}) IN x \in {a, b, c} /\ x <= a /\ x <= b /\ x <= c
<1>1. \E x \in {a, b, c} : \A y \in {a, b, c} : x <= y
  OBVIOUS
<1>2. QED
  BY <1>1 DEF Min

(* The Limit of the watchdog and the bound of a round are integers.        *)
LEMMA LimitFacts ==
    /\ Limit = IF RuntimeLimit <= CostLimit THEN RuntimeLimit ELSE CostLimit
    /\ Limit \in Nat
  BY SupervisorAssumption, MinOfTwo DEF Limit

(* The instant the overrun is counted from, before and after a step.       *)
LEMMA BoundFacts ==
    ASSUME since \in Nat
    PROVE  WatchdogStart = IF Limit <= since THEN since ELSE Limit
  BY LimitFacts, MaxOfTwo DEF WatchdogStart

LEMMA BoundFactsNext ==
    ASSUME since' \in Nat
    PROVE  /\ WatchdogStart' = IF Limit <= since' THEN since' ELSE Limit
           /\ WatchdogStart' \in Nat /\ Limit <= WatchdogStart' /\ since' <= WatchdogStart'
<1>1. WatchdogStart' = Max({Limit, since'})
  BY DEF WatchdogStart, Limit
<1>2. QED
  BY <1>1, LimitFacts, MaxOfTwo

(* Three calls at most since the top of a round that began in time.        *)
LEMMA RoundSlack ==
    ASSUME NEW c \in Nat, NEW o \in Nat, NEW w \in Nat, o <= w,
           \/ c <= o \/ c <= o + MaxCall
           \/ c <= o + 2 * MaxCall \/ c <= o + 3 * MaxCall
    PROVE  c <= w + 3 * MaxCall
  BY SupervisorAssumption

(* A sleep that begins three calls after the top of the loop ends no later *)
(* than three calls after the limit.                                       *)
LEMMA SleepBound ==
    ASSUME NEW c \in Nat, NEW o \in Nat, o < RuntimeLimit, o < CostLimit,
           c <= o + 3 * MaxCall
    PROVE  LET s == Min({PollInterval, CostLimit - o, Max({0, RuntimeLimit - c})})
           IN  s \in Nat /\ c + s <= Limit + 3 * MaxCall
<1> DEFINE r == Max({0, RuntimeLimit - c})
           s == Min({PollInterval, CostLimit - o, r})
<1>1. r = IF 0 <= RuntimeLimit - c THEN RuntimeLimit - c ELSE 0
  BY SupervisorAssumption, MaxOfTwo
<1>2. r \in Nat /\ CostLimit - o \in Nat /\ PollInterval \in Nat
  BY <1>1, SupervisorAssumption
<1>3. s \in {PollInterval, CostLimit - o, r} /\ s <= CostLimit - o /\ s <= r
  <2> HIDE DEF r
  <2> QED
    BY <1>2, MinOfThree
<1> HIDE DEF r, s
<1>4. s \in Nat
  BY <1>2, <1>3
<1>5. c + s <= Limit + 3 * MaxCall
  BY <1>1, <1>3, <1>4, LimitFacts, SupervisorAssumption
<1>6. QED
  BY <1>4, <1>5 DEF r, s

-----------------------------------------------------------------------------
(* The inductive invariant.                                                *)

LEMMA SupervisorInitInv == SupervisorInit => SupervisorInv
<1> SUFFICES ASSUME SupervisorInit PROVE SupervisorInv
  OBVIOUS
<1>1. WorldType
  BY DEF SupervisorInit, WorldType
<1>2. HostType
  BY DEF SupervisorInit, HostType, HostSteps
<1>3. CountType /\ TriesLeft
  BY SupervisorAssumption DEF SupervisorInit, CountType, TriesLeft
<1>4. ReceiptsFirst /\ Progress /\ CompletedMarked /\ PodKnown
  BY DEF SupervisorInit, ReceiptsFirst, Progress, CompletedMarked, PodKnown, Alive,
         Created, Admission, Launched, Polling
<1>5. RoundBound /\ WatchdogBound /\ OkMeansDone /\ LeakedPodIsNamed
  BY DEF SupervisorInit, RoundBound, WatchdogBound, Polling, OkMeansDone, LeakedPodIsNamed
<1>6. QED
  BY <1>1, <1>2, <1>3, <1>4, <1>5 DEF SupervisorInv, SupervisorTypeOK

(* Every step preserves the invariant.                                     *)
LEMMA SupervisorStepInv == SupervisorInv /\ [SupervisorNext]_supervisor_vars => SupervisorInv'
<1> SUFFICES ASSUME SupervisorInv, [SupervisorNext]_supervisor_vars PROVE SupervisorInv'
  OBVIOUS
<1> USE SupervisorAssumption DEF HostSteps, Created, Admission, Launched, Polling
<1>0. /\ WorldType /\ HostType /\ CountType /\ ReceiptsFirst /\ Progress /\ TriesLeft
      /\ CompletedMarked /\ PodKnown /\ RoundBound
      /\ OkMeansDone /\ LeakedPodIsNamed /\ WatchdogBound
  BY DEF SupervisorInv, SupervisorTypeOK
<1>a. since \in Nat /\ WatchdogStart = IF Limit <= since THEN since ELSE Limit
  BY <1>0, BoundFacts DEF CountType
<1>1. CASE Schedule
  <2>1. HostType'
    BY <1>0, <1>1 DEF Schedule, Call, GoOn, HostType
  <2>2. CountType' /\ TriesLeft'
    BY <1>0, <1>1 DEF Schedule, Call, GoOn, CountType, TriesLeft
  <2>3. ReceiptsFirst' /\ Progress'
    BY <1>0, <1>1 DEF Schedule, Call, GoOn, ReceiptsFirst, Progress
  <2>4. WorldType' /\ CompletedMarked' /\ PodKnown'
    BY <1>0, <1>1 DEF Schedule, Call, GoOn, WorldType, CompletedMarked, Progress, PodKnown,
           Alive
  <2>5. RoundBound' /\ WatchdogBound'
    BY <1>0, <1>1 DEF Schedule, Call, GoOn, CountType, Progress, TriesLeft, RoundBound,
           WatchdogBound, WatchdogStart, Limit
  <2>6. OkMeansDone' /\ LeakedPodIsNamed'
    BY <1>0, <1>1 DEF Schedule, Call, GoOn, HostType, ReceiptsFirst, Progress,
           CompletedMarked, PodKnown, OkMeansDone, LeakedPodIsNamed, Alive
  <2>7. QED
    BY <2>1, <2>2, <2>3, <2>4, <2>5, <2>6
       DEF SupervisorInv, SupervisorTypeOK
<1>2. CASE ScheduleFails
  <2>1. HostType'
    BY <1>0, <1>2 DEF ScheduleFails, Call, Error, Abandon, HostType
  <2>2. CountType' /\ TriesLeft'
    BY <1>0, <1>2 DEF ScheduleFails, Call, Error, Abandon, CountType, TriesLeft
  <2>3. ReceiptsFirst' /\ Progress'
    BY <1>0, <1>2 DEF ScheduleFails, Call, Error, Abandon, ReceiptsFirst, Progress
  <2>4. WorldType' /\ CompletedMarked' /\ PodKnown'
    BY <1>0, <1>2 DEF ScheduleFails, Call, Error, Abandon, WorldType, CompletedMarked,
           Progress, PodKnown, Alive
  <2>5. RoundBound' /\ WatchdogBound'
    BY <1>0, <1>2 DEF ScheduleFails, Call, Error, Abandon, CountType, Progress, TriesLeft,
           RoundBound, WatchdogBound, WatchdogStart, Limit
  <2>6. OkMeansDone' /\ LeakedPodIsNamed'
    BY <1>0, <1>2 DEF ScheduleFails, Call, Error, Abandon, HostType, ReceiptsFirst, Progress,
           CompletedMarked, PodKnown, OkMeansDone, LeakedPodIsNamed, Alive
  <2>7. QED
    BY <2>1, <2>2, <2>3, <2>4, <2>5, <2>6
       DEF SupervisorInv, SupervisorTypeOK
<1>3. CASE WriteCreate
  <2>1. HostType'
    BY <1>0, <1>3 DEF WriteCreate, Write, Error, GoOn, HostType
  <2>2. CountType' /\ TriesLeft'
    BY <1>0, <1>3 DEF WriteCreate, Write, Error, GoOn, CountType, TriesLeft
  <2>3. ReceiptsFirst' /\ Progress'
    BY <1>0, <1>3 DEF WriteCreate, Write, Error, GoOn, ReceiptsFirst, Progress
  <2>4. WorldType' /\ CompletedMarked' /\ PodKnown'
    BY <1>0, <1>3 DEF WriteCreate, Write, Error, GoOn, WorldType, CompletedMarked, Progress,
           PodKnown, Alive
  <2>5. RoundBound' /\ WatchdogBound'
    BY <1>0, <1>3 DEF WriteCreate, Write, Error, GoOn, CountType, Progress, TriesLeft,
           RoundBound, WatchdogBound, WatchdogStart, Limit
  <2>6. OkMeansDone' /\ LeakedPodIsNamed'
    BY <1>0, <1>3 DEF WriteCreate, Write, Error, GoOn, HostType, ReceiptsFirst, Progress,
           CompletedMarked, PodKnown, OkMeansDone, LeakedPodIsNamed, Alive
  <2>7. QED
    BY <2>1, <2>2, <2>3, <2>4, <2>5, <2>6
       DEF SupervisorInv, SupervisorTypeOK
<1>4. CASE HashCreate
  <2>1. HostType'
    BY <1>0, <1>4 DEF HashCreate, Error, Abandon, HostType
  <2>2. CountType' /\ TriesLeft'
    BY <1>0, <1>4 DEF HashCreate, Error, Abandon, CountType, TriesLeft
  <2>3. ReceiptsFirst' /\ Progress'
    BY <1>0, <1>4 DEF HashCreate, Error, Abandon, ReceiptsFirst, Progress
  <2>4. WorldType' /\ CompletedMarked' /\ PodKnown'
    BY <1>0, <1>4 DEF HashCreate, Error, Abandon, WorldType, CompletedMarked, Progress,
           PodKnown, Alive
  <2>5. RoundBound' /\ WatchdogBound'
    BY <1>0, <1>4 DEF HashCreate, Error, Abandon, CountType, Progress, TriesLeft, RoundBound,
           WatchdogBound, WatchdogStart, Limit
  <2>6. OkMeansDone' /\ LeakedPodIsNamed'
    BY <1>0, <1>4 DEF HashCreate, Error, Abandon, HostType, ReceiptsFirst, Progress,
           CompletedMarked, PodKnown, OkMeansDone, LeakedPodIsNamed, Alive
  <2>7. QED
    BY <2>1, <2>2, <2>3, <2>4, <2>5, <2>6
       DEF SupervisorInv, SupervisorTypeOK
<1>5. CASE Admit
  <2>1. HostType'
    BY <1>0, <1>5 DEF Admit, Call, GoOn, HostType
  <2>2. CountType' /\ TriesLeft'
    BY <1>0, <1>5 DEF Admit, Call, GoOn, CountType, TriesLeft
  <2>3. ReceiptsFirst' /\ Progress'
    BY <1>0, <1>5 DEF Admit, Call, GoOn, ReceiptsFirst, Progress
  <2>4. WorldType' /\ CompletedMarked' /\ PodKnown'
    BY <1>0, <1>5 DEF Admit, Call, GoOn, WorldType, CompletedMarked, Progress, PodKnown, Alive
  <2>5. RoundBound' /\ WatchdogBound'
    BY <1>0, <1>5 DEF Admit, Call, GoOn, CountType, Progress, TriesLeft, RoundBound,
           WatchdogBound, WatchdogStart, Limit
  <2>6. OkMeansDone' /\ LeakedPodIsNamed'
    BY <1>0, <1>5 DEF Admit, Call, GoOn, HostType, ReceiptsFirst, Progress, CompletedMarked,
           PodKnown, OkMeansDone, LeakedPodIsNamed, Alive
  <2>7. QED
    BY <2>1, <2>2, <2>3, <2>4, <2>5, <2>6
       DEF SupervisorInv, SupervisorTypeOK
<1>6. CASE AdmitRejects
  <2>1. HostType'
    BY <1>0, <1>6 DEF AdmitRejects, Call, Error, GoOn, HostType
  <2>2. CountType' /\ TriesLeft'
    BY <1>0, <1>6 DEF AdmitRejects, Call, Error, GoOn, CountType, TriesLeft
  <2>3. ReceiptsFirst' /\ Progress'
    BY <1>0, <1>6 DEF AdmitRejects, Call, Error, GoOn, ReceiptsFirst, Progress
  <2>4. WorldType' /\ CompletedMarked' /\ PodKnown'
    BY <1>0, <1>6 DEF AdmitRejects, Call, Error, GoOn, WorldType, CompletedMarked, Progress,
           PodKnown, Alive
  <2>5. RoundBound' /\ WatchdogBound'
    BY <1>0, <1>6 DEF AdmitRejects, Call, Error, GoOn, CountType, Progress, TriesLeft,
           RoundBound, WatchdogBound, WatchdogStart, Limit
  <2>6. OkMeansDone' /\ LeakedPodIsNamed'
    BY <1>0, <1>6 DEF AdmitRejects, Call, Error, GoOn, HostType, ReceiptsFirst, Progress,
           CompletedMarked, PodKnown, OkMeansDone, LeakedPodIsNamed, Alive
  <2>7. QED
    BY <2>1, <2>2, <2>3, <2>4, <2>5, <2>6
       DEF SupervisorInv, SupervisorTypeOK
<1>7. CASE AdmitFails
  <2>1. HostType'
    BY <1>0, <1>7 DEF AdmitFails, Call, Error, GoOn, HostType
  <2>2. CountType' /\ TriesLeft'
    BY <1>0, <1>7 DEF AdmitFails, Call, Error, GoOn, CountType, TriesLeft
  <2>3. ReceiptsFirst' /\ Progress'
    BY <1>0, <1>7 DEF AdmitFails, Call, Error, GoOn, ReceiptsFirst, Progress
  <2>4. WorldType' /\ CompletedMarked' /\ PodKnown'
    BY <1>0, <1>7 DEF AdmitFails, Call, Error, GoOn, WorldType, CompletedMarked, Progress,
           PodKnown, Alive
  <2>5. RoundBound' /\ WatchdogBound'
    BY <1>0, <1>7 DEF AdmitFails, Call, Error, GoOn, CountType, Progress, TriesLeft,
           RoundBound, WatchdogBound, WatchdogStart, Limit
  <2>6. OkMeansDone' /\ LeakedPodIsNamed'
    BY <1>0, <1>7 DEF AdmitFails, Call, Error, GoOn, HostType, ReceiptsFirst, Progress,
           CompletedMarked, PodKnown, OkMeansDone, LeakedPodIsNamed, Alive
  <2>7. QED
    BY <2>1, <2>2, <2>3, <2>4, <2>5, <2>6
       DEF SupervisorInv, SupervisorTypeOK
<1>8. CASE AdmitWaits
  <2>1. HostType'
    BY <1>0, <1>8 DEF AdmitWaits, Call, GoOn, HostType
  <2>2. CountType' /\ TriesLeft'
    BY <1>0, <1>8 DEF AdmitWaits, Call, GoOn, CountType, TriesLeft
  <2>3. ReceiptsFirst' /\ Progress'
    BY <1>0, <1>8 DEF AdmitWaits, Call, GoOn, ReceiptsFirst, Progress
  <2>4. WorldType' /\ CompletedMarked' /\ PodKnown'
    BY <1>0, <1>8 DEF AdmitWaits, Call, GoOn, WorldType, CompletedMarked, Progress, PodKnown,
           Alive
  <2>5. RoundBound' /\ WatchdogBound'
    BY <1>0, <1>8 DEF AdmitWaits, Call, GoOn, CountType, Progress, TriesLeft, RoundBound,
           WatchdogBound, WatchdogStart, Limit
  <2>6. OkMeansDone' /\ LeakedPodIsNamed'
    BY <1>0, <1>8 DEF AdmitWaits, Call, GoOn, HostType, ReceiptsFirst, Progress,
           CompletedMarked, PodKnown, OkMeansDone, LeakedPodIsNamed, Alive
  <2>7. QED
    BY <2>1, <2>2, <2>3, <2>4, <2>5, <2>6
       DEF SupervisorInv, SupervisorTypeOK
<1>9. CASE AdmitSleeps
  <2>1. HostType'
    BY <1>0, <1>9 DEF AdmitSleeps, GoOn, HostType
  <2>2. CountType' /\ TriesLeft'
    BY <1>0, <1>9 DEF AdmitSleeps, GoOn, CountType, TriesLeft
  <2>3. ReceiptsFirst' /\ Progress'
    BY <1>0, <1>9 DEF AdmitSleeps, GoOn, ReceiptsFirst, Progress
  <2>4. WorldType' /\ CompletedMarked' /\ PodKnown'
    BY <1>0, <1>9 DEF AdmitSleeps, GoOn, WorldType, CompletedMarked, Progress, PodKnown, Alive
  <2>5. RoundBound' /\ WatchdogBound'
    BY <1>0, <1>9 DEF AdmitSleeps, GoOn, CountType, Progress, TriesLeft, RoundBound,
           WatchdogBound, WatchdogStart, Limit
  <2>6. OkMeansDone' /\ LeakedPodIsNamed'
    BY <1>0, <1>9 DEF AdmitSleeps, GoOn, HostType, ReceiptsFirst, Progress, CompletedMarked,
           PodKnown, OkMeansDone, LeakedPodIsNamed, Alive
  <2>7. QED
    BY <2>1, <2>2, <2>3, <2>4, <2>5, <2>6
       DEF SupervisorInv, SupervisorTypeOK
<1>10. CASE AdmitDelete
  <2>1. HostType'
    BY <1>0, <1>10 DEF AdmitDelete, Call, Error, HostType
  <2>2. CountType' /\ TriesLeft'
    BY <1>0, <1>10 DEF AdmitDelete, Call, Error, CountType, TriesLeft
  <2>3. ReceiptsFirst' /\ Progress'
    BY <1>0, <1>10 DEF AdmitDelete, Call, Error, ReceiptsFirst, Progress
  <2>4. WorldType' /\ CompletedMarked' /\ PodKnown'
    BY <1>0, <1>10 DEF AdmitDelete, Call, Error, WorldType, CompletedMarked, Progress,
           PodKnown, Alive
  <2>5. RoundBound' /\ WatchdogBound'
    BY <1>0, <1>10 DEF AdmitDelete, Call, Error, CountType, Progress, TriesLeft, RoundBound,
           WatchdogBound, WatchdogStart, Limit
  <2>6. OkMeansDone' /\ LeakedPodIsNamed'
    BY <1>0, <1>10 DEF AdmitDelete, Call, Error, HostType, ReceiptsFirst, Progress,
           CompletedMarked, PodKnown, OkMeansDone, LeakedPodIsNamed, Alive
  <2>7. QED
    BY <2>1, <2>2, <2>3, <2>4, <2>5, <2>6
       DEF SupervisorInv, SupervisorTypeOK
<1>11. CASE WriteLaunch
  <2>1. HostType'
    BY <1>0, <1>11 DEF WriteLaunch, Write, Error, GoOn, HostType
  <2>2. CountType' /\ TriesLeft'
    BY <1>0, <1>11 DEF WriteLaunch, Write, Error, GoOn, CountType, TriesLeft
  <2>3. ReceiptsFirst' /\ Progress'
    BY <1>0, <1>11 DEF WriteLaunch, Write, Error, GoOn, ReceiptsFirst, Progress
  <2>4. WorldType' /\ CompletedMarked' /\ PodKnown'
    BY <1>0, <1>11 DEF WriteLaunch, Write, Error, GoOn, WorldType, CompletedMarked, Progress,
           PodKnown, Alive
  <2>5. RoundBound' /\ WatchdogBound'
    BY <1>0, <1>11 DEF WriteLaunch, Write, Error, GoOn, CountType, Progress, TriesLeft,
           RoundBound, WatchdogBound, WatchdogStart, Limit
  <2>6. OkMeansDone' /\ LeakedPodIsNamed'
    BY <1>0, <1>11 DEF WriteLaunch, Write, Error, GoOn, HostType, ReceiptsFirst, Progress,
           CompletedMarked, PodKnown, OkMeansDone, LeakedPodIsNamed, Alive
  <2>7. QED
    BY <2>1, <2>2, <2>3, <2>4, <2>5, <2>6
       DEF SupervisorInv, SupervisorTypeOK
<1>12. CASE HashLaunch
  <2>1. HostType'
    BY <1>0, <1>12 DEF HashLaunch, GoOn, Error, Abandon, HostType
  <2>2. CountType' /\ TriesLeft'
    BY <1>0, <1>12 DEF HashLaunch, GoOn, Error, Abandon, CountType, TriesLeft
  <2>3. ReceiptsFirst' /\ Progress'
    BY <1>0, <1>12 DEF HashLaunch, GoOn, Error, Abandon, ReceiptsFirst, Progress
  <2>4. WorldType' /\ CompletedMarked' /\ PodKnown'
    BY <1>0, <1>12 DEF HashLaunch, GoOn, Error, Abandon, WorldType, CompletedMarked, Progress,
           PodKnown, Alive
  <2>5. RoundBound' /\ WatchdogBound'
    BY <1>0, <1>12 DEF HashLaunch, GoOn, Error, Abandon, CountType, Progress, TriesLeft,
           RoundBound, WatchdogBound, WatchdogStart, Limit
  <2>6. OkMeansDone' /\ LeakedPodIsNamed'
    BY <1>0, <1>12 DEF HashLaunch, GoOn, Error, Abandon, HostType, ReceiptsFirst, Progress,
           CompletedMarked, PodKnown, OkMeansDone, LeakedPodIsNamed, Alive
  <2>7. QED
    BY <2>1, <2>2, <2>3, <2>4, <2>5, <2>6
       DEF SupervisorInv, SupervisorTypeOK
<1>13. CASE StageObservation
  <2>1. HostType'
    BY <1>0, <1>13 DEF StageObservation, Call, GoOn, Error, HostType
  <2>2. CountType' /\ TriesLeft'
    BY <1>0, <1>13 DEF StageObservation, Call, GoOn, Error, CountType, TriesLeft
  <2>3. ReceiptsFirst' /\ Progress'
    BY <1>0, <1>13 DEF StageObservation, Call, GoOn, Error, ReceiptsFirst, Progress
  <2>4. WorldType' /\ CompletedMarked' /\ PodKnown'
    BY <1>0, <1>13 DEF StageObservation, Call, GoOn, Error, WorldType, CompletedMarked,
           Progress, PodKnown, Alive
  <2>5. RoundBound' /\ WatchdogBound'
    BY <1>0, <1>13 DEF StageObservation, Call, GoOn, Error, CountType, Progress, TriesLeft,
           RoundBound, WatchdogBound, WatchdogStart, Limit
  <2>6. OkMeansDone' /\ LeakedPodIsNamed'
    BY <1>0, <1>13 DEF StageObservation, Call, GoOn, Error, HostType, ReceiptsFirst, Progress,
           CompletedMarked, PodKnown, OkMeansDone, LeakedPodIsNamed, Alive
  <2>7. QED
    BY <2>1, <2>2, <2>3, <2>4, <2>5, <2>6
       DEF SupervisorInv, SupervisorTypeOK
<1>14. CASE HashBundle
  <2>1. HostType'
    BY <1>0, <1>14 DEF HashBundle, Error, Abandon, HostType
  <2>2. CountType' /\ TriesLeft'
    BY <1>0, <1>14 DEF HashBundle, Error, Abandon, CountType, TriesLeft
  <2>3. ReceiptsFirst' /\ Progress'
    BY <1>0, <1>14 DEF HashBundle, Error, Abandon, ReceiptsFirst, Progress
  <2>4. WorldType' /\ CompletedMarked' /\ PodKnown'
    BY <1>0, <1>14 DEF HashBundle, Error, Abandon, WorldType, CompletedMarked, Progress,
           PodKnown, Alive
  <2>5. /\ since' \in Nat /\ WatchdogStart' = IF Limit <= since' THEN since' ELSE Limit
        /\ WatchdogStart' \in Nat /\ Limit <= WatchdogStart' /\ since' <= WatchdogStart'
    BY <2>2, BoundFactsNext DEF CountType
  <2>6. host_pc' = "limits" => clock' <= WatchdogStart' + 3 * MaxCall
    <3> SUFFICES ASSUME host_pc' = "limits" PROVE clock' <= WatchdogStart' + 3 * MaxCall
      OBVIOUS
    <3>1. since' = clock'
      BY <1>14 DEF HashBundle, Abandon
    <3>2. /\ clock' \in Nat /\ WatchdogStart' \in Nat
          /\ clock' <= clock' /\ clock' <= WatchdogStart'
      BY <3>1, <2>2, <2>5 DEF CountType
    <3>3. QED
      BY <3>2, RoundSlack
  <2>7. RoundBound'
    BY <1>0, <1>14, <2>6 DEF HashBundle, Error, Abandon, RoundBound
  <2>8. WatchdogBound'
    BY <1>0, <1>14 DEF HashBundle, Error, Abandon, Progress, WatchdogBound
  <2>9. OkMeansDone' /\ LeakedPodIsNamed'
    BY <1>0, <1>14 DEF HashBundle, Error, Abandon, HostType, ReceiptsFirst, Progress,
           CompletedMarked, PodKnown, OkMeansDone, LeakedPodIsNamed, Alive
  <2>10. QED
    BY <2>1, <2>2, <2>3, <2>4, <2>6, <2>7, <2>8, <2>9
       DEF SupervisorInv, SupervisorTypeOK
<1>15. CASE CheckLimits
  <2>1. HostType'
    BY <1>0, <1>15 DEF CheckLimits, Break, HostType
  <2>2. CountType' /\ TriesLeft'
    BY <1>0, <1>15 DEF CheckLimits, Break, CountType, TriesLeft
  <2>3. ReceiptsFirst' /\ Progress'
    BY <1>0, <1>15 DEF CheckLimits, Break, ReceiptsFirst, Progress
  <2>4. WorldType' /\ CompletedMarked' /\ PodKnown'
    BY <1>0, <1>15 DEF CheckLimits, Break, WorldType, CompletedMarked, Progress, PodKnown,
           Alive
  <2>5. /\ since' \in Nat /\ WatchdogStart' = IF Limit <= since' THEN since' ELSE Limit
        /\ WatchdogStart' \in Nat /\ Limit <= WatchdogStart' /\ since' <= WatchdogStart'
    BY <2>2, BoundFactsNext DEF CountType
  <2>6. host_pc' \in Polling => /\ host_pc' = "completion" /\ observed' = clock'
                           /\ clock' < RuntimeLimit /\ clock' < CostLimit
    BY <1>0, <1>15 DEF CheckLimits, Break, CountType
  <2>7. host_pc' \in {"completion", "delete"}
    BY <1>15 DEF CheckLimits, Break
  <2>8. RoundBound'
    BY <2>6, <2>7 DEF RoundBound
  <2>9. WatchdogBound'
    BY <1>0, <1>15, <1>a, <2>2, <2>5, LimitFacts DEF CheckLimits, Break, CountType, Progress,
           RoundBound, WatchdogBound
  <2>10. OkMeansDone' /\ LeakedPodIsNamed'
    BY <1>0, <1>15 DEF CheckLimits, Break, HostType, ReceiptsFirst, Progress, CompletedMarked,
           PodKnown, OkMeansDone, LeakedPodIsNamed, Alive
  <2>11. QED
    BY <2>1, <2>2, <2>3, <2>4, <2>6, <2>7, <2>8, <2>9, <2>10
       DEF SupervisorInv, SupervisorTypeOK
<1>16. CASE PollCompletion
  <2>1. HostType'
    BY <1>0, <1>16 DEF PollCompletion, Call, Error, Break, GoOn, HostType
  <2>2. CountType' /\ TriesLeft'
    BY <1>0, <1>16 DEF PollCompletion, Call, Error, Break, GoOn, CountType, TriesLeft
  <2>3. ReceiptsFirst' /\ Progress'
    BY <1>0, <1>16 DEF PollCompletion, Call, Error, Break, GoOn, ReceiptsFirst, Progress
  <2>4. WorldType' /\ CompletedMarked' /\ PodKnown'
    BY <1>0, <1>16 DEF PollCompletion, Call, Error, Break, GoOn, WorldType, CompletedMarked,
           Progress, PodKnown, Alive
  <2>5. /\ since' \in Nat /\ WatchdogStart' = IF Limit <= since' THEN since' ELSE Limit
        /\ WatchdogStart' \in Nat /\ Limit <= WatchdogStart' /\ since' <= WatchdogStart'
    BY <2>2, BoundFactsNext DEF CountType
  <2>6. /\ observed' = observed /\ observed < RuntimeLimit /\ observed < CostLimit
        /\ clock' <= observed + MaxCall
    <3>1. /\ observed' = observed /\ observed < RuntimeLimit /\ observed < CostLimit
          /\ clock = observed /\ clock' \in clock .. clock + MaxCall
      BY <1>0, <1>16 DEF PollCompletion, Call, Error, Break, GoOn, RoundBound
    <3>2. QED
      BY <3>1, <1>0 DEF CountType
  <2>7. clock' <= WatchdogStart' + 3 * MaxCall
    <3>1. clock' \in Nat /\ observed \in Nat /\ WatchdogStart' \in Nat
      BY <1>0, <2>2, <2>5 DEF CountType
    <3>2. observed <= WatchdogStart'
      BY <2>6, <3>1, <2>5, LimitFacts
    <3>3. QED
      BY <3>1, <3>2, <2>6, RoundSlack
  <2>8. RoundBound'
    BY <1>0, <1>16, <2>2, <2>6, <2>7 DEF PollCompletion, Call, Error, Break, GoOn, CountType,
           RoundBound
  <2>9. WatchdogBound'
    BY <2>7 DEF WatchdogBound
  <2>10. OkMeansDone' /\ LeakedPodIsNamed'
    BY <1>0, <1>16 DEF PollCompletion, Call, Error, Break, GoOn, HostType, ReceiptsFirst,
           Progress, CompletedMarked, PodKnown, OkMeansDone, LeakedPodIsNamed, Alive
  <2>11. QED
    BY <2>1, <2>2, <2>3, <2>4, <2>6, <2>7, <2>8, <2>9, <2>10
       DEF SupervisorInv, SupervisorTypeOK
<1>17. CASE PollFailure
  <2>1. HostType'
    BY <1>0, <1>17 DEF PollFailure, Call, Error, Break, GoOn, HostType
  <2>2. CountType' /\ TriesLeft'
    BY <1>0, <1>17 DEF PollFailure, Call, Error, Break, GoOn, CountType, TriesLeft
  <2>3. ReceiptsFirst' /\ Progress'
    BY <1>0, <1>17 DEF PollFailure, Call, Error, Break, GoOn, ReceiptsFirst, Progress
  <2>4. WorldType' /\ CompletedMarked' /\ PodKnown'
    BY <1>0, <1>17 DEF PollFailure, Call, Error, Break, GoOn, WorldType, CompletedMarked,
           Progress, PodKnown, Alive
  <2>5. /\ since' \in Nat /\ WatchdogStart' = IF Limit <= since' THEN since' ELSE Limit
        /\ WatchdogStart' \in Nat /\ Limit <= WatchdogStart' /\ since' <= WatchdogStart'
    BY <2>2, BoundFactsNext DEF CountType
  <2>6. /\ observed' = observed /\ observed < RuntimeLimit /\ observed < CostLimit
        /\ clock' <= observed + 2 * MaxCall
    <3>1. /\ observed' = observed /\ observed < RuntimeLimit /\ observed < CostLimit
          /\ clock <= observed + MaxCall /\ clock' \in clock .. clock + MaxCall
      BY <1>0, <1>17 DEF PollFailure, Call, Error, Break, GoOn, RoundBound
    <3>2. QED
      BY <3>1, <1>0 DEF CountType
  <2>7. clock' <= WatchdogStart' + 3 * MaxCall
    <3>1. clock' \in Nat /\ observed \in Nat /\ WatchdogStart' \in Nat
      BY <1>0, <2>2, <2>5 DEF CountType
    <3>2. observed <= WatchdogStart'
      BY <2>6, <3>1, <2>5, LimitFacts
    <3>3. QED
      BY <3>1, <3>2, <2>6, RoundSlack
  <2>8. RoundBound'
    BY <1>0, <1>17, <2>2, <2>6, <2>7 DEF PollFailure, Call, Error, Break, GoOn, CountType,
           RoundBound
  <2>9. WatchdogBound'
    BY <2>7 DEF WatchdogBound
  <2>10. OkMeansDone' /\ LeakedPodIsNamed'
    BY <1>0, <1>17 DEF PollFailure, Call, Error, Break, GoOn, HostType, ReceiptsFirst,
           Progress, CompletedMarked, PodKnown, OkMeansDone, LeakedPodIsNamed, Alive
  <2>11. QED
    BY <2>1, <2>2, <2>3, <2>4, <2>6, <2>7, <2>8, <2>9, <2>10
       DEF SupervisorInv, SupervisorTypeOK
<1>18. CASE PollStatus
  <2>1. HostType'
    BY <1>0, <1>18 DEF PollStatus, Call, Error, Break, GoOn, HostType
  <2>2. CountType' /\ TriesLeft'
    BY <1>0, <1>18 DEF PollStatus, Call, Error, Break, GoOn, CountType, TriesLeft
  <2>3. ReceiptsFirst' /\ Progress'
    BY <1>0, <1>18 DEF PollStatus, Call, Error, Break, GoOn, ReceiptsFirst, Progress
  <2>4. WorldType' /\ CompletedMarked' /\ PodKnown'
    BY <1>0, <1>18 DEF PollStatus, Call, Error, Break, GoOn, WorldType, CompletedMarked,
           Progress, PodKnown, Alive
  <2>5. /\ since' \in Nat /\ WatchdogStart' = IF Limit <= since' THEN since' ELSE Limit
        /\ WatchdogStart' \in Nat /\ Limit <= WatchdogStart' /\ since' <= WatchdogStart'
    BY <2>2, BoundFactsNext DEF CountType
  <2>6. /\ observed' = observed /\ observed < RuntimeLimit /\ observed < CostLimit
        /\ clock' <= observed + 3 * MaxCall
    <3>1. /\ observed' = observed /\ observed < RuntimeLimit /\ observed < CostLimit
          /\ clock <= observed + 2 * MaxCall /\ clock' \in clock .. clock + MaxCall
      BY <1>0, <1>18 DEF PollStatus, Call, Error, Break, GoOn, RoundBound
    <3>2. QED
      BY <3>1, <1>0 DEF CountType
  <2>7. clock' <= WatchdogStart' + 3 * MaxCall
    <3>1. clock' \in Nat /\ observed \in Nat /\ WatchdogStart' \in Nat
      BY <1>0, <2>2, <2>5 DEF CountType
    <3>2. observed <= WatchdogStart'
      BY <2>6, <3>1, <2>5, LimitFacts
    <3>3. QED
      BY <3>1, <3>2, <2>6, RoundSlack
  <2>8. RoundBound'
    BY <1>0, <1>18, <2>2, <2>6, <2>7 DEF PollStatus, Call, Error, Break, GoOn, CountType,
           RoundBound
  <2>9. WatchdogBound'
    BY <2>7 DEF WatchdogBound
  <2>10. OkMeansDone' /\ LeakedPodIsNamed'
    BY <1>0, <1>18 DEF PollStatus, Call, Error, Break, GoOn, HostType, ReceiptsFirst,
           Progress, CompletedMarked, PodKnown, OkMeansDone, LeakedPodIsNamed, Alive
  <2>11. QED
    BY <2>1, <2>2, <2>3, <2>4, <2>6, <2>7, <2>8, <2>9, <2>10
       DEF SupervisorInv, SupervisorTypeOK
<1>19. CASE Sleep
  <2>1. clock' \in Nat /\ clock <= clock' /\ clock' <= Limit + 3 * MaxCall
    <3>1. /\ clock \in Nat /\ observed \in Nat /\ observed < RuntimeLimit
          /\ observed < CostLimit /\ clock <= observed + 3 * MaxCall
      BY <1>0, <1>19 DEF Sleep, CountType, RoundBound
    <3> DEFINE s == Min({PollInterval, CostLimit - observed, Max({0, RuntimeLimit - clock})})
    <3>2. s \in Nat /\ clock + s <= Limit + 3 * MaxCall
      BY <3>1, SleepBound
    <3>3. clock' = clock + s
      BY <1>19 DEF Sleep
    <3> HIDE DEF s
    <3>4. QED
      BY <3>1, <3>2, <3>3
  <2>2. HostType'
    BY <1>0, <1>19 DEF Sleep, GoOn, HostType
  <2>3. CountType' /\ TriesLeft'
    BY <1>0, <1>19, <2>1 DEF Sleep, GoOn, CountType, TriesLeft
  <2>4. ReceiptsFirst' /\ Progress'
    BY <1>0, <1>19 DEF Sleep, GoOn, ReceiptsFirst, Progress
  <2>5. WorldType' /\ CompletedMarked' /\ PodKnown'
    BY <1>0, <1>19 DEF Sleep, GoOn, WorldType, CompletedMarked, Progress, PodKnown, Alive
  <2>6. /\ since' \in Nat /\ WatchdogStart' = IF Limit <= since' THEN since' ELSE Limit
        /\ WatchdogStart' \in Nat /\ Limit <= WatchdogStart' /\ since' <= WatchdogStart'
    BY <2>3, BoundFactsNext DEF CountType
  <2>7. RoundBound'
    BY <1>0, <1>19, <1>a, <2>3, <2>6, <2>1, LimitFacts DEF Sleep, GoOn, CountType, RoundBound
  <2>8. WatchdogBound'
    BY <1>0, <1>19, <1>a, <2>3, <2>6, <2>1, LimitFacts DEF Sleep, GoOn, CountType, Progress,
           RoundBound, WatchdogBound
  <2>9. OkMeansDone' /\ LeakedPodIsNamed'
    BY <1>0, <1>19 DEF Sleep, GoOn, HostType, ReceiptsFirst, Progress, CompletedMarked,
           PodKnown, OkMeansDone, LeakedPodIsNamed, Alive
  <2>10. QED
    BY <2>1, <2>2, <2>3, <2>4, <2>5, <2>7, <2>8, <2>9
       DEF SupervisorInv, SupervisorTypeOK
<1>20. CASE DeletePod
  <2>1. HostType'
    BY <1>0, <1>20 DEF DeletePod, Call, Error, Deleted, HostType
  <2>2. CountType' /\ TriesLeft'
    BY <1>0, <1>20 DEF DeletePod, Call, Error, Deleted, CountType, TriesLeft
  <2>3. ReceiptsFirst' /\ Progress'
    BY <1>0, <1>20 DEF DeletePod, Call, Error, Deleted, ReceiptsFirst, Progress
  <2>4. WorldType' /\ CompletedMarked' /\ PodKnown'
    BY <1>0, <1>20 DEF DeletePod, Call, Error, Deleted, WorldType, CompletedMarked, Progress,
           PodKnown, Alive
  <2>5. RoundBound' /\ WatchdogBound'
    BY <1>0, <1>20 DEF DeletePod, Call, Error, Deleted, CountType, Progress, TriesLeft,
           RoundBound, WatchdogBound, WatchdogStart, Limit
  <2>6. OkMeansDone' /\ LeakedPodIsNamed'
    BY <1>0, <1>20 DEF DeletePod, Call, Error, Deleted, HostType, ReceiptsFirst, Progress,
           CompletedMarked, PodKnown, OkMeansDone, LeakedPodIsNamed, Alive
  <2>7. QED
    BY <2>1, <2>2, <2>3, <2>4, <2>5, <2>6
       DEF SupervisorInv, SupervisorTypeOK
<1>21. CASE WriteOut
  <2>1. HostType'
    BY <1>0, <1>21 DEF WriteOut, Error, HostType
  <2>2. CountType' /\ TriesLeft'
    BY <1>0, <1>21 DEF WriteOut, Error, CountType, TriesLeft
  <2>3. ReceiptsFirst' /\ Progress'
    BY <1>0, <1>21 DEF WriteOut, Error, ReceiptsFirst, Progress
  <2>4. WorldType' /\ CompletedMarked' /\ PodKnown'
    BY <1>0, <1>21 DEF WriteOut, Error, WorldType, CompletedMarked, Progress, PodKnown, Alive
  <2>5. RoundBound' /\ WatchdogBound'
    BY <1>0, <1>21 DEF WriteOut, Error, CountType, Progress, TriesLeft, RoundBound,
           WatchdogBound, WatchdogStart, Limit
  <2>6. OkMeansDone' /\ LeakedPodIsNamed'
    BY <1>0, <1>21 DEF WriteOut, Error, HostType, ReceiptsFirst, Progress, CompletedMarked,
           PodKnown, OkMeansDone, LeakedPodIsNamed, Alive
  <2>7. QED
    BY <2>1, <2>2, <2>3, <2>4, <2>5, <2>6
       DEF SupervisorInv, SupervisorTypeOK
<1>22. CASE HostDies
  <2>1. HostType'
    BY <1>0, <1>22 DEF HostDies, Error, HostType
  <2>2. CountType' /\ TriesLeft'
    BY <1>0, <1>22 DEF HostDies, Error, CountType, TriesLeft
  <2>3. ReceiptsFirst' /\ Progress'
    BY <1>0, <1>22 DEF HostDies, Error, ReceiptsFirst, Progress
  <2>4. WorldType' /\ CompletedMarked' /\ PodKnown'
    BY <1>0, <1>22 DEF HostDies, Error, WorldType, CompletedMarked, Progress, PodKnown, Alive
  <2>5. RoundBound' /\ WatchdogBound'
    BY <1>0, <1>22 DEF HostDies, Error, CountType, Progress, TriesLeft, RoundBound,
           WatchdogBound, WatchdogStart, Limit
  <2>6. OkMeansDone' /\ LeakedPodIsNamed'
    BY <1>0, <1>22 DEF HostDies, Error, HostType, ReceiptsFirst, Progress, CompletedMarked,
           PodKnown, OkMeansDone, LeakedPodIsNamed, Alive
  <2>7. QED
    BY <2>1, <2>2, <2>3, <2>4, <2>5, <2>6
       DEF SupervisorInv, SupervisorTypeOK
<1>23. CASE PodStarts
  <2>1. HostType'
    BY <1>0, <1>23 DEF PodStarts, host, HostType
  <2>2. CountType' /\ TriesLeft'
    BY <1>0, <1>23 DEF PodStarts, host, CountType, TriesLeft
  <2>3. ReceiptsFirst' /\ Progress'
    BY <1>0, <1>23 DEF PodStarts, host, ReceiptsFirst, Progress
  <2>4. WorldType' /\ CompletedMarked' /\ PodKnown'
    BY <1>0, <1>23 DEF PodStarts, host, WorldType, CompletedMarked, Progress, PodKnown, Alive
  <2>5. RoundBound' /\ WatchdogBound'
    BY <1>0, <1>23 DEF PodStarts, host, CountType, Progress, TriesLeft, RoundBound,
           WatchdogBound, WatchdogStart, Limit
  <2>6. OkMeansDone' /\ LeakedPodIsNamed'
    BY <1>0, <1>23 DEF PodStarts, host, HostType, ReceiptsFirst, Progress, CompletedMarked,
           PodKnown, OkMeansDone, LeakedPodIsNamed, Alive
  <2>7. QED
    BY <2>1, <2>2, <2>3, <2>4, <2>5, <2>6
       DEF SupervisorInv, SupervisorTypeOK
<1>24. CASE PodExits
  <2>1. HostType'
    BY <1>0, <1>24 DEF PodExits, host, HostType
  <2>2. CountType' /\ TriesLeft'
    BY <1>0, <1>24 DEF PodExits, host, CountType, TriesLeft
  <2>3. ReceiptsFirst' /\ Progress'
    BY <1>0, <1>24 DEF PodExits, host, ReceiptsFirst, Progress
  <2>4. WorldType' /\ CompletedMarked' /\ PodKnown'
    BY <1>0, <1>24 DEF PodExits, host, WorldType, CompletedMarked, Progress, PodKnown, Alive
  <2>5. RoundBound' /\ WatchdogBound'
    BY <1>0, <1>24 DEF PodExits, host, CountType, Progress, TriesLeft, RoundBound,
           WatchdogBound, WatchdogStart, Limit
  <2>6. OkMeansDone' /\ LeakedPodIsNamed'
    BY <1>0, <1>24 DEF PodExits, host, HostType, ReceiptsFirst, Progress, CompletedMarked,
           PodKnown, OkMeansDone, LeakedPodIsNamed, Alive
  <2>7. QED
    BY <2>1, <2>2, <2>3, <2>4, <2>5, <2>6
       DEF SupervisorInv, SupervisorTypeOK
<1>25. CASE PodTerminated
  <2>1. HostType'
    BY <1>0, <1>25 DEF PodTerminated, host, HostType
  <2>2. CountType' /\ TriesLeft'
    BY <1>0, <1>25 DEF PodTerminated, host, CountType, TriesLeft
  <2>3. ReceiptsFirst' /\ Progress'
    BY <1>0, <1>25 DEF PodTerminated, host, ReceiptsFirst, Progress
  <2>4. WorldType' /\ CompletedMarked' /\ PodKnown'
    BY <1>0, <1>25 DEF PodTerminated, host, WorldType, CompletedMarked, Progress, PodKnown,
           Alive
  <2>5. RoundBound' /\ WatchdogBound'
    BY <1>0, <1>25 DEF PodTerminated, host, CountType, Progress, TriesLeft, RoundBound,
           WatchdogBound, WatchdogStart, Limit
  <2>6. OkMeansDone' /\ LeakedPodIsNamed'
    BY <1>0, <1>25 DEF PodTerminated, host, HostType, ReceiptsFirst, Progress,
           CompletedMarked, PodKnown, OkMeansDone, LeakedPodIsNamed, Alive
  <2>7. QED
    BY <2>1, <2>2, <2>3, <2>4, <2>5, <2>6
       DEF SupervisorInv, SupervisorTypeOK
<1>26. CASE WorkerPublishes
  <2>1. HostType'
    BY <1>0, <1>26 DEF WorkerPublishes, host, HostType
  <2>2. CountType' /\ TriesLeft'
    BY <1>0, <1>26 DEF WorkerPublishes, host, CountType, TriesLeft
  <2>3. ReceiptsFirst' /\ Progress'
    BY <1>0, <1>26 DEF WorkerPublishes, host, ReceiptsFirst, Progress
  <2>4. WorldType' /\ CompletedMarked' /\ PodKnown'
    BY <1>0, <1>26 DEF WorkerPublishes, host, WorldType, CompletedMarked, Progress, PodKnown,
           Alive
  <2>5. RoundBound' /\ WatchdogBound'
    BY <1>0, <1>26 DEF WorkerPublishes, host, CountType, Progress, TriesLeft, RoundBound,
           WatchdogBound, WatchdogStart, Limit
  <2>6. OkMeansDone' /\ LeakedPodIsNamed'
    BY <1>0, <1>26 DEF WorkerPublishes, host, HostType, ReceiptsFirst, Progress,
           CompletedMarked, PodKnown, OkMeansDone, LeakedPodIsNamed, Alive
  <2>7. QED
    BY <2>1, <2>2, <2>3, <2>4, <2>5, <2>6
       DEF SupervisorInv, SupervisorTypeOK
<1>27. CASE UNCHANGED supervisor_vars
  BY <1>0, <1>27 DEF supervisor_vars, host, SupervisorInv, SupervisorTypeOK, WorldType, HostType, CountType, ReceiptsFirst,
     Progress, TriesLeft, CompletedMarked, PodKnown, RoundBound, OkMeansDone, LeakedPodIsNamed,
     WatchdogBound, WatchdogStart, Limit, Alive
<1>28. QED
  BY <1>1, <1>2, <1>3, <1>4, <1>5, <1>6, <1>7, <1>8, <1>9, <1>10, <1>11, <1>12, <1>13, <1>14,
     <1>15, <1>16, <1>17, <1>18, <1>19, <1>20, <1>21, <1>22, <1>23, <1>24, <1>25, <1>26, <1>27
     DEF SupervisorNext, HostStep

(* The invariant holds throughout.                                         *)
THEOREM IndInvHolds == SupervisorSpec => []SupervisorInv
<1>1. QED
  BY SupervisorInitInv, SupervisorStepInv, PTL DEF SupervisorSpec

(* Every variable keeps its type: the deletion attempts stay within their  *)
(* budget and the outcome is one the receipt may name.                     *)
THEOREM TypeCorrect == SupervisorSpec => []SupervisorTypeOK
<1>1. SupervisorInv => SupervisorTypeOK
  BY DEF SupervisorInv
<1>2. QED
  BY <1>1, IndInvHolds, PTL

(* pod create reports success only for a completed range, a deleted Pod    *)
(* and three receipts.                                                     *)
THEOREM SuccessMeansDone == SupervisorSpec => []OkMeansDone
<1>1. SupervisorInv => OkMeansDone
  BY DEF SupervisorInv
<1>2. QED
  BY <1>1, IndInvHolds, PTL

(* A Pod is left behind only for one of the recorded reasons, and a        *)
(* command that returned has named it.                                     *)
THEOREM LeaksHaveReasons == SupervisorSpec => []NoSilentLeak
<1>1. SupervisorInv => NoSilentLeak
  BY DEF SupervisorInv, PodKnown, NoSilentLeak, Alive
<1>2. QED
  BY <1>1, IndInvHolds, PTL

(* Supervision never asks for the deletion more than three calls after the *)
(* earlier limit or its own start.                                         *)
THEOREM WatchdogBounded == SupervisorSpec => []WatchdogBound
<1>1. SupervisorInv => WatchdogBound
  BY DEF SupervisorInv
<1>2. QED
  BY <1>1, IndInvHolds, PTL

-----------------------------------------------------------------------------
(* The worker in the Pods.                                                 *)

\* What one Pod may do, faults included.
PodStep(p) == Launch(p) \/ Restart(p) \/ Step(p) \/ ServiceError(p) \/ Crash(p)

\* No file of the volume is replaced.
FilesKept ==
    /\ \A t \in Tasks :
         /\ part[t] # None => part'[t] = part[t]
         /\ receipt[t] # None => receipt'[t] = receipt[t]
         /\ report[t] # None => report'[t] = report[t]
    /\ query # None => query' = query
    /\ \A a \in Assignments : marker[a] # None => marker'[a] = marker[a]

\* A step of one Pod leaves the memory of the others alone.
Framed(p) ==
    \A q \in Pods \ {p} :
        /\ pc'[q] = pc[q]
        /\ launch'[q] = launch[q]
        /\ at'[q] = at[q]
        /\ task'[q] = task[q]
        /\ hand'[q] = hand[q]
        /\ outputs'[q] = outputs[q]

-----------------------------------------------------------------------------
(* None is none of the values a file or a variable of a Pod may have.      *)
LEMMA NoneIsNoValue ==
    /\ None \notin Attempts /\ None \notin Variants /\ None \notin Receipts
    /\ None \notin Outputs /\ None \notin Markers /\ None \notin Launches
    /\ None \notin 1 .. MaxIds
  BY WorkerAssumption

(* The operator launches at the assignment after the marked ones.          *)
LEMMA FirstUnfinishedFacts ==
    ASSUME MarkedPrefix, \E a \in Assignments : marker[a] = None
    PROVE  /\ FirstUnfinished \in Assignments
           /\ \A b \in Assignments : b < FirstUnfinished => marker[b] # None
<1>1. PICK n \in 0 .. AssignmentCount : \A a \in Assignments : marker[a] # None <=> a <= n
  BY DEF MarkedPrefix
<1>2. n + 1 \in Assignments
  BY <1>1, WorkerAssumption DEF Assignments
<1>3. marker[n + 1] = None /\ \A b \in 1 .. (n + 1) - 1 : marker[b] # None
  BY <1>1, <1>2, WorkerAssumption DEF Assignments
<1>4. /\ FirstUnfinished \in Assignments
      /\ \A b \in 1 .. FirstUnfinished - 1 : marker[b] # None
  BY <1>2, <1>3 DEF FirstUnfinished
<1>5. QED
  BY <1>4, WorkerAssumption DEF Assignments

(* publish_no_overwrite: no step of a Pod replaces a file of the volume,   *)
(* or changes what another Pod's worker remembers.                         *)
LEMMA StepKeeps ==
    ASSUME TypeOK, NEW p \in Pods, PodStep(p)
    PROVE  FilesKept /\ Framed(p)
<1> USE DEF TypeOK, FilesKept, Framed, Goto, volume
<1>1. CASE Launch(p)
  BY <1>1 DEF Launch
<1>2. CASE Restart(p)
  BY <1>2 DEF Restart
<1>3. CASE Load(p)
  BY <1>3 DEF Load, Enter
<1>4. CASE CheckMarker(p)
  BY <1>4 DEF CheckMarker, Failure, NextAssignment, Enter
<1>5. CASE Conformance(p)
  BY <1>5 DEF Conformance
<1>6. CASE CheckQuery(p)
  BY <1>6 DEF CheckQuery
<1>7. CASE PublishQuery(p)
  BY <1>7 DEF PublishQuery, Failure
<1>8. CASE CheckTask(p)
  BY <1>8 DEF CheckTask, Failure, NextTask
<1>9. CASE Execute(p)
  BY <1>9, NoneIsNoValue DEF Execute, Failure, Current
<1>10. CASE PublishReceipt(p)
  BY <1>10 DEF PublishReceipt, Failure, Current
<1>11. CASE PublishReport(p)
  BY <1>11 DEF PublishReport, Failure, NextTask, Current
<1>12. CASE PublishMarker(p)
  BY <1>12 DEF PublishMarker, Failure, NextAssignment, Enter
<1>13. CASE ServiceError(p)
  BY <1>13 DEF ServiceError, Failure
<1>14. CASE Crash(p)
  BY <1>14 DEF Crash
<1>15. QED
  BY <1>1, <1>2, <1>3, <1>4, <1>5, <1>6, <1>7, <1>8, <1>9, <1>10, <1>11, <1>12,
     <1>13, <1>14 DEF PodStep, Step

(* So what holds of the other Pods' workers goes on holding.               *)
LEMMA OthersKept ==
    ASSUME IndInv, NEW p \in Pods, FilesKept, Framed(p), NEW q \in Pods \ {p}
    PROVE  InRange(q)' /\ Progressed(q)' /\ InHand(q)'
<1>0. TypeOK /\ InRange(q) /\ Progressed(q) /\ InHand(q)
  BY DEF IndInv
<1>1. /\ pc'[q] = pc[q] /\ launch'[q] = launch[q] /\ at'[q] = at[q] /\ task'[q] = task[q]
      /\ hand'[q] = hand[q] /\ outputs'[q] = outputs[q]
  BY DEF Framed
<1>2. InRange(q)'
  BY <1>0, <1>1 DEF InRange, FilesKept
<1>3. \A k \in TaskIndexes : << at[q], k >> \in Tasks
  BY <1>0 DEF TypeOK, Tasks
<1>4. Progressed(q)'
  <2>1. ASSUME NEW k \in TaskIndexes, Names(outputs[q][k], << at[q], k >>)
        PROVE  Names(outputs[q][k], << at[q], k >>)'
    BY <2>1, <1>1, <1>3 DEF FilesKept, Names, Reusable, Chained
  <2>2. query # None => query' # None
    BY DEF FilesKept
  <2>3. QED
    BY <1>0, <1>1, <2>1, <2>2 DEF Progressed
<1>5. InHand(q)'
  BY <1>0, <1>1, NoneIsNoValue DEF TypeOK, InHand, FilesKept, Current, Tasks, Receipts
<1>6. QED
  BY <1>2, <1>4, <1>5

-----------------------------------------------------------------------------
(* The parts of the invariant, one lemma each, one step per action.        *)

LEMMA InitInv == Init => IndInv
<1> SUFFICES ASSUME Init PROVE IndInv
  OBVIOUS
<1>1. TypeOK
  BY WorkerAssumption DEF Init, TypeOK, Assignments, TaskIndexes, Steps
<1>2. ArtifactsChained /\ MarkedExact
  BY DEF Init, ArtifactsChained, MarkedExact
<1>3. MarkedPrefix
  <2>1. 0 \in 0 .. AssignmentCount /\ \A a \in Assignments : marker[a] # None <=> a <= 0
    BY WorkerAssumption DEF Init, Assignments
  <2>2. QED
    BY <2>1 DEF MarkedPrefix
<1>4. \A p \in Pods : InRange(p) /\ Progressed(p) /\ InHand(p)
  BY DEF Init, InRange, Progressed, InHand, Opening, Tasking
<1>5. QED
  BY <1>1, <1>2, <1>3, <1>4 DEF IndInv

(* The types after the moves of the control state.                         *)
LEMMA FailureType ==
    ASSUME TypeOK, NEW p \in Pods, launch[p] # None, Failure(p)
    PROVE  pc' \in [Pods -> Steps] /\ failed' \in [Assignments \X Attempts -> BOOLEAN]
<1>1. launch[p].first \in Assignments /\ launch[p].attempt \in Attempts
  BY NoneIsNoValue DEF TypeOK, Launches
<1>2. QED
  BY <1>1 DEF TypeOK, Failure, Goto, Steps

LEMMA NextAssignmentType ==
    ASSUME TypeOK, NEW p \in Pods, launch[p] # None, at[p] <= launch[p].last,
           NextAssignment(p)
    PROVE  /\ pc' \in [Pods -> Steps]
           /\ at' \in [Pods -> Assignments]
           /\ task' \in [Pods -> TaskIndexes]
           /\ outputs' \in [Pods -> [TaskIndexes -> Outputs \cup {None}]]
<1>1. launch[p].last \in Assignments /\ at[p] \in Assignments
  BY NoneIsNoValue DEF TypeOK, Launches
<1>2. CASE at[p] = launch[p].last
  BY <1>2 DEF TypeOK, NextAssignment, Goto, Steps
<1>3. CASE at[p] # launch[p].last
  <2>1. at[p] + 1 \in Assignments /\ 1 \in TaskIndexes
    BY <1>1, <1>3, WorkerAssumption DEF Assignments, TaskIndexes
  <2>2. [k \in TaskIndexes |-> None] \in [TaskIndexes -> Outputs \cup {None}]
    OBVIOUS
  <2>3. /\ pc' = [pc EXCEPT ![p] = "marker"]
        /\ at' = [at EXCEPT ![p] = at[p] + 1]
        /\ task' = [task EXCEPT ![p] = 1]
        /\ outputs' = [outputs EXCEPT ![p] = [k \in TaskIndexes |-> None]]
    BY <1>3 DEF NextAssignment, Enter, Goto
  <2>4. QED
    BY <2>1, <2>2, <2>3 DEF TypeOK, Steps
<1>4. QED
  BY <1>2, <1>3

LEMMA NextTaskType ==
    ASSUME TypeOK, NEW p \in Pods, NEW output \in Outputs, NextTask(p, output)
    PROVE  /\ pc' \in [Pods -> Steps]
           /\ task' \in [Pods -> TaskIndexes]
           /\ outputs' \in [Pods -> [TaskIndexes -> Outputs \cup {None}]]
<1>1. pc' \in [Pods -> Steps]
  BY DEF TypeOK, NextTask, Goto, Steps
<1>2. task' \in [Pods -> TaskIndexes]
  BY WorkerAssumption DEF TypeOK, NextTask, TaskIndexes
<1>3. outputs' \in [Pods -> [TaskIndexes -> Outputs \cup {None}]]
  BY DEF TypeOK, NextTask
<1>4. QED
  BY <1>1, <1>2, <1>3

(* Every step keeps the types: no worker leaves its range of assignments.  *)
LEMMA TypeStep ==
    ASSUME IndInv, NEW p \in Pods, PodStep(p)
    PROVE  TypeOK'
<1> USE DEF TypeOK, Goto, volume
<1>0. /\ TypeOK /\ ArtifactsChained /\ MarkedPrefix
      /\ InRange(p) /\ Progressed(p) /\ InHand(p)
  BY DEF IndInv
<1>1. CASE Launch(p)
  BY <1>0, <1>1, FirstUnfinishedFacts, WorkerAssumption DEF Launch, Launches,
     Assignments, Steps
<1>2. CASE Restart(p)
  BY <1>0, <1>2 DEF Restart, Steps
<1>3. CASE Load(p)
  BY <1>0, <1>3, WorkerAssumption, NoneIsNoValue DEF Load, Enter, InRange, Launches,
     TaskIndexes, Steps
<1>4. CASE CheckMarker(p)
  <2>0. launch[p] # None /\ at[p] <= launch[p].last
    BY <1>0, <1>4 DEF CheckMarker, InRange
  <2>1. CASE marker[at[p]] = None
    BY <1>0, <1>4, <2>1 DEF CheckMarker, Steps
  <2>2. CASE marker[at[p]] # None /\ marker[at[p]].attempt = launch[p].attempt
    BY <1>0, <1>4, <2>0, <2>2, NextAssignmentType DEF CheckMarker
  <2>3. CASE marker[at[p]] # None /\ marker[at[p]].attempt # launch[p].attempt
    BY <1>0, <1>4, <2>0, <2>3, FailureType DEF CheckMarker
  <2>4. QED
    BY <2>1, <2>2, <2>3
<1>5. CASE Conformance(p)
  BY <1>0, <1>5 DEF Conformance, Steps
<1>6. CASE CheckQuery(p)
  BY <1>0, <1>6 DEF CheckQuery, Steps
<1>7. CASE PublishQuery(p)
  <2>0. launch[p] # None
    BY <1>0, <1>7 DEF PublishQuery, InRange
  <2>1. CASE query = None
    BY <1>0, <1>7, <2>1 DEF PublishQuery, Steps
  <2>2. CASE query # None
    BY <1>0, <1>7, <2>0, <2>2, FailureType DEF PublishQuery
  <2>3. QED
    BY <2>1, <2>2
<1>8. CASE CheckTask(p)
  <2>0. launch[p] # None
    BY <1>0, <1>8 DEF CheckTask, InRange
  <2>1. CASE ~ Reusable(Current(p))
    BY <1>0, <1>8, <2>1 DEF CheckTask, Steps
  <2>2. CASE Reusable(Current(p)) /\ Chained(Current(p))
    <3> DEFINE t == Current(p)
               output == [result |-> part[t], receipt |-> receipt[t].id, report |-> report[t]]
    <3>1. t \in Tasks
      BY <1>0 DEF Current, Tasks
    <3>2. output \in Outputs
      BY <1>0, <2>2, <3>1 DEF Reusable, Outputs, Receipts
    <3>3. NextTask(p, output)
      BY <1>8, <2>2 DEF CheckTask
    <3> HIDE DEF output
    <3>4. QED
      BY <1>0, <1>8, <2>2, <3>2, <3>3, NextTaskType DEF CheckTask
  <2>3. CASE Reusable(Current(p)) /\ ~ Chained(Current(p))
    BY <1>0, <1>8, <2>0, <2>3, FailureType DEF CheckTask
  <2>4. QED
    BY <2>1, <2>2, <2>3
<1>9. CASE Execute(p)
  <2>0. launch[p] # None
    BY <1>0, <1>9 DEF Execute, InRange
  <2>1. PICK v \in Variants, i \in 1 .. MaxIds :
          IF part[Current(p)] \in {None, v}
          THEN /\ part' = [part EXCEPT ![Current(p)] = v]
               /\ hand' = [hand EXCEPT ![p] = [id |-> i, vector |-> v]]
               /\ Goto(p, "publish_receipt")
               /\ UNCHANGED failed
          ELSE Failure(p) /\ UNCHANGED << part, hand >>
    BY <1>9 DEF Execute
  <2>2. CASE part[Current(p)] \in {None, v}
    <3>1. [id |-> i, vector |-> v] \in Receipts
      BY DEF Receipts
    <3>2. /\ part' \in [Tasks -> Variants \cup {None}]
          /\ hand' \in [Pods -> Receipts \cup {None}]
      BY <1>0, <2>1, <2>2, <3>1
    <3>3. QED
      BY <1>0, <1>9, <2>1, <2>2, <3>2 DEF Execute, Steps
  <2>3. CASE part[Current(p)] \notin {None, v}
    BY <1>0, <1>9, <2>0, <2>1, <2>3, FailureType DEF Execute
  <2>4. QED
    BY <2>2, <2>3
<1>10. CASE PublishReceipt(p)
  <2>0. launch[p] # None
    BY <1>0, <1>10 DEF PublishReceipt, InRange
  <2>1. CASE receipt[Current(p)] = None
    BY <1>0, <1>10, <2>1 DEF PublishReceipt, InHand, Steps
  <2>2. CASE receipt[Current(p)] # None
    BY <1>0, <1>10, <2>0, <2>2, FailureType DEF PublishReceipt
  <2>3. QED
    BY <2>1, <2>2
<1>11. CASE PublishReport(p)
  <2>0. launch[p] # None
    BY <1>0, <1>11 DEF PublishReport, InRange
  <2>1. hand' \in [Pods -> Receipts \cup {None}]
    BY <1>0, <1>11 DEF PublishReport
  <2>2. CASE report[Current(p)] = None
    <3> DEFINE t == Current(p)
               output == [result |-> part[t], receipt |-> receipt[t].id, report |-> hand[p].id]
    <3>1. t \in Tasks
      BY <1>0 DEF Current, Tasks
    <3>2. hand[p] \in Receipts /\ receipt[t] \in Receipts
      BY <1>0, <1>11 DEF PublishReport, InHand
    <3>3. part[t] \in Variants
      BY <1>0, <3>1, <3>2, NoneIsNoValue DEF ArtifactsChained, Receipts
    <3>4. output \in Outputs
      BY <3>2, <3>3 DEF Outputs, Receipts
    <3>5. NextTask(p, output)
      BY <1>11, <2>2 DEF PublishReport
    <3>6. report' \in [Tasks -> 1 .. MaxIds \cup {None}]
      BY <1>0, <1>11, <2>2, <3>2 DEF PublishReport, Receipts
    <3> HIDE DEF output
    <3>7. QED
      BY <1>0, <1>11, <2>1, <2>2, <3>4, <3>5, <3>6, NextTaskType DEF PublishReport
  <2>3. CASE report[Current(p)] # None
    BY <1>0, <1>11, <2>0, <2>1, <2>3, FailureType DEF PublishReport
  <2>4. QED
    BY <2>2, <2>3
<1>12. CASE PublishMarker(p)
  <2>0. launch[p] # None /\ at[p] <= launch[p].last
    BY <1>0, <1>12 DEF PublishMarker, InRange
  <2>1. CASE marker[at[p]] = None
    <3> DEFINE m == [attempt |-> launch[p].attempt, outputs |-> outputs[p],
                     query |-> IF at[p] = 1 THEN query ELSE None]
    <3>1. launch[p].attempt \in Attempts
      BY <1>0, <2>0 DEF Launches
    <3>2. m \in Markers
      BY <1>0, <3>1 DEF Markers
    <3>3. marker' = [marker EXCEPT ![at[p]] = m] /\ NextAssignment(p)
      BY <1>12, <2>1 DEF PublishMarker
    <3> HIDE DEF m
    <3>4. marker' \in [Assignments -> Markers \cup {None}]
      BY <1>0, <3>2, <3>3
    <3>5. QED
      BY <1>0, <1>12, <2>0, <2>1, <3>3, <3>4, NextAssignmentType DEF PublishMarker
  <2>2. CASE marker[at[p]] # None
    BY <1>0, <1>12, <2>0, <2>2, FailureType DEF PublishMarker
  <2>3. QED
    BY <2>1, <2>2
<1>13. CASE ServiceError(p)
  <2>0. launch[p] # None
    BY <1>0, <1>13 DEF ServiceError, InRange
  <2>1. QED
    BY <1>0, <1>13, <2>0, FailureType, WorkerAssumption DEF ServiceError
<1>14. CASE Crash(p)
  BY <1>0, <1>14, WorkerAssumption DEF Crash, Steps
<1>15. QED
  BY <1>1, <1>2, <1>3, <1>4, <1>5, <1>6, <1>7, <1>8, <1>9, <1>10, <1>11, <1>12,
     <1>13, <1>14 DEF PodStep, Step

(* A receipt follows its part and a report its receipt.                    *)
LEMMA ArtifactsStep ==
    ASSUME IndInv, NEW p \in Pods, PodStep(p)
    PROVE  ArtifactsChained'
<1>0. /\ TypeOK /\ ArtifactsChained /\ InHand(p) /\ Current(p) \in Tasks
  BY DEF IndInv, TypeOK, Current, Tasks
<1>1. CASE Execute(p)
  <2>1. /\ receipt' = receipt /\ report' = report
        /\ \/ part' = part
           \/ \E v \in Variants : /\ part[Current(p)] \in {None, v}
                                  /\ part' = [part EXCEPT ![Current(p)] = v]
    BY <1>1 DEF Execute
  <2>2. \A t \in Tasks : receipt[t] # None => part[t] # None
    BY <1>0, NoneIsNoValue DEF TypeOK, ArtifactsChained, Receipts
  <2>3. QED
    BY <1>0, <2>1, <2>2 DEF TypeOK, ArtifactsChained
<1>2. CASE PublishReceipt(p)
  BY <1>0, <1>2 DEF TypeOK, PublishReceipt, ArtifactsChained, InHand
<1>3. CASE PublishReport(p)
  BY <1>0, <1>3 DEF TypeOK, PublishReport, ArtifactsChained, InHand
<1>4. CASE UNCHANGED << part, receipt, report >>
  BY <1>0, <1>4 DEF ArtifactsChained
<1>5. QED
  BY <1>1, <1>2, <1>3, <1>4 DEF PodStep, Launch, Restart, Step, Load, CheckMarker,
     Conformance, CheckQuery, PublishQuery, CheckTask, PublishMarker, ServiceError,
     Crash, volume

(* A marker names what is there when it is published, and that stays.      *)
LEMMA MarkedStep ==
    ASSUME IndInv, NEW p \in Pods, PodStep(p), FilesKept
    PROVE  MarkedExact' /\ MarkedPrefix'
<1>0. /\ TypeOK /\ MarkedExact /\ MarkedPrefix /\ InRange(p) /\ Progressed(p)
      /\ \A a \in Assignments, k \in TaskIndexes : << a, k >> \in Tasks
  BY DEF IndInv, Tasks
<1>1. ASSUME NEW a \in Assignments, marker[a] # None
      PROVE  /\ marker'[a] = marker[a]
             /\ \A k \in TaskIndexes : Names(marker[a].outputs[k], << a, k >>)'
             /\ a = 1 => query' # None /\ marker'[a].query = query'
  <2>1. marker'[a] = marker[a]
    BY <1>1 DEF FilesKept
  <2>2. ASSUME NEW k \in TaskIndexes
        PROVE  Names(marker[a].outputs[k], << a, k >>)'
    <3>1. << a, k >> \in Tasks /\ Names(marker[a].outputs[k], << a, k >>)
      BY <1>0, <1>1 DEF MarkedExact
    <3>2. QED
      BY <2>1, <3>1 DEF FilesKept, Names, Reusable, Chained
  <2>3. a = 1 => query' # None /\ marker'[a].query = query'
    BY <1>0, <1>1, <2>1 DEF MarkedExact, FilesKept
  <2>4. QED
    BY <2>1, <2>2, <2>3
<1>2. CASE marker' = marker
  <2>1. MarkedExact'
    BY <1>1, <1>2 DEF MarkedExact
  <2>2. MarkedPrefix'
    BY <1>0, <1>2 DEF MarkedPrefix
  <2>3. QED
    BY <2>1, <2>2
<1>3. CASE PublishMarker(p) /\ marker[at[p]] = None
  <2> DEFINE m == [attempt |-> launch[p].attempt, outputs |-> outputs[p],
                   query |-> IF at[p] = 1 THEN query ELSE None]
  <2>1. /\ marker' = [marker EXCEPT ![at[p]] = m]
        /\ UNCHANGED << part, receipt, report, query >>
        /\ pc[p] = "publish_marker"
    BY <1>3 DEF PublishMarker
  <2>2. /\ m.outputs = outputs[p]
        /\ at[p] = 1 => m.query = query
        /\ at[p] \in Assignments
    BY <1>0 DEF TypeOK
  <2> HIDE DEF m
  <2>3. marker'[at[p]] = m /\ \A a \in Assignments \ {at[p]} : marker'[a] = marker[a]
    BY <1>0, <2>1 DEF TypeOK
  <2>4. MarkedExact'
    <3> SUFFICES ASSUME NEW a \in Assignments, marker'[a] # None
                 PROVE  /\ \A k \in TaskIndexes : Names(marker[a].outputs[k], << a, k >>)'
                        /\ a = 1 => query' # None /\ marker'[a].query = query'
      BY DEF MarkedExact
    <3>1. CASE a # at[p]
      BY <1>1, <2>3, <3>1
    <3>2. CASE a = at[p]
      <4>1. \A k \in TaskIndexes : Names(outputs[p][k], << a, k >>)
        BY <1>0, <2>1, <3>2 DEF Progressed
      <4>2. marker'[a].outputs = outputs[p]
        BY <2>2, <2>3, <3>2
      <4>3. \A k \in TaskIndexes : Names(marker[a].outputs[k], << a, k >>)'
        BY <2>1, <4>1, <4>2 DEF Names, Reusable, Chained
      <4>4. a = 1 => query' # None /\ marker'[a].query = query'
        BY <1>0, <2>1, <2>2, <2>3, <3>2 DEF Progressed
      <4>5. QED
        BY <4>3, <4>4
    <3>3. QED
      BY <3>1, <3>2
  <2>5. MarkedPrefix'
    <3>1. PICK n \in 0 .. AssignmentCount :
            \A a \in Assignments : marker[a] # None <=> a <= n
      BY <1>0 DEF MarkedPrefix
    <3>2. \A b \in Assignments : b < at[p] => marker[b] # None
      BY <1>0, <2>1 DEF InRange
    <3>3. at[p] = n + 1
      <4>1. at[p] > n
        BY <1>3, <2>2, <3>1, WorkerAssumption DEF Assignments
      <4>2. CASE n + 1 < at[p]
        <5>1. n + 1 \in Assignments
          BY <2>2, <4>2, WorkerAssumption DEF Assignments
        <5>2. QED
          BY <3>1, <3>2, <4>2, <5>1 DEF Assignments
      <4>3. QED
        BY <2>2, <4>1, <4>2 DEF Assignments
    <3>4. m # None
      <4>1. /\ outputs[p] \in [TaskIndexes -> Outputs \cup {None}]
            /\ launch[p].attempt \in Attempts
        BY <1>0, <2>1 DEF TypeOK, InRange, Launches
      <4>2. m \in Markers
        BY <1>0, <4>1 DEF TypeOK, Markers, m
      <4>3. QED
        BY <4>2, NoneIsNoValue
    <3>5. at[p] \in 0 .. AssignmentCount
          /\ \A a \in Assignments : marker'[a] # None <=> a <= at[p]
      BY <2>2, <2>3, <3>1, <3>3, <3>4, WorkerAssumption DEF Assignments
    <3>6. QED
      BY <3>5 DEF MarkedPrefix
  <2>6. QED
    BY <2>4, <2>5
<1>4. QED
  BY <1>2, <1>3 DEF PodStep, Launch, Restart, Step, Load, CheckMarker, Conformance,
     CheckQuery, PublishQuery, CheckTask, Execute, PublishReceipt, PublishReport,
     PublishMarker, ServiceError, Crash, volume

(* A worker enters an assignment only when all before it are marked.       *)
LEMMA InRangeStep ==
    ASSUME IndInv, NEW p \in Pods, PodStep(p), FilesKept
    PROVE  InRange(p)'
<1> USE DEF TypeOK, Goto, volume, InRange
<1>0. TypeOK /\ MarkedPrefix /\ InRange(p)
  BY DEF IndInv
<1>a. /\ p \in DOMAIN pc /\ p \in DOMAIN launch /\ p \in DOMAIN at
      /\ at[p] \in Assignments
      /\ \A a \in Assignments : marker[a] # None => marker'[a] # None
  BY <1>0 DEF FilesKept
<1>b. NextAssignment(p) /\ launch' = launch /\ pc[p] \notin {"off", "load"}
        /\ marker'[at[p]] # None => InRange(p)'
  <2> SUFFICES ASSUME NextAssignment(p), launch' = launch, pc[p] \notin {"off", "load"},
                      marker'[at[p]] # None
               PROVE  InRange(p)'
    OBVIOUS
  <2>1. /\ launch[p] \in Launches /\ launch[p].last \in Assignments /\ at[p] <= launch[p].last
        /\ \A b \in Assignments : b < launch[p].first => marker'[b] # None
    BY <1>0, <1>a DEF Launches
  <2>2. CASE at[p] = launch[p].last
    BY <1>0, <1>a, <2>1, <2>2 DEF NextAssignment
  <2>3. CASE at[p] # launch[p].last
    <3>1. at'[p] = at[p] + 1 /\ pc'[p] = "marker" /\ launch'[p] = launch[p]
      BY <1>0, <1>a, <2>3 DEF NextAssignment, Enter
    <3>2. at'[p] <= launch'[p].last
      BY <1>a, <2>1, <2>3, <3>1 DEF Assignments
    <3>3. \A b \in Assignments : b < at'[p] => marker'[b] # None
      <4>1. \A b \in Assignments : b < at[p] + 1 => b < at[p] \/ b = at[p]
        BY <1>a DEF Assignments
      <4>2. QED
        BY <1>0, <1>a, <3>1, <4>1
    <3>4. QED
      BY <1>0, <2>1, <3>1, <3>2, <3>3
  <2>4. QED
    BY <2>2, <2>3
<1>c. Failure(p) /\ launch' = launch /\ pc[p] # "off" => InRange(p)'
  BY <1>0, <1>a DEF Failure
<1>1. CASE Launch(p)
  <2>1. PICK last \in FirstUnfinished .. AssignmentCount, attempt \in Attempts :
          launch' = [launch EXCEPT ![p] =
                       [first |-> FirstUnfinished, last |-> last, attempt |-> attempt]]
    BY <1>1 DEF Launch
  <2>2. [first |-> FirstUnfinished, last |-> last, attempt |-> attempt] \in Launches
    BY <1>0, <1>1, FirstUnfinishedFacts, WorkerAssumption DEF Launch, Launches, Assignments
  <2>3. /\ launch'[p] # None /\ pc'[p] = "load"
        /\ launch'[p].first = FirstUnfinished /\ FirstUnfinished <= launch'[p].last
    BY <1>0, <1>1, <1>a, <2>1, <2>2, NoneIsNoValue DEF Launch, Launches, Assignments
  <2>4. QED
    BY <1>0, <1>1, <1>a, <2>3, FirstUnfinishedFacts DEF Launch
<1>2. CASE Restart(p)
  BY <1>0, <1>a, <1>2 DEF Restart
<1>3. CASE Load(p)
  <2>1. launch[p] \in Launches /\ launch'[p] = launch[p]
    BY <1>0, <1>3 DEF Load
  <2>2. at'[p] = launch[p].first /\ pc'[p] = "marker" /\ marker' = marker
    BY <1>0, <1>3, <1>a DEF Load, Enter
  <2>3. launch[p].first <= launch[p].last
    BY <1>0, <1>3 DEF Load
  <2>4. QED
    BY <1>0, <1>a, <2>1, <2>2, <2>3, NoneIsNoValue
<1>4. CASE CheckMarker(p)
  <2>1. CASE marker[at[p]] = None
    BY <1>0, <1>a, <1>4, <2>1 DEF CheckMarker
  <2>2. CASE marker[at[p]] # None
    BY <1>a, <1>b, <1>c, <1>4, <2>2 DEF CheckMarker
  <2>3. QED
    BY <2>1, <2>2
<1>5. CASE Conformance(p)
  BY <1>0, <1>a, <1>5 DEF Conformance
<1>6. CASE CheckQuery(p)
  BY <1>0, <1>a, <1>6 DEF CheckQuery
<1>7. CASE PublishQuery(p)
  <2>1. CASE Failure(p)
    BY <1>c, <1>7, <2>1 DEF PublishQuery
  <2>2. CASE ~ Failure(p)
    BY <1>0, <1>a, <1>7, <2>2 DEF PublishQuery
  <2>3. QED
    BY <2>1, <2>2
<1>8. CASE CheckTask(p)
  <2>1. CASE Failure(p)
    BY <1>c, <1>8, <2>1 DEF CheckTask
  <2>2. CASE ~ Failure(p)
    BY <1>0, <1>a, <1>8, <2>2 DEF CheckTask, NextTask
  <2>3. QED
    BY <2>1, <2>2
<1>9. CASE Execute(p)
  <2>1. CASE Failure(p)
    BY <1>c, <1>9, <2>1 DEF Execute
  <2>2. CASE ~ Failure(p)
    BY <1>0, <1>a, <1>9, <2>2 DEF Execute
  <2>3. QED
    BY <2>1, <2>2
<1>10. CASE PublishReceipt(p)
  <2>1. CASE Failure(p)
    BY <1>c, <1>10, <2>1 DEF PublishReceipt
  <2>2. CASE ~ Failure(p)
    BY <1>0, <1>a, <1>10, <2>2 DEF PublishReceipt
  <2>3. QED
    BY <2>1, <2>2
<1>11. CASE PublishReport(p)
  <2>1. CASE Failure(p)
    BY <1>c, <1>11, <2>1 DEF PublishReport
  <2>2. CASE ~ Failure(p)
    BY <1>0, <1>a, <1>11, <2>2 DEF PublishReport, NextTask
  <2>3. QED
    BY <2>1, <2>2
<1>12. CASE PublishMarker(p)
  <2>1. CASE marker[at[p]] = None
    <3>1. launch[p].attempt \in Attempts
      BY <1>0, <1>12 DEF PublishMarker, Launches
    <3>2. [attempt |-> launch[p].attempt, outputs |-> outputs[p],
           query |-> IF at[p] = 1 THEN query ELSE None] \in Markers
      BY <1>0, <3>1 DEF Markers
    <3>3. marker'[at[p]] # None
      BY <1>0, <1>a, <1>12, <2>1, <3>2, NoneIsNoValue DEF PublishMarker
    <3>4. QED
      BY <1>b, <1>12, <2>1, <3>3 DEF PublishMarker
  <2>2. CASE marker[at[p]] # None
    BY <1>c, <1>12, <2>2 DEF PublishMarker
  <2>3. QED
    BY <2>1, <2>2
<1>13. CASE ServiceError(p)
  BY <1>c, <1>13 DEF ServiceError
<1>14. CASE Crash(p)
  BY <1>0, <1>a, <1>14 DEF Crash
<1>15. QED
  BY <1>1, <1>2, <1>3, <1>4, <1>5, <1>6, <1>7, <1>8, <1>9, <1>10, <1>11, <1>12,
     <1>13, <1>14 DEF PodStep, Step

(* A worker goes past a task only over files that name one another.        *)
LEMMA ProgressedStep ==
    ASSUME IndInv, NEW p \in Pods, PodStep(p), FilesKept
    PROVE  Progressed(p)'
<1> USE DEF TypeOK, Goto, volume, Opening, Tasking
<1>0. TypeOK /\ ArtifactsChained /\ MarkedExact /\ InRange(p) /\ Progressed(p) /\ InHand(p)
  BY DEF IndInv
<1>a. /\ at[p] \in Assignments /\ task[p] \in TaskIndexes
      /\ \A k \in TaskIndexes : << at[p], k >> \in Tasks
      /\ query # None => query' # None
  BY <1>0 DEF Tasks, FilesKept
<1>b. pc'[p] \in {"off", "load"} => Progressed(p)'
  BY DEF Progressed
<1>c. Failure(p) => Progressed(p)'
  BY <1>0, <1>b DEF Failure
<1>d. NextAssignment(p) => Progressed(p)'
  BY <1>0, <1>b DEF NextAssignment, Enter, Progressed
<1>e. ASSUME NEW o, NEW t, t = << at[p], task[p] >>, Names(o, t)',
             NextTask(p, o), pc[p] \in Tasking, at' = at
      PROVE  Progressed(p)'
  <2>1. /\ at'[p] = at[p]
        /\ outputs'[p] = [outputs[p] EXCEPT ![task[p]] = o]
        /\ task'[p] = IF task[p] = TaskCount THEN task[p] ELSE task[p] + 1
        /\ pc'[p] = IF task[p] = TaskCount THEN "publish_marker" ELSE "task"
    BY <1>0, <1>e DEF NextTask
  <2>2. ASSUME NEW k \in TaskIndexes, k <= task[p]
        PROVE  Names(outputs[p][k], << at[p], k >>)'
    <3>1. CASE k = task[p]
      <4>1. outputs'[p][k] = o
        BY <1>0, <1>a, <2>1, <3>1
      <4>2. QED
        BY <1>e, <2>1, <3>1, <4>1 DEF Names, Reusable, Chained
    <3>2. CASE k # task[p]
      <4>1. k < task[p]
        BY <1>a, <2>2, <3>2 DEF TaskIndexes
      <4>2. Names(outputs[p][k], << at[p], k >>)
        BY <1>0, <1>e, <4>1 DEF Progressed
      <4>3. outputs'[p][k] = outputs[p][k]
        BY <1>0, <1>a, <2>1, <3>2
      <4>4. QED
        BY <1>a, <2>1, <4>2, <4>3 DEF FilesKept, Names, Reusable, Chained
    <3>3. QED
      BY <3>1, <3>2
  <2>3. at'[p] = 1 => query' # None
    BY <1>0, <1>a, <1>e, <2>1 DEF Progressed
  <2>4. CASE task[p] = TaskCount
    BY <2>1, <2>2, <2>3, <2>4, WorkerAssumption DEF Progressed, TaskIndexes
  <2>5. CASE task[p] # TaskCount
    <3>1. \A k \in TaskIndexes : k < task'[p] => k <= task[p]
      BY <1>a, <2>1, <2>5 DEF TaskIndexes
    <3>2. QED
      BY <2>1, <2>2, <2>3, <2>5, <3>1 DEF Progressed
  <2>6. QED
    BY <2>4, <2>5
<1>f. ASSUME pc'[p] \in Tasking, pc[p] \in Tasking, at'[p] = at[p], task'[p] = task[p],
             outputs'[p] = outputs[p]
      PROVE  Progressed(p)'
  <2>1. ASSUME NEW k \in TaskIndexes, k < task[p]
        PROVE  Names(outputs[p][k], << at[p], k >>)'
    <3>1. Names(outputs[p][k], << at[p], k >>)
      BY <1>0, <1>f, <2>1 DEF Progressed
    <3>2. QED
      BY <1>a, <1>f, <3>1 DEF FilesKept, Names, Reusable, Chained
  <2>2. QED
    BY <1>0, <1>a, <1>f, <2>1 DEF Progressed
<1>1. CASE Launch(p)
  BY <1>0, <1>b, <1>1 DEF Launch
<1>2. CASE Restart(p)
  BY <1>0, <1>b, <1>2 DEF Restart
<1>3. CASE Load(p)
  BY <1>0, <1>3 DEF Load, Enter, Progressed
<1>4. CASE CheckMarker(p)
  <2>1. CASE marker[at[p]] = None
    BY <1>0, <1>4, <2>1 DEF CheckMarker, Progressed
  <2>2. CASE marker[at[p]] # None
    BY <1>c, <1>d, <1>4, <2>2 DEF CheckMarker
  <2>3. QED
    BY <2>1, <2>2
<1>5. CASE Conformance(p)
  <2>1. /\ pc[p] \in Opening /\ task'[p] = 1 /\ UNCHANGED << at, query >>
        /\ pc'[p] \in Opening \/ (pc'[p] = "task" /\ (at[p] = 1 => query # None))
    BY <1>0, <1>5 DEF Conformance, Progressed
  <2>2. \A k \in TaskIndexes : ~ (k < 1)
    BY DEF TaskIndexes
  <2>3. QED
    BY <2>1, <2>2 DEF Progressed
<1>6. CASE CheckQuery(p)
  <2>1. /\ pc[p] \in Opening /\ task'[p] = 1 /\ UNCHANGED << at, query >>
        /\ pc'[p] \in Opening \/ (pc'[p] = "task" /\ (at[p] = 1 => query # None))
    BY <1>0, <1>6 DEF CheckQuery, Progressed
  <2>2. \A k \in TaskIndexes : ~ (k < 1)
    BY DEF TaskIndexes
  <2>3. QED
    BY <2>1, <2>2 DEF Progressed
<1>7. CASE PublishQuery(p)
  <2>1. CASE query = None
    <3>1. task'[p] = 1 /\ pc'[p] = "task" /\ query' # None
      BY <1>0, <1>7, <2>1, NoneIsNoValue DEF PublishQuery, Progressed
    <3>2. \A k \in TaskIndexes : ~ (k < 1)
      BY DEF TaskIndexes
    <3>3. QED
      BY <3>1, <3>2 DEF Progressed
  <2>2. CASE query # None
    BY <1>c, <1>7, <2>2 DEF PublishQuery
  <2>3. QED
    BY <2>1, <2>2
<1>8. CASE CheckTask(p)
  <2>1. CASE ~ Reusable(Current(p))
    BY <1>0, <1>f, <1>8, <2>1 DEF CheckTask
  <2>2. CASE Reusable(Current(p)) /\ Chained(Current(p))
    <3>0. PICK t : t = << at[p], task[p] >>
      OBVIOUS
    <3> DEFINE output == [result |-> part[t], receipt |-> receipt[t].id, report |-> report[t]]
    <3>1. NextTask(p, output) /\ UNCHANGED << part, receipt, report, at >>
      BY <1>8, <2>2, <3>0 DEF CheckTask, Current
    <3>2. Names(output, t)
      BY <2>2, <3>0 DEF Names, Current
    <3>3. PICK x : x = output
      OBVIOUS
    <3>4. NextTask(p, x) /\ Names(x, t)'
      BY <3>1, <3>2, <3>3 DEF Names, Reusable, Chained
    <3>5. QED
      BY <1>e, <1>8, <3>0, <3>1, <3>4 DEF CheckTask
  <2>3. CASE Reusable(Current(p)) /\ ~ Chained(Current(p))
    BY <1>c, <1>8, <2>3 DEF CheckTask
  <2>4. QED
    BY <2>1, <2>2, <2>3
<1>9. CASE Execute(p)
  <2>1. CASE Failure(p)
    BY <1>c, <2>1
  <2>2. CASE ~ Failure(p)
    BY <1>0, <1>f, <1>9, <2>2 DEF Execute
  <2>3. QED
    BY <2>1, <2>2
<1>10. CASE PublishReceipt(p)
  <2>1. CASE Failure(p)
    BY <1>c, <2>1
  <2>2. CASE ~ Failure(p)
    BY <1>0, <1>f, <1>10, <2>2 DEF PublishReceipt
  <2>3. QED
    BY <2>1, <2>2
<1>11. CASE PublishReport(p)
  <2>1. CASE report[Current(p)] = None
    <3>0. PICK t : t = << at[p], task[p] >>
      OBVIOUS
    <3> DEFINE output == [result |-> part[t], receipt |-> receipt[t].id, report |-> hand[p].id]
    <3>1. /\ NextTask(p, output) /\ UNCHANGED << part, receipt, at >>
          /\ report' = [report EXCEPT ![t] = hand[p].id]
      BY <1>11, <2>1, <3>0 DEF PublishReport, Current
    <3>2. t \in Tasks /\ hand[p] \in Receipts /\ receipt[t] = hand[p]
      BY <1>0, <1>a, <1>11, <3>0 DEF PublishReport, InHand, Current
    <3>3. report'[t] = hand[p].id /\ hand[p].id \in 1 .. MaxIds /\ hand[p].vector \in Variants
      BY <1>0, <3>1, <3>2 DEF Receipts
    <3>4. part[t] = hand[p].vector
      BY <1>0, <3>2, NoneIsNoValue DEF ArtifactsChained
    <3>5. PICK x : x = output
      OBVIOUS
    <3>6. Names(x, t)'
      BY <3>1, <3>2, <3>3, <3>4, <3>5, NoneIsNoValue DEF Names, Reusable, Chained
    <3>7. NextTask(p, x)
      BY <3>1, <3>5
    <3>8. QED
      BY <1>e, <1>11, <3>0, <3>1, <3>6, <3>7 DEF PublishReport
  <2>2. CASE report[Current(p)] # None
    BY <1>c, <1>11, <2>2 DEF PublishReport
  <2>3. QED
    BY <2>1, <2>2
<1>12. CASE PublishMarker(p)
  BY <1>c, <1>d, <1>12 DEF PublishMarker
<1>13. CASE ServiceError(p)
  BY <1>c, <1>13 DEF ServiceError
<1>14. CASE Crash(p)
  BY <1>0, <1>b, <1>14 DEF Crash
<1>15. QED
  BY <1>1, <1>2, <1>3, <1>4, <1>5, <1>6, <1>7, <1>8, <1>9, <1>10, <1>11, <1>12,
     <1>13, <1>14 DEF PodStep, Step

(* The receipt in hand is of the part on the volume, then the one there.   *)
LEMMA InHandStep ==
    ASSUME IndInv, NEW p \in Pods, PodStep(p)
    PROVE  InHand(p)'
<1> USE DEF TypeOK, Goto, volume, InHand
<1>0. TypeOK /\ InHand(p) /\ Current(p) \in Tasks
  BY DEF IndInv, Current, Tasks
<1>a. pc'[p] \notin {"publish_receipt", "publish_report"} => InHand(p)'
  OBVIOUS
<1>1. CASE Launch(p)
  BY <1>0, <1>a, <1>1 DEF Launch
<1>2. CASE Restart(p)
  BY <1>0, <1>a, <1>2 DEF Restart
<1>3. CASE Load(p)
  BY <1>0, <1>a, <1>3 DEF Load, Enter
<1>4. CASE CheckMarker(p)
  BY <1>0, <1>a, <1>4 DEF CheckMarker, Failure, NextAssignment, Enter
<1>5. CASE Conformance(p)
  BY <1>0, <1>a, <1>5 DEF Conformance
<1>6. CASE CheckQuery(p)
  BY <1>0, <1>a, <1>6 DEF CheckQuery
<1>7. CASE PublishQuery(p)
  BY <1>0, <1>a, <1>7 DEF PublishQuery, Failure
<1>8. CASE CheckTask(p)
  BY <1>0, <1>a, <1>8 DEF CheckTask, Failure, NextTask
<1>9. CASE Execute(p)
  <2>1. CASE Failure(p)
    BY <1>0, <1>a, <2>1 DEF Failure
  <2>2. CASE ~ Failure(p)
    <3>1. PICK v \in Variants, i \in 1 .. MaxIds :
            /\ part' = [part EXCEPT ![Current(p)] = v]
            /\ hand' = [hand EXCEPT ![p] = [id |-> i, vector |-> v]]
            /\ pc' = [pc EXCEPT ![p] = "publish_receipt"]
      BY <1>9, <2>2 DEF Execute
    <3>2. [id |-> i, vector |-> v] \in Receipts /\ Current(p)' = Current(p)
      BY <1>9 DEF Receipts, Execute, Current
    <3>3. QED
      BY <1>0, <3>1, <3>2, NoneIsNoValue
  <2>3. QED
    BY <2>1, <2>2
<1>10. CASE PublishReceipt(p)
  <2>1. CASE receipt[Current(p)] = None
    <3>1. Current(p)' = Current(p)
      BY <1>10 DEF PublishReceipt, Current
    <3>2. QED
      BY <1>0, <1>10, <2>1, <3>1 DEF PublishReceipt
  <2>2. CASE receipt[Current(p)] # None
    BY <1>0, <1>a, <1>10, <2>2 DEF PublishReceipt, Failure
  <2>3. QED
    BY <2>1, <2>2
<1>11. CASE PublishReport(p)
  BY <1>0, <1>a, <1>11 DEF PublishReport, Failure, NextTask
<1>12. CASE PublishMarker(p)
  BY <1>0, <1>a, <1>12 DEF PublishMarker, Failure, NextAssignment, Enter
<1>13. CASE ServiceError(p)
  BY <1>0, <1>a, <1>13 DEF ServiceError, Failure
<1>14. CASE Crash(p)
  BY <1>0, <1>a, <1>14 DEF Crash
<1>15. QED
  BY <1>1, <1>2, <1>3, <1>4, <1>5, <1>6, <1>7, <1>8, <1>9, <1>10, <1>11, <1>12,
     <1>13, <1>14 DEF PodStep, Step

(* IndInv is inductive.                                                    *)
LEMMA StepInv == IndInv /\ [Next]_vars => IndInv'
<1> SUFFICES ASSUME IndInv, [Next]_vars PROVE IndInv'
  OBVIOUS
<1>1. CASE UNCHANGED vars
  BY <1>1 DEF IndInv, TypeOK, ArtifactsChained, MarkedExact, MarkedPrefix, InRange,
     Progressed, InHand, Names, Reusable, Chained, Current, vars, volume
<1>2. ASSUME NEW p \in Pods, PodStep(p)
      PROVE  IndInv'
  <2>1. FilesKept /\ Framed(p)
    BY <1>2, StepKeeps DEF IndInv
  <2>2. TypeOK' /\ ArtifactsChained' /\ MarkedExact' /\ MarkedPrefix'
    BY <1>2, <2>1, TypeStep, ArtifactsStep, MarkedStep
  <2>3. InRange(p)' /\ Progressed(p)' /\ InHand(p)'
    BY <1>2, <2>1, InRangeStep, ProgressedStep, InHandStep
  <2>4. \A q \in Pods \ {p} : InRange(q)' /\ Progressed(q)' /\ InHand(q)'
    BY <2>1, OthersKept
  <2>5. QED
    BY <2>2, <2>3, <2>4 DEF IndInv
<1>3. QED
  BY <1>1, <1>2 DEF Next, PodStep

(* MarkersSound follows.                                                   *)
LEMMA InvImpliesMarkersSound == IndInv => MarkersSound
<1> SUFFICES ASSUME IndInv PROVE MarkersSound
  OBVIOUS
<1>1. \A t \in Tasks : Reusable(t) => Chained(t)
  BY DEF IndInv, ArtifactsChained, Reusable, Chained
<1>2. ASSUME NEW a \in Assignments, marker[a] # None
      PROVE  /\ \A k \in TaskIndexes : Names(marker[a].outputs[k], << a, k >>)
             /\ a = 1 => marker[a].query = query
  BY <1>2 DEF IndInv, MarkedExact
<1>3. ASSUME NEW a \in Assignments, marker[a] # None, NEW b \in 1 .. a - 1
      PROVE  marker[b] # None
  <2>1. PICK n \in 0 .. AssignmentCount : \A c \in Assignments : marker[c] # None <=> c <= n
    BY DEF IndInv, MarkedPrefix
  <2>2. QED
    BY <1>3, <2>1, WorkerAssumption DEF Assignments
<1>4. QED
  BY <1>1, <1>2, <1>3 DEF MarkersSound, Names

-----------------------------------------------------------------------------
(* The theorems.                                                           *)

(* Every behaviour of the Pods keeps the inductive invariant.              *)
THEOREM InvHolds == Spec => []IndInv
  BY InitInv, StepInv, PTL DEF Spec

(* However many Pods run at the same time and wherever they die, completed *)
(* markers name exactly the files on the volume, appear in bundle order,   *)
(* and reusable_output never refuses what earlier workers left.            *)
THEOREM WorkerMarkersSound == Spec => []MarkersSound
  BY InvHolds, InvImpliesMarkersSound, PTL

(* publish_no_overwrite: no step of any Pod replaces a part, a receipt, a  *)
(* report, the query vectors or a marker that is on the volume.            *)
THEOREM FilesNeverReplaced == Spec => [][FilesKept]_vars
<1>1. IndInv /\ [Next]_vars => [FilesKept]_vars
  BY StepKeeps DEF IndInv, Next, PodStep
<1>2. QED
  BY <1>1, InvHolds, PTL DEF Spec
=============================================================================
