-------------------------- MODULE EmbedTaskProofs --------------------------
(***************************************************************************)
(* Proofs about EmbedTask for every number of rows, batch size, slot count *)
(* and retry budget.  The inductive invariant IndInv is stated at the end  *)
(* of EmbedTask.                                                           *)
(***************************************************************************)
EXTENDS EmbedTask, FiniteSetTheorems, SequenceTheorems, TLAPS

-----------------------------------------------------------------------------
(* Arithmetic of batches and rows.                                         *)

(* Integer division of naturals, as used by div_ceil.                      *)
LEMMA DivLemma ==
    ASSUME NEW a \in Nat, NEW d \in Nat \ {0}
    PROVE  /\ a \div d \in Nat
           /\ (a \div d) * d <= a
           /\ a < (a \div d) * d + d
  OBVIOUS

(* total_batches is the least number of batches that covers the rows.      *)
LEMMA TotalBatchesFacts ==
    /\ TotalBatches \in Nat \ {0}
    /\ (TotalBatches - 1) * BatchSize < RowCount
    /\ RowCount <= TotalBatches * BatchSize
<1> DEFINE a == RowCount + BatchSize - 1
<1>1. a \in Nat /\ BatchSize \in Nat \ {0} /\ RowCount \in Nat \ {0}
  BY OptionsAssumption
<1>2. /\ a \div BatchSize \in Nat
      /\ (a \div BatchSize) * BatchSize <= a
      /\ a < (a \div BatchSize) * BatchSize + BatchSize
  BY <1>1, DivLemma
<1>3. QED
  BY <1>1, <1>2 DEF TotalBatches

(* The slices of the batches partition the rows in order.                  *)
LEMMA RowsBeforeFacts ==
    /\ RowsBefore(0) = 0
    /\ RowsBefore(TotalBatches) = RowCount
    /\ \A b \in Nat : RowsBefore(b) \in 0 .. RowCount
    /\ \A b \in Nat : RowsBefore(b) <= RowsBefore(b + 1)
    /\ \A b, c \in Nat : b <= c => RowsBefore(b) <= RowsBefore(c)
<1>1. BatchSize \in Nat \ {0} /\ RowCount \in Nat \ {0}
  BY OptionsAssumption
<1>2. \A b \in Nat : b * BatchSize \in Nat
  BY <1>1
<1>3. \A b, c \in Nat : b <= c => b * BatchSize <= c * BatchSize
  <2> SUFFICES ASSUME NEW b \in Nat, NEW c \in Nat, b <= c
               PROVE  b * BatchSize <= c * BatchSize
    OBVIOUS
  <2>1. PICK d \in Nat : c = b + d
    BY c - b \in Nat
  <2>2. c * BatchSize = b * BatchSize + d * BatchSize
    BY <2>1, <1>1
  <2>3. QED
    BY <2>2, <1>2
<1>4. \A b \in Nat : RowsBefore(b) \in 0 .. RowCount
  BY <1>1, <1>2 DEF RowsBefore
<1>5. \A b, c \in Nat : b <= c => RowsBefore(b) <= RowsBefore(c)
  BY <1>1, <1>2, <1>3 DEF RowsBefore
<1>6. RowsBefore(0) = 0
  BY <1>1 DEF RowsBefore
<1>7. RowsBefore(TotalBatches) = RowCount
  BY <1>1, <1>2, TotalBatchesFacts DEF RowsBefore
<1>8. QED
  BY <1>4, <1>5, <1>6, <1>7

(* The slice of one batch.                                                 *)
LEMMA BatchSlice ==
    ASSUME NEW b \in Nat
    PROVE  /\ RowsBefore(b) \in Nat
           /\ RowsBefore(b + 1) \in Nat
           /\ RowsBefore(b) <= RowsBefore(b + 1)
           /\ RowsBefore(b + 1) <= RowCount
           /\ RowsBefore(b + 1) - RowsBefore(b) \in Nat
<1>1. RowsBefore(b) \in 0 .. RowCount /\ RowsBefore(b) <= RowsBefore(b + 1)
  BY RowsBeforeFacts
<1>2. b + 1 \in Nat
  OBVIOUS
<1>3. RowsBefore(b + 1) \in 0 .. RowCount
  BY <1>2, RowsBeforeFacts
<1>4. QED
  BY <1>1, <1>3, OptionsAssumption

(* n consecutive rows after row m form a sequence of rows.                 *)
LEMMA ConsecutiveRows ==
    ASSUME NEW m \in Nat, NEW n \in Nat, m + n <= RowCount, NEW v \in Variants
    PROVE  LET new == [i \in 1 .. n |-> [row |-> m + i, vector |-> v]]
           IN  new \in Seq(Row) /\ Len(new) = n
<1> DEFINE new == [i \in 1 .. n |-> [row |-> m + i, vector |-> v]]
<1>1. \A i \in 1 .. n : [row |-> m + i, vector |-> v] \in Row
  BY OptionsAssumption DEF Row
<1>2. new \in [1 .. n -> Row]
  BY <1>1
<1>3. new \in Seq(Row)
  BY <1>2, SeqDef
<1>4. Len(new) = n
  BY <1>3, LenProperties
<1>5. QED
  BY <1>3, <1>4

(* Appending a batch to the rows before it gives the rows before the next. *)
LEMMA AppendBatch ==
    ASSUME NEW b \in Nat, NEW v \in Variants, NEW w \in Seq(Row),
           Len(w) = RowsBefore(b)
    PROVE  LET w2 == w \o BatchRows(b, v)
           IN  /\ w2 \in Seq(Row)
               /\ Len(w2) = RowsBefore(b + 1)
               /\ \A i \in 1 .. RowsBefore(b) : w2[i] = w[i]
               /\ \A i \in RowsBefore(b) + 1 .. RowsBefore(b + 1) :
                    w2[i] = [row |-> i, vector |-> v]
<1> DEFINE m == RowsBefore(b)
           n == RowsBefore(b + 1) - RowsBefore(b)
           new == BatchRows(b, v)
<1>1. m \in Nat /\ n \in Nat /\ m + n <= RowCount /\ RowsBefore(b + 1) = m + n
  <2>1. /\ RowsBefore(b) \in Nat
        /\ RowsBefore(b + 1) \in Nat
        /\ RowsBefore(b) <= RowsBefore(b + 1)
        /\ RowsBefore(b + 1) <= RowCount
    BY BatchSlice
  <2>2. QED
    BY <2>1, OptionsAssumption
<1>3. new = [i \in 1 .. n |-> [row |-> m + i, vector |-> v]]
  BY DEF BatchRows
<1>4. new \in Seq(Row) /\ Len(new) = n
  <2> HIDE DEF n, m, new
  <2> QED BY <1>1, <1>3, ConsecutiveRows
<1>5. \A i \in 1 .. n : new[i] = [row |-> m + i, vector |-> v]
  BY <1>3
<1> HIDE DEF n, m, new
<1>6. w \o new \in Seq(Row) /\ Len(w \o new) = m + n
  BY <1>1, <1>4 DEF m
<1>7. \A i \in 1 .. m : (w \o new)[i] = w[i]
  BY <1>1, <1>4 DEF m
<1>8. \A i \in m + 1 .. m + n : (w \o new)[i] = new[i - m]
  BY <1>1, <1>4 DEF m
<1>9. \A i \in m + 1 .. m + n : (w \o new)[i] = [row |-> i, vector |-> v]
  <2> SUFFICES ASSUME NEW i \in m + 1 .. m + n
               PROVE  (w \o new)[i] = [row |-> i, vector |-> v]
    OBVIOUS
  <2>1. i - m \in 1 .. n /\ m + (i - m) = i
    BY <1>1
  <2>2. new[i - m] = [row |-> m + (i - m), vector |-> v]
    BY <2>1, <1>5
  <2>3. QED
    BY <2>1, <2>2, <1>8
<1>10. QED
  BY <1>1, <1>6, <1>7, <1>9 DEF m, new

(* The sets of batches are finite, so that they can be counted.            *)
LEMMA FiniteBatches ==
    /\ IsFiniteSet(Batches)
    /\ IsFiniteSet(JoinSet) /\ Cardinality(JoinSet) \in Nat
    /\ IsFiniteSet(Completed) /\ Cardinality(Completed) \in Nat
<1>1. IsFiniteSet(Batches)
  BY TotalBatchesFacts, FS_Interval DEF Batches
<1>2. JoinSet \in SUBSET Batches /\ Completed \in SUBSET Batches
  BY DEF JoinSet, Completed
<1>3. QED
  BY <1>1, <1>2, FS_Subset, FS_CardinalityType

-----------------------------------------------------------------------------
(* The initial state.                                                      *)

(* The state in which execute_embedding_task_reported enters its loop.     *)
LEMMA InitIndInv == Init => IndInv
<1> SUFFICES ASSUME Init PROVE IndInv
  OBVIOUS
<1> USE OptionsAssumption, TotalBatchesFacts
<1>1. TypeOK
  BY DEF Init, TypeOK, Phases, Answers, Terminal, Row
<1>2. InOrder
  BY DEF Init, InOrder, Batches
<1>3. JoinSet = {} /\ Completed = {}
  BY DEF Init, JoinSet, Completed
<1>4. Counted
  BY <1>3, FS_EmptySet DEF Init, Counted
<1>5. Waiting
  BY <1>3 DEF Init, Waiting
<1>6. RowsOf
  BY RowsBeforeFacts DEF Init, RowsOf, Batches
<1>7. Ending
  BY DEF Init, Ending
<1>8. QED
  BY <1>1, <1>2, <1>4, <1>5, <1>6, <1>7 DEF IndInv

-----------------------------------------------------------------------------
(* Every step keeps the invariant.                                         *)

(* Steps of a batch task move it between phases of the JoinSet.            *)
LEMMA BatchTaskStep ==
    ASSUME IndInv, NEW b \in Batches,
           \/ \E v \in Answers : Respond(b, v)
           \/ TemporaryFailure(b)
           \/ PermanentFailure(b)
           \/ Retry(b)
    PROVE  IndInv'
<1> USE OptionsAssumption, TotalBatchesFacts DEF IndInv
<1>1. /\ phase[b] \in {"request", "backoff"}
      /\ \E p \in {"request", "backoff", "returned"} : phase' = [phase EXCEPT ![b] = p]
      /\ UNCHANGED << pc, nextSpawn, nextWrite, active, written, staged, output,
                      requests, retries >>
  BY DEF Respond, TemporaryFailure, PermanentFailure, Retry
<1>2. PICK p \in {"request", "backoff", "returned"} : phase' = [phase EXCEPT ![b] = p]
  BY <1>1
<1>3. /\ attempts' \in [Batches -> 0 .. MaxAttempts]
      /\ \A c \in Batches : c # b => attempts'[c] = attempts[c]
      /\ attempts'[b] >= 1
      /\ phase'[b] = "backoff" => attempts'[b] < MaxAttempts
  <2>1. CASE Retry(b)
    BY <2>1 DEF Retry, TypeOK, InOrder
  <2>2. CASE \E v \in Answers : Respond(b, v)
    BY <2>2 DEF Respond, TypeOK, InOrder
  <2>3. CASE TemporaryFailure(b) \/ PermanentFailure(b)
    BY <2>3 DEF TemporaryFailure, PermanentFailure, TypeOK, InOrder
  <2>4. QED
    BY <2>1, <2>2, <2>3
<1>4. /\ answer' \in [Batches -> Answers]
      /\ \A c \in Batches : c # b => answer'[c] = answer[c]
  <2>1. CASE \E v \in Answers : Respond(b, v)
    BY <2>1 DEF Respond, TypeOK
  <2>2. CASE PermanentFailure(b)
    BY <2>2 DEF PermanentFailure, TypeOK, Answers
  <2>3. CASE TemporaryFailure(b) \/ Retry(b)
    BY <2>3 DEF TemporaryFailure, Retry, TypeOK
  <2>4. QED
    BY <2>1, <2>2, <2>3
<1>5. JoinSet' = JoinSet /\ Completed' = Completed
  BY <1>1, <1>2 DEF JoinSet, Completed, TypeOK
<1>6. TypeOK'
  BY <1>1, <1>2, <1>3, <1>4 DEF TypeOK, Phases
<1>7. InOrder'
  BY <1>1, <1>2, <1>3 DEF InOrder, TypeOK
<1>8. Counted'
  BY <1>1, <1>5 DEF Counted
<1>9. Waiting'
  BY <1>1, <1>5 DEF Waiting, MaySpawn
<1>10. RowsOf'
  BY <1>1, <1>4 DEF RowsOf, InOrder
<1>11. Ending'
  BY <1>1 DEF Ending
<1>12. QED
  BY <1>6, <1>7, <1>8, <1>9, <1>10, <1>11

(* spawn_batch takes a slot that the loop's condition left free.           *)
LEMMA SpawnBatchStep ==
    ASSUME IndInv, SpawnBatch
    PROVE  IndInv'
<1> USE OptionsAssumption, TotalBatchesFacts DEF IndInv, SpawnBatch
<1>1. nextSpawn \in Batches /\ phase[nextSpawn] = "unspawned"
  BY DEF MaySpawn, TypeOK, InOrder, Batches
<1>2. JoinSet' = JoinSet \cup {nextSpawn} /\ nextSpawn \notin JoinSet
  BY <1>1 DEF JoinSet, TypeOK
<1>3. Completed' = Completed
  BY <1>1 DEF Completed, TypeOK
<1>4. Cardinality(JoinSet') = Cardinality(JoinSet) + 1
  BY <1>2, FiniteBatches, FS_AddElement
<1>5. TypeOK'
  BY <1>1 DEF TypeOK, Phases, MaySpawn
<1>6. InOrder'
  BY <1>1 DEF InOrder, TypeOK, Batches
<1>7. Counted'
  BY <1>3, <1>4, FiniteBatches DEF Counted, MaySpawn, TypeOK
<1>8. Waiting'
  BY <1>3 DEF Waiting
<1>9. RowsOf'
  BY DEF RowsOf
<1>10. Ending'
  BY DEF Ending
<1>11. QED
  BY <1>5, <1>6, <1>7, <1>8, <1>9, <1>10

(* The loop starts to wait or ends.                                        *)
LEMMA EndFeedStep ==
    ASSUME IndInv, EndFeed
    PROVE  IndInv'
<1> USE OptionsAssumption, TotalBatchesFacts DEF IndInv, EndFeed
<1>1. TypeOK'
  BY DEF TypeOK
<1>2. InOrder'
  BY DEF InOrder
<1>3. Counted'
  BY DEF Counted, JoinSet, Completed
<1>4. Waiting'
  BY DEF Waiting, MaySpawn, Completed
<1>5. RowsOf'
  BY DEF RowsOf
<1>6. Ending'
  BY DEF Ending, TypeOK
<1>7. QED
  BY <1>1, <1>2, <1>3, <1>4, <1>5, <1>6

(* A joined batch moves from the JoinSet to the reorder buffer.            *)
LEMMA JoinStep ==
    ASSUME IndInv, NEW b \in Batches, Join(b)
    PROVE  IndInv'
<1> USE OptionsAssumption, TotalBatchesFacts DEF IndInv
<1>1. CASE answer[b] = TaskError
  <2>1. /\ UNCHANGED << nextSpawn, nextWrite, active, phase, attempts, answer, written,
                        output, requests, retries >>
        /\ pc' = "failed" /\ staged' \in {FALSE, staged}
    BY <1>1 DEF Join, Fail
  <2>2. TypeOK'
    BY <2>1 DEF TypeOK, Terminal
  <2>3. InOrder' /\ Counted' /\ Waiting' /\ RowsOf' /\ Ending'
    BY <2>1 DEF InOrder, Counted, Waiting, RowsOf, Ending, JoinSet, Completed
  <2>4. QED
    BY <2>2, <2>3
<1>2. CASE answer[b] # TaskError
  <2>1. /\ phase[b] = "returned"
        /\ pc' = "drain"
        /\ active' = active - 1
        /\ phase' = [phase EXCEPT ![b] = "completed"]
        /\ UNCHANGED << staged, nextSpawn, nextWrite, attempts, answer, written, output,
                        requests, retries >>
    BY <1>2 DEF Join
  <2>2. JoinSet' = JoinSet \ {b} /\ b \in JoinSet
    BY <2>1 DEF JoinSet, TypeOK
  <2>3. Completed' = Completed \cup {b} /\ b \notin Completed
    BY <2>1 DEF Completed, TypeOK
  <2>4. Cardinality(JoinSet') = Cardinality(JoinSet) - 1
    BY <2>2, FiniteBatches, FS_RemoveElement
  <2>5. Cardinality(Completed') = Cardinality(Completed) + 1
    BY <2>3, FiniteBatches, FS_AddElement
  <2>6. Cardinality(JoinSet) >= 1
    BY <2>2, FiniteBatches, FS_EmptySet
  <2>7. TypeOK'
    BY <2>1, <2>6, FiniteBatches DEF TypeOK, Phases, Counted
  <2>8. InOrder'
    BY <2>1 DEF InOrder, TypeOK
  <2>9. Counted'
    BY <2>1, <2>4, <2>5, FiniteBatches DEF Counted, TypeOK
  <2>10. Waiting' /\ RowsOf' /\ Ending'
    BY <2>1 DEF Waiting, RowsOf, Ending
  <2>11. QED
    BY <2>7, <2>8, <2>9, <2>10
<1>3. QED
  BY <1>1, <1>2
(* The next batch in order appends exactly its rows to the staging file.   *)
LEMMA DrainBatchStep ==
    ASSUME IndInv, DrainBatch
    PROVE  IndInv'
<1> USE OptionsAssumption, TotalBatchesFacts DEF IndInv
<1>1. /\ nextWrite \in Batches /\ phase[nextWrite] = "completed"
      /\ nextWrite < TotalBatches /\ nextWrite \in Nat
  BY DEF DrainBatch, Completed, Batches
<1>2. CASE answer[nextWrite] \notin Variants
  <2>1. /\ UNCHANGED << nextSpawn, nextWrite, active, phase, attempts, answer, written,
                        output, requests, retries >>
        /\ pc' = "failed" /\ staged' \in {FALSE, staged}
    BY <1>2 DEF DrainBatch, Fail
  <2>2. TypeOK'
    BY <2>1 DEF TypeOK, Terminal
  <2>3. InOrder' /\ Counted' /\ Waiting' /\ RowsOf' /\ Ending'
    BY <2>1 DEF InOrder, Counted, Waiting, RowsOf, Ending, JoinSet, Completed
  <2>4. QED
    BY <2>2, <2>3
<1>3. CASE answer[nextWrite] \in Variants
  <2>1. /\ written' = written \o BatchRows(nextWrite, answer[nextWrite])
        /\ requests' = requests + attempts[nextWrite]
        /\ retries' = retries + (attempts[nextWrite] - 1)
        /\ phase' = [phase EXCEPT ![nextWrite] = "written"]
        /\ nextWrite' = nextWrite + 1
        /\ UNCHANGED << pc, staged, nextSpawn, active, attempts, answer, output >>
        /\ pc = "drain"
    BY <1>3 DEF DrainBatch
  <2>2. written \in Seq(Row) /\ Len(written) = RowsBefore(nextWrite)
    BY DEF TypeOK, RowsOf
  <2>3. /\ RowsBefore(nextWrite) \in Nat
        /\ RowsBefore(nextWrite + 1) \in Nat
        /\ RowsBefore(nextWrite) <= RowsBefore(nextWrite + 1)
    BY <1>1, BatchSlice
  <2>5. /\ written' \in Seq(Row) /\ Len(written') = RowsBefore(nextWrite + 1)
        /\ \A i \in 1 .. RowsBefore(nextWrite) : written'[i] = written[i]
        /\ \A i \in RowsBefore(nextWrite) + 1 .. RowsBefore(nextWrite + 1) :
             written'[i] = [row |-> i, vector |-> answer[nextWrite]]
    BY <1>1, <1>3, <2>1, <2>2, AppendBatch
  <2>6. attempts[nextWrite] \in Nat /\ attempts[nextWrite] - 1 \in Nat
    BY <1>1 DEF TypeOK, InOrder
  <2>7. TypeOK'
    <3>1. nextWrite' \in 0 .. TotalBatches
      BY <1>1, <2>1
    <3>2. phase' \in [Batches -> Phases]
      BY <1>1, <2>1 DEF TypeOK, Phases
    <3>3. requests' \in Nat /\ retries' \in Nat
      <4>1. requests \in Nat /\ retries \in Nat
        BY DEF TypeOK
      <4>2. ASSUME NEW a \in Nat, NEW b \in Nat PROVE a + b \in Nat
        OBVIOUS
      <4>3. /\ requests' = requests + attempts[nextWrite]
            /\ retries' = retries + (attempts[nextWrite] - 1)
        BY <2>1
      <4>4. QED
        BY <4>1, <4>2, <4>3, <2>6
    <3>4. QED
      BY <2>1, <2>5, <3>1, <3>2, <3>3 DEF TypeOK
  <2>8. InOrder'
    BY <1>1, <2>1 DEF InOrder, TypeOK, Batches
  <2>9. Counted'
    <3>1. JoinSet' = JoinSet
      BY <1>1, <2>1 DEF JoinSet, TypeOK
    <3>2. Completed' = Completed \ {nextWrite} /\ nextWrite \in Completed
      BY <1>1, <2>1 DEF Completed, TypeOK
    <3>3. Cardinality(Completed') = Cardinality(Completed) - 1
      BY <3>2, FiniteBatches, FS_RemoveElement
    <3>4. QED
      BY <2>1, <3>1, <3>3, FiniteBatches DEF Counted, TypeOK
  <2>10. Waiting' /\ Ending'
    BY <2>1 DEF Waiting, Ending
  <2>11. RowsOf'
    <3>1. \A i \in 1 .. Len(written') : written'[i].row = i
      <4> SUFFICES ASSUME NEW i \in 1 .. Len(written')
                   PROVE  written'[i].row = i
        OBVIOUS
      <4>1. CASE i <= RowsBefore(nextWrite)
        <5>1. i \in 1 .. RowsBefore(nextWrite)
          BY <4>1, <2>3, <2>5
        <5>2. QED
          BY <5>1, <2>2, <2>5 DEF RowsOf
      <4>2. CASE i > RowsBefore(nextWrite)
        <5>1. i \in RowsBefore(nextWrite) + 1 .. RowsBefore(nextWrite + 1)
          BY <4>2, <2>3, <2>5
        <5>2. written'[i] = [row |-> i, vector |-> answer[nextWrite]]
          BY <5>1, <2>5
        <5>3. QED
          BY <5>2
      <4>3. QED
        BY <4>1, <4>2, <2>3, <2>5
    <3>2. ASSUME NEW b \in Batches, b < nextWrite',
                 NEW i \in RowsBefore(b) + 1 .. RowsBefore(b + 1)
          PROVE  written'[i] = [row |-> i, vector |-> answer'[b]]
      <4>1. CASE b = nextWrite
        BY <4>1, <3>2, <2>1, <2>5
      <4>2. CASE b < nextWrite
        <5>1. b \in Nat /\ b + 1 <= nextWrite
          BY <4>2, <1>1 DEF Batches
        <5>2. RowsBefore(b) \in Nat /\ RowsBefore(b + 1) <= RowsBefore(nextWrite)
          BY <5>1, <1>1, RowsBeforeFacts
        <5>3. i \in 1 .. RowsBefore(nextWrite)
          BY <5>1, <5>2, <2>3, BatchSlice, <3>2
        <5>4. written'[i] = written[i]
          BY <5>3, <2>5
        <5>5. QED
          BY <5>4, <4>2, <3>2, <2>1 DEF RowsOf
      <4>3. b = nextWrite \/ b < nextWrite
        <5>1. b < nextWrite + 1 /\ b \in Int
          BY <3>2, <2>1, TotalBatchesFacts DEF Batches
        <5>2. QED
          BY <5>1, <1>1
      <4>4. QED
        BY <4>1, <4>2, <4>3
    <3>3. QED
      BY <3>1, <3>2, <2>1, <2>5 DEF RowsOf
  <2>12. QED
    BY <2>7, <2>8, <2>9, <2>10, <2>11
<1>4. QED
  BY <1>2, <1>3

(* A complete staging file is a shard in the order of the texts.           *)
LEMMA WrittenIsShard ==
    ASSUME TypeOK, RowsOf, Len(written) = RowCount
    PROVE  written \in Shards
<1> USE OptionsAssumption
<1> DEFINE f == [i \in 1 .. RowCount |-> written[i].vector]
<1>1. /\ written \in [1 .. RowCount -> Row]
      /\ \A i \in 1 .. RowCount : written[i] \in Row /\ written[i].row = i
  BY DEF TypeOK, RowsOf
<1>2. f \in [1 .. RowCount -> Variants]
  BY <1>1 DEF Row
<1>3. \A i \in 1 .. RowCount : written[i] = [row |-> i, vector |-> f[i]]
  BY <1>1 DEF Row
<1>4. written = [i \in 1 .. RowCount |-> [row |-> i, vector |-> f[i]]]
  BY <1>1, <1>3
<1>5. QED
  BY <1>2, <1>4 DEF Shards
(* The steps after a drain and after the loop, and those of the            *)
(* environment, leave the batches alone.                                   *)
LEMMA OtherStep ==
    ASSUME IndInv,
           \/ EndDrain \/ Finish \/ Link \/ Unlink \/ Verify
           \/ IoError \/ Crash \/ RivalPublishes \/ UNCHANGED vars
    PROVE  IndInv'
<1> USE OptionsAssumption, TotalBatchesFacts DEF IndInv
<1>1. UNCHANGED << nextSpawn, nextWrite, active, phase, attempts, answer, written,
                   requests, retries >>
  BY DEF EndDrain, Finish, Link, Unlink, Verify, IoError, Crash, RivalPublishes, vars
<1>2. JoinSet' = JoinSet /\ Completed' = Completed
  BY <1>1 DEF JoinSet, Completed
<1>3. InOrder' /\ Counted' /\ RowsOf'
  BY <1>1, <1>2 DEF InOrder, Counted, RowsOf
<1>4. Waiting'
  <2>1. CASE EndDrain
    BY <2>1, <1>1, <1>2 DEF EndDrain, Waiting
  <2>2. CASE Finish \/ Link \/ Unlink \/ Verify \/ IoError \/ Crash
    BY <2>2 DEF Finish, Link, Unlink, Verify, IoError, Crash, Waiting, Fail
  <2>3. CASE RivalPublishes \/ UNCHANGED vars
    <3>1. pc' = pc
      BY <2>3 DEF RivalPublishes, vars
    <3>2. QED
      BY <3>1, <1>1, <1>2 DEF Waiting, MaySpawn
  <2>4. QED
    BY <2>1, <2>2, <2>3
<1>5. output' \in {NoFile} \cup Shards
  <2>1. CASE Link
    <3>1. written \in Shards
      BY <2>1, WrittenIsShard DEF Link, Ending
    <3>2. QED
      BY <2>1, <3>1 DEF Link, TypeOK
  <2>2. CASE ~ Link
    BY <2>2 DEF EndDrain, Finish, Unlink, Verify, IoError, Crash, RivalPublishes,
                vars, TypeOK
  <2>3. QED
    BY <2>1, <2>2
<1>6. pc' \in {"feed", "link", "unlink", "verify"} \cup Terminal \/ pc' = pc
  BY DEF EndDrain, Finish, Link, Unlink, Verify, IoError, Crash, RivalPublishes,
         vars, Fail, Terminal
<1>7. staged' \in {FALSE, staged}
  BY DEF EndDrain, Finish, Link, Unlink, Verify, IoError, Crash, RivalPublishes,
         vars, Fail
<1>8. TypeOK'
  BY <1>1, <1>5, <1>6, <1>7 DEF TypeOK
<1>9. Ending'
  <2>1. CASE EndDrain \/ Finish \/ Link \/ IoError \/ Crash
    BY <2>1, <1>1 DEF EndDrain, Finish, Link, IoError, Crash, Fail, Ending
  <2>2. CASE Unlink \/ Verify
    BY <2>2, <1>1 DEF Unlink, Verify, Ending
  <2>3. CASE RivalPublishes
    <3>1. pc \notin {"verify", "done"}
      <4>1. ASSUME pc \in {"verify", "done"} PROVE FALSE
        <5>1. output = written /\ Len(written) = RowCount
          BY <4>1 DEF Ending
        <5>2. written = << >>
          BY <5>1, <2>3 DEF RivalPublishes, NoFile
        <5>3. QED
          BY <5>1, <5>2, EmptySeq
      <4>2. QED
        BY <4>1
    <3>2. QED
      BY <2>3, <3>1, <1>1 DEF RivalPublishes, Ending
  <2>4. CASE UNCHANGED vars
    BY <2>4 DEF vars, Ending
  <2>5. QED
    BY <2>1, <2>2, <2>3, <2>4
<1>10. QED
  BY <1>3, <1>4, <1>8, <1>9

(* Every step of the specification keeps the invariant.                    *)
LEMMA NextIndInv == IndInv /\ [Next]_vars => IndInv'
<1> SUFFICES ASSUME IndInv, [Next]_vars PROVE IndInv'
  OBVIOUS
<1>1. CASE SpawnBatch
  BY <1>1, SpawnBatchStep
<1>2. CASE EndFeed
  BY <1>2, EndFeedStep
<1>3. CASE \E b \in Batches : Join(b)
  BY <1>3, JoinStep
<1>4. CASE DrainBatch
  BY <1>4, DrainBatchStep
<1>5. CASE \E b \in Batches :
             \/ \E v \in Answers : Respond(b, v)
             \/ TemporaryFailure(b)
             \/ PermanentFailure(b)
             \/ Retry(b)
  BY <1>5, BatchTaskStep
<1>6. CASE \/ EndDrain \/ Finish \/ Link \/ Unlink \/ Verify
           \/ IoError \/ Crash \/ RivalPublishes \/ UNCHANGED vars
  BY <1>6, OtherStep
<1>7. QED
  BY <1>1, <1>2, <1>3, <1>4, <1>5, <1>6 DEF Next, Loop, Ended

(* The inductive invariant holds in every reachable state.                 *)
THEOREM IndInvHolds == Spec => []IndInv
<1>1. QED
  BY InitIndInv, NextIndInv, PTL DEF Spec

-----------------------------------------------------------------------------
(* The properties.                                                         *)

(* Type correctness of execute_embedding_task_reported's state, including  *)
(* the retry budget of spawn_batch.                                        *)
THEOREM TypeCorrect == Spec => []TypeOK
<1>1. IndInv => TypeOK
  BY DEF IndInv
<1>2. QED
  BY <1>1, IndInvHolds, PTL

(* Requests in flight and buffered batches together never exceed twice     *)
(* max_in_flight, for every number of batches and slots.                   *)
THEOREM ReorderBounded == Spec => []ReorderBound
<1>1. IndInv => ReorderBound
  BY OptionsAssumption, FiniteBatches DEF IndInv, Counted, ReorderBound, TypeOK
<1>2. QED
  BY <1>1, IndInvHolds, PTL

(* When the loop waits, the next batch to write is still in the JoinSet,   *)
(* or the loop would have been allowed to spawn it: join_next never meets  *)
(* an empty JoinSet.                                                       *)
THEOREM NeverStarves == Spec => []LoopNeverStarves
<1>1. ASSUME IndInv, pc = "join", JoinSet = {} PROVE FALSE
  <2> USE OptionsAssumption, TotalBatchesFacts DEF IndInv
  <2>1. /\ nextWrite \notin Completed /\ nextWrite < TotalBatches /\ ~ MaySpawn
        /\ nextWrite \in Batches
    BY <1>1 DEF Waiting, TypeOK, Batches
  <2>2. active = 0
    BY <1>1, FS_EmptySet DEF Counted
  <2>3. nextWrite = nextSpawn
    <3>1. phase[nextWrite] \notin {"request", "backoff", "returned", "completed"}
      BY <1>1, <2>1 DEF JoinSet, Completed
    <3>2. phase[nextWrite] \in {"unspawned", "written"}
      BY <1>1, <2>1, <3>1 DEF TypeOK, Phases
    <3>3. nextSpawn <= nextWrite
      BY <1>1, <2>1, <3>2 DEF InOrder, TypeOK
    <3>4. QED
      BY <1>1, <3>3 DEF InOrder, TypeOK
  <2>4. Completed = {}
    <3>1. \A b \in Batches : b < nextWrite \/ nextSpawn <= b
      BY <1>1, <2>3 DEF Batches, TypeOK
    <3>2. QED
      BY <1>1, <3>1 DEF InOrder, Completed
  <2>5. MaySpawn
    BY <2>1, <2>2, <2>3, <2>4, FS_EmptySet DEF MaySpawn
  <2>6. QED
    BY <2>1, <2>5
<1>2. IndInv => LoopNeverStarves
  BY <1>1 DEF LoopNeverStarves
<1>3. QED
  BY <1>2, IndInvHolds, PTL

(* A call that returns Ok published, or found, exactly its own vectors,    *)
(* each at the row of its text, and has removed its staging file.          *)
THEOREM DoneOwnResult == Spec => []DoneIsOwnResult
<1>1. ASSUME IndInv, pc = "done", NEW b \in Batches,
             NEW i \in RowsBefore(b) + 1 .. RowsBefore(b + 1)
      PROVE  output[i] = [row |-> i, vector |-> answer[b]]
  <2>1. output = written /\ nextWrite = TotalBatches
    BY <1>1 DEF IndInv, Ending
  <2>2. b < nextWrite
    BY <2>1, TotalBatchesFacts DEF Batches
  <2>3. QED
    BY <1>1, <2>1, <2>2 DEF IndInv, RowsOf
<1>2. ASSUME IndInv, pc = "done"
      PROVE  ~ staged
  BY <1>2 DEF IndInv, Ending
<1>3. IndInv => DoneIsOwnResult
  BY <1>1, <1>2 DEF DoneIsOwnResult
<1>4. QED
  BY <1>3, IndInvHolds, PTL

(* The executor, its crashes and its rivals included, implements the       *)
(* publication without overwrite: every step either leaves the output path *)
(* alone or puts a complete shard where no file was.                       *)
THEOREM ImplementsPublication == Spec => PublishesOnce
<1>1. Init => Publication!Init
  BY DEF Init, Publication!Init
<1>2. IndInv /\ [Next]_vars => [Publication!Next]_output
  <2> SUFFICES ASSUME IndInv, [Next]_vars
               PROVE  Publication!Next \/ UNCHANGED output
    BY DEF Publication!Next
  <2>1. CASE Link
    <3>1. written \in Shards
      BY <2>1, WrittenIsShard DEF Link, IndInv, Ending
    <3>2. QED
      BY <2>1, <3>1 DEF Link, Publication!Next, Publication!Publish
  <2>2. CASE RivalPublishes
    BY <2>2 DEF RivalPublishes, Publication!Next, Publication!Publish
  <2>3. CASE ~ Link /\ ~ RivalPublishes
    BY <2>3 DEF Next, Loop, SpawnBatch, EndFeed, Join, DrainBatch, EndDrain, Finish,
                Unlink, Verify, Respond, TemporaryFailure, PermanentFailure, Retry,
                IoError, Crash, Ended, vars
  <2>4. QED
    BY <2>1, <2>2, <2>3
<1>3. QED
  BY <1>1, <1>2, IndInvHolds, PTL DEF Spec, PublishesOnce, Publication!Spec

-----------------------------------------------------------------------------
(* Adding up.  The sum of a function is a fold over a set in an order that *)
(* CHOOSE picks; a family of sets without a smallest member is empty, and  *)
(* so neither that nor the order matters.                                  *)

(* Induction on finite sets without a predicate: a non-empty family of     *)
(* subsets of a finite set has a member no part of which is in the family. *)
LEMMA SmallestMember ==
    ASSUME NEW S, IsFiniteSet(S), NEW F, F \subseteq SUBSET S, F # {}
    PROVE  \E t \in F : \A u \in F : ~ (u \subseteq t /\ u # t)
<1>1. IsWellFoundedOn(StrictSubsetOrdering(S), SUBSET S)
  BY FS_StrictSubsetOrderingWellFounded, FS_FiniteSubsetsOfFinite
<1>2. PICK t \in F : \A u \in F : << u, t >> \notin StrictSubsetOrdering(S)
  BY <1>1, WFMin
<1>3. ASSUME NEW u \in F, u \subseteq t, u # t
      PROVE  FALSE
  <2>1. << u, t >> \in StrictSubsetOrdering(S)
    BY <1>3 DEF StrictSubsetOrdering
  <2>2. QED
    BY <1>2, <2>1
<1>4. QED
  BY <1>3

\* g adds up the values of f, in whatever order.
Adds(g, f, S) ==
    /\ g \in [SUBSET S -> Nat]
    /\ g[{}] = 0
    /\ \A s \in SUBSET S : \A x \in s : g[s] = f[x] + g[s \ {x}]

(* The values of a function on a finite set can be added up.               *)
LEMMA AddsExists ==
    ASSUME NEW S, IsFiniteSet(S), NEW f \in [S -> Nat]
    PROVE  \E g \in [SUBSET S -> Nat] : Adds(g, f, S)
<1> DEFINE Bad == { T \in SUBSET S : ~ \E g \in [SUBSET T -> Nat] : Adds(g, f, T) }
<1> SUFFICES ASSUME Bad # {}
             PROVE  FALSE
  OBVIOUS
<1>1. PICK T \in Bad : \A U \in Bad : ~ (U \subseteq T /\ U # T)
  <2>1. Bad \subseteq SUBSET S
    OBVIOUS
  <2> HIDE DEF Bad
  <2>2. QED
    BY <2>1, SmallestMember
<1>2. CASE T = {}
  <2> DEFINE g == [s \in SUBSET {} |-> 0]
  <2>1. g \in [SUBSET T -> Nat] /\ Adds(g, f, T)
    BY <1>2 DEF Adds
  <2>2. QED
    BY <2>1
<1>3. CASE T # {}
  <2>1. PICK x \in T : TRUE
    BY <1>3
  <2> DEFINE R == T \ {x}
  <2>2. PICK g \in [SUBSET R -> Nat] : Adds(g, f, R)
    <3>1. R \subseteq T /\ R # T /\ R \in SUBSET S
      BY <2>1
    <3>2. R \notin Bad
      BY <1>1, <3>1
    <3>3. QED
      BY <3>1, <3>2
  <2> DEFINE h == [s \in SUBSET T |-> IF x \in s THEN f[x] + g[s \ {x}] ELSE g[s]]
  <2>3. \A s \in SUBSET T : s \ {x} \in SUBSET R /\ (x \notin s => s \in SUBSET R)
    OBVIOUS
  <2>4. f[x] \in Nat /\ \A y \in T : f[y] \in Nat
    BY <2>1
  <2>5. h \in [SUBSET T -> Nat]
    BY <2>2, <2>3, <2>4
  <2>6. h[{}] = 0
    BY <2>2 DEF Adds
  <2>7. ASSUME NEW s \in SUBSET T, NEW y \in s
        PROVE  h[s] = f[y] + h[s \ {y}]
    <3>0. s \ {y} \in SUBSET T /\ y \in T
      BY <2>7
    <3>1. CASE y = x
      <4>1. h[s] = f[x] + g[s \ {x}]
        BY <3>1
      <4>2. h[s \ {x}] = g[s \ {x}]
        BY <3>0, <3>1
      <4>3. QED
        BY <3>1, <4>1, <4>2
    <3>2. CASE y # x /\ x \in s
      <4>1. h[s] = f[x] + g[s \ {x}] /\ h[s \ {y}] = f[x] + g[(s \ {y}) \ {x}]
        BY <3>0, <3>2
      <4>2. g[s \ {x}] = f[y] + g[(s \ {x}) \ {y}]
        BY <2>2, <2>3, <3>2 DEF Adds
      <4>3. (s \ {x}) \ {y} = (s \ {y}) \ {x}
        OBVIOUS
      <4>4. g[(s \ {y}) \ {x}] \in Nat
        BY <2>2, <2>3, <3>0
      <4>5. \A a, b, c \in Nat : a + (b + c) = b + (a + c)
        OBVIOUS
      <4> HIDE DEF h
      <4>6. f[x] \in Nat /\ f[y] \in Nat
        BY <2>4, <3>0
      <4>7. h[s] = f[x] + (f[y] + g[(s \ {y}) \ {x}])
        BY <4>1, <4>2, <4>3
      <4>8. QED
        BY <4>1, <4>4, <4>5, <4>6, <4>7
    <3>3. CASE y # x /\ x \notin s
      <4>1. h[s] = g[s] /\ h[s \ {y}] = g[s \ {y}]
        BY <3>0, <3>3
      <4>2. QED
        BY <2>2, <2>3, <3>3, <4>1 DEF Adds
    <3>4. QED
      BY <3>1, <3>2, <3>3
  <2>8. PICK i : i = h
    OBVIOUS
  <2>9. i \in [SUBSET T -> Nat] /\ Adds(i, f, T)
    BY <2>5, <2>6, <2>7, <2>8 DEF Adds
  <2>10. QED
    BY <2>9
<1>4. QED
  BY <1>2, <1>3

(* The sum of a function, a fold over its domain in an order nobody knows, *)
(* is what adding its values up in any order gives.                        *)
LEMMA SumAdds ==
    ASSUME NEW S, IsFiniteSet(S), NEW f \in [S -> Nat]
    PROVE  \E g \in [SUBSET S -> Nat] : Adds(g, f, S) /\ SumFunction(f) = g[S]
<1> DEFINE First(s) == CHOOSE x \in s : TRUE
           Turns(i) == [s \in SUBSET S |->
                           IF s = {} THEN 0 ELSE f[First(s)] + i[s \ {First(s)}]]
           sum == CHOOSE i : i = Turns(i)
<1>1. PICK g \in [SUBSET S -> Nat] : Adds(g, f, S)
  BY AddsExists
<1>2. \A s \in SUBSET S : s # {} => First(s) \in s
  OBVIOUS
<1>3. g = Turns(g)
  <2>1. ASSUME NEW s \in SUBSET S
        PROVE  g[s] = Turns(g)[s]
    BY <1>1, <1>2 DEF Adds
  <2>2. QED
    BY <2>1
<1>4. sum = Turns(sum)
  BY <1>3
<1>5. SumFunction(f) = sum[S]
  BY DEF SumFunction, SumFunctionOnSet, FoldFunctionOnSet, MapThenFoldSet
<1>6. \A s \in SUBSET S : sum[s] = g[s]
  <2> DEFINE Bad == { s \in SUBSET S : sum[s] # g[s] }
  <2> SUFFICES ASSUME Bad # {}
               PROVE  FALSE
    OBVIOUS
  <2>1. PICK s \in Bad : \A u \in Bad : ~ (u \subseteq s /\ u # s)
    <3>1. Bad \subseteq SUBSET S
      OBVIOUS
    <3> HIDE DEF Bad
    <3>2. QED
      BY <3>1, SmallestMember
  <2> HIDE DEF sum, First
  <2>2. sum[s] = IF s = {} THEN 0 ELSE f[First(s)] + sum[s \ {First(s)}]
    BY <1>4
  <2>3. CASE s = {}
    BY <1>1, <2>2, <2>3 DEF Adds
  <2>4. CASE s # {}
    <3>1. First(s) \in s /\ s \ {First(s)} \in SUBSET S
      BY <1>2, <2>4
    <3>2. sum[s \ {First(s)}] = g[s \ {First(s)}]
      BY <2>1, <3>1
    <3>3. QED
      BY <1>1, <2>1, <2>2, <2>4, <3>1, <3>2 DEF Adds
  <2>5. QED
    BY <2>3, <2>4
<1>7. QED
  BY <1>1, <1>5, <1>6

-----------------------------------------------------------------------------
(* The counters, with the running totals of the attempts.                  *)

\* sent is the running total of the requests of the first n batches.
Totals(sent, n) ==
    /\ sent \in [0 .. n -> Nat]
    /\ sent[0] = 0
    /\ \A b \in Batches : b < n => sent[b + 1] = sent[b] + attempts[b]

\* The counters so far are those of the written batches.
Summed ==
    \E sent \in [0 .. nextWrite -> Nat] :
        Totals(sent, nextWrite) /\ requests = sent[nextWrite] /\ retries = requests - nextWrite

(* A batch that is written adds its attempts, and no attempt is counted    *)
(* for a batch once it is written.                                         *)
LEMMA SummedStep == IndInv /\ Summed /\ [Next]_vars => Summed'
<1> SUFFICES ASSUME IndInv, Summed, [Next]_vars
             PROVE  Summed'
  OBVIOUS
<1>0. PICK sent \in [0 .. nextWrite -> Nat] :
        Totals(sent, nextWrite) /\ requests = sent[nextWrite] /\ retries = requests - nextWrite
  BY DEF Summed
<1>1. nextWrite \in Nat /\ nextSpawn \in Nat /\ nextWrite <= nextSpawn
      /\ TotalBatches \in Nat /\ nextWrite <= TotalBatches
  BY TotalBatchesFacts DEF IndInv, TypeOK, InOrder
<1>2. CASE /\ UNCHANGED << nextWrite, requests, retries >>
           /\ \A b \in Batches : b < nextWrite => attempts'[b] = attempts[b]
  BY <1>0, <1>2 DEF Summed, Totals
<1>3. CASE DrainBatch /\ nextWrite' # nextWrite
  <2> DEFINE n == nextWrite
             more == [k \in 0 .. n + 1 |-> IF k = n + 1 THEN sent[n] + attempts[n] ELSE sent[k]]
  <2>1. /\ nextWrite' = n + 1 /\ attempts' = attempts /\ n \in Batches
        /\ requests' = requests + attempts[n] /\ retries' = retries + (attempts[n] - 1)
    BY <1>3 DEF DrainBatch, Completed
  <2>2. attempts[n] \in Nat /\ sent[n] \in Nat
    BY <1>1, <2>1 DEF IndInv, TypeOK
  <2>3. more \in [0 .. n + 1 -> Nat]
    BY <1>1, <2>2
  <2>4. more[0] = 0 /\ more[n + 1] = sent[n] + attempts[n]
    BY <1>0, <1>1 DEF Totals
  <2>5. ASSUME NEW b \in Batches, b < n + 1
        PROVE  more[b + 1] = more[b] + attempts[b]
    <3>1. b \in Nat
      BY <1>1 DEF Batches
    <3>2. CASE b = n
      BY <1>1, <2>4, <3>1, <3>2
    <3>3. CASE b < n
      BY <1>0, <1>1, <3>1, <3>3 DEF Totals
    <3>4. QED
      BY <1>1, <2>5, <3>1, <3>2, <3>3
  <2>6. requests' = more[n + 1] /\ retries' = requests' - (n + 1)
    <3>1. requests' = sent[n] + attempts[n]
      BY <1>0, <2>1
    <3>2. requests \in Nat /\ attempts[n] \in Nat /\ n \in Nat /\ retries = requests - n
      BY <1>0, <1>1, <2>2
    <3>3. retries' = requests' - (n + 1)
      <4>1. \A q, a, m \in Nat : (q - m) + (a - 1) = (q + a) - (m + 1)
        OBVIOUS
      <4>2. requests' = requests + attempts[n] /\ retries' = (requests - n) + (attempts[n] - 1)
        BY <2>1, <3>2
      <4>3. QED
        BY <3>2, <4>1, <4>2
    <3>4. QED
      BY <2>4, <3>1, <3>3
  <2>7. /\ more[0] = 0
        /\ \A b \in Batches : b < n + 1 => more[b + 1] = more[b] + attempts'[b]
    BY <2>1, <2>4, <2>5
  <2>8. PICK m : m = more
    OBVIOUS
  <2>9. QED
    BY <2>1, <2>3, <2>6, <2>7, <2>8 DEF Summed, Totals
<1>4. CASE SpawnBatch
  <2>1. \A b \in Batches : b < nextWrite => b # nextSpawn
    BY <1>1 DEF Batches
  <2>2. QED
    BY <1>2, <1>4, <2>1 DEF SpawnBatch, IndInv, TypeOK
<1>5. ASSUME NEW c \in Batches, Retry(c)
      PROVE  Summed'
  <2>1. \A b \in Batches : b < nextWrite => b # c
    BY <1>5 DEF Retry, IndInv, InOrder
  <2>2. QED
    BY <1>2, <1>5, <2>1 DEF Retry, IndInv, TypeOK
<1>6. CASE DrainBatch /\ nextWrite' = nextWrite
  BY <1>1, <1>2, <1>6 DEF DrainBatch
<1>7. CASE ~ (DrainBatch \/ SpawnBatch \/ \E c \in Batches : Retry(c))
  BY <1>2, <1>7 DEF Next, Loop, EndFeed, Join, EndDrain, Finish, Link, Unlink, Verify, Respond,
     TemporaryFailure, PermanentFailure, IoError, Crash, RivalPublishes, Ended, vars
<1>8. QED
  BY <1>3, <1>4, <1>5, <1>6, <1>7

(* The requests a successful call reports are those of all its batches     *)
(* added up, and its retries the ones beyond the first of every batch.     *)
THEOREM StatsAddUp ==
    Spec => [](pc = "done" =>
                 \E sent \in [0 .. TotalBatches -> Nat] :
                    /\ Totals(sent, TotalBatches)
                    /\ requests = sent[TotalBatches]
                    /\ retries = requests - TotalBatches)
<1>1. Init => Summed
  <2> SUFFICES ASSUME Init PROVE Summed
    OBVIOUS
  <2> DEFINE sent == [k \in 0 .. 0 |-> 0]
  <2>1. sent \in [0 .. 0 -> Nat] /\ sent[0] = 0
    OBVIOUS
  <2>2. \A b \in Batches : ~ (b < 0)
    BY TotalBatchesFacts DEF Batches
  <2>3. nextWrite = 0 /\ requests = 0 /\ retries = 0
    BY DEF Init
  <2>4. PICK s : s = sent
    OBVIOUS
  <2>5. QED
    BY <2>1, <2>2, <2>3, <2>4 DEF Summed, Totals
<1>2. IndInv /\ Summed /\ pc = "done" =>
        \E sent \in [0 .. TotalBatches -> Nat] :
            /\ Totals(sent, TotalBatches)
            /\ requests = sent[TotalBatches]
            /\ retries = requests - TotalBatches
  BY DEF IndInv, Ending, Summed
<1>3. QED
  BY <1>1, <1>2, SummedStep, IndInvHolds, PTL DEF Spec

(* A set of numbers has a least one.                                       *)
LEMMA LeastNumber ==
    ASSUME NEW T, T \subseteq Nat, T # {}
    PROVE  \E x \in T : \A y \in T : x <= y
<1>1. PICK x \in T : \A y \in T : << y, x >> \notin OpToRel(<, Nat)
  BY NatLessThanWellFounded, WFMin
<1>2. ASSUME NEW y \in T
      PROVE  x <= y
  <2>1. x \in Nat /\ y \in Nat
    OBVIOUS
  <2>2. ~ (y < x)
    BY <1>1, <2>1 DEF OpToRel
  <2>3. QED
    BY <2>1, <2>2
<1>3. QED
  BY <1>2

(* A running total over all the batches is the sum of the attempts.        *)
LEMMA TotalIsSum ==
    ASSUME attempts \in [Batches -> Nat],
           NEW sent \in [0 .. TotalBatches -> Nat],
           Totals(sent, TotalBatches)
    PROVE  sent[TotalBatches] = SumFunction(attempts)
<1> DEFINE Before(n) == { b \in Batches : b < n }
           Bad == { n \in 0 .. TotalBatches : ~ \A g \in [SUBSET Batches -> Nat] :
                       Adds(g, attempts, Batches) => g[Before(n)] = sent[n] }
<1>0. TotalBatches \in Nat /\ IsFiniteSet(Batches) /\ \A b \in Batches : b \in Nat
  BY TotalBatchesFacts, FS_Interval DEF Batches
<1>1. Bad = {}
  <2> SUFFICES ASSUME Bad # {}
               PROVE  FALSE
    OBVIOUS
  <2>1. PICK n \in Bad : \A m \in Bad : n <= m
    <3>1. Bad \subseteq Nat
      BY <1>0
    <3> HIDE DEF Bad
    <3>2. QED
      BY <3>1, LeastNumber
  <2>2. PICK g \in [SUBSET Batches -> Nat] :
          Adds(g, attempts, Batches) /\ g[Before(n)] # sent[n]
    BY <2>1
  <2>3. CASE n = 0
    <3>1. Before(n) = {}
      BY <1>0, <2>3
    <3>2. QED
      BY <2>2, <2>3, <3>1 DEF Adds, Totals
  <2>4. CASE n # 0
    <3> DEFINE m == n - 1
    <3>1. m \in 0 .. TotalBatches /\ m \in Batches /\ n = m + 1 /\ ~ (n <= m)
      BY <1>0, <2>1, <2>4 DEF Batches
    <3>2. m \notin Bad
      BY <2>1, <3>1
    <3>3. g[Before(m)] = sent[m]
      BY <2>2, <3>1, <3>2
    <3>4. Before(n) \ {m} = Before(m) /\ m \in Before(n)
      BY <1>0, <3>1
    <3>5. g[Before(n)] = attempts[m] + g[Before(m)]
      <4>1. Before(n) \in SUBSET Batches
        OBVIOUS
      <4> HIDE DEF Before, m
      <4>2. g[Before(n)] = attempts[m] + g[Before(n) \ {m}]
        BY <2>2, <3>4, <4>1 DEF Adds
      <4>3. QED
        BY <3>4, <4>2
    <3>6. sent[n] = sent[m] + attempts[m] /\ sent[m] \in Nat /\ attempts[m] \in Nat
      <4>1. m \in Batches /\ m < TotalBatches /\ m + 1 = n
        BY <1>0, <3>1 DEF Batches
      <4>2. \A b \in Batches : b < TotalBatches => sent[b + 1] = sent[b] + attempts[b]
        BY DEF Totals
      <4> HIDE DEF m
      <4>3. QED
        BY <3>1, <4>1, <4>2
    <3> HIDE DEF Before, m
    <3>7. QED
      BY <2>2, <3>3, <3>5, <3>6
  <2>5. QED
    BY <2>3, <2>4
<1>2. PICK g \in [SUBSET Batches -> Nat] :
        Adds(g, attempts, Batches) /\ SumFunction(attempts) = g[Batches]
  BY <1>0, SumAdds
<1>3. Before(TotalBatches) = Batches
  BY <1>0 DEF Batches
<1>4. g[Before(TotalBatches)] = sent[TotalBatches]
  <2>1. TotalBatches \in 0 .. TotalBatches
    BY <1>0
  <2>2. TotalBatches \notin Bad
    BY <1>1
  <2> HIDE DEF Before
  <2>3. QED
    BY <1>2, <2>1, <2>2
<1>5. QED
  BY <1>2, <1>3, <1>4

(* The counters a successful call reports are the requests really sent:    *)
(* the attempts of its batches, added up in whatever order, and the ones   *)
(* beyond the first of every batch as retries.                             *)
THEOREM CountersExact == Spec => []StatsExact
<1>1. IndInv => attempts \in [Batches -> Nat]
  BY DEF IndInv, TypeOK
<1>2. ASSUME IndInv,
             pc = "done" =>
               \E sent \in [0 .. TotalBatches -> Nat] :
                  /\ Totals(sent, TotalBatches)
                  /\ requests = sent[TotalBatches]
                  /\ retries = requests - TotalBatches
      PROVE  StatsExact
  <2> SUFFICES ASSUME pc = "done"
               PROVE  requests = SumFunction(attempts) /\ retries = requests - TotalBatches
    BY DEF StatsExact
  <2>1. PICK sent \in [0 .. TotalBatches -> Nat] :
          /\ Totals(sent, TotalBatches)
          /\ requests = sent[TotalBatches]
          /\ retries = requests - TotalBatches
    BY <1>2
  <2>2. sent[TotalBatches] = SumFunction(attempts)
    BY <1>1, <1>2, <2>1, TotalIsSum
  <2>3. QED
    BY <2>1, <2>2
<1>3. QED
  BY <1>2, StatsAddUp, IndInvHolds, PTL
=============================================================================
