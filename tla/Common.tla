------------------------------- MODULE Common -------------------------------
(***************************************************************************)
(* Notation shared by the modules of pure algorithms: results that may be  *)
(* errors, loops that may leave with `?', and a few arithmetic helpers.    *)
(***************************************************************************)
EXTENDS Integers, Sequences, FiniteSets, SequencesExt, FiniteSetsExt, TLC

Ok(value) == [ok |-> TRUE, value |-> value]

Err(reason) == [ok |-> FALSE, error |-> reason]

\* A loop over seq.
Loop(Step(_, _), base, seq) ==
    LET upTo[k \in 0..Len(seq)] == IF k = 0 THEN base ELSE Step(upTo[k - 1], seq[k])
    IN  upTo[Len(seq)]

\* A loop over seq that stops at the first error.
TryFold(Step(_, _), base, seq) ==
    Loop(LAMBDA result, x : IF result.ok THEN Step(result.value, x) ELSE result, Ok(base), seq)

\* The elements of a finite set in the order of a strict total order.
Ordered(set, Less(_, _)) ==
    [k \in 1..Cardinality(set) |->
        CHOOSE x \in set : Cardinality({y \in set : Less(y, x)}) = k - 1]

Ascending(set) == Ordered(set, <)

CeilDiv(a, b) == (a + b - 1) \div b

Smaller(a, b) == IF a <= b THEN a ELSE b

Larger(a, b) == IF a >= b THEN a ELSE b

\* A sequence cut into pieces of the given size, the last one possibly shorter.
Chunks(seq, size) ==
    [k \in 1..CeilDiv(Len(seq), size) |->
        SubSeq(seq, (k - 1) * size + 1, Smaller(k * size, Len(seq)))]

SumOf(seq) == Loop(LAMBDA total, x : total + x, 0, seq)

MaxOf(seq) == Max(Range(seq))

MapSeq(Op(_), seq) == [k \in 1..Len(seq) |-> Op(seq[k])]

\* A half-open range [from, to) of a sequence whose first index is 0.
Slice(seq, from, to) == SubSeq(seq, from + 1, to)

NoRepeats(seq) == Cardinality(Range(seq)) = Len(seq)
=============================================================================
