----------------------------- MODULE MCPrepare -----------------------------
(* Small snapshots for Prepare: relation 1 has two row groups, relation 2  *)
(* one, and relation 3 is the metric relation.  Body "long" belongs to     *)
(* document 3 so that text lengths differ.                                 *)
EXTENDS Prepare

Structured == [outcome |-> "structured"]
Invalid == [outcome |-> "invalid"]
Document(id, body) == [outcome |-> "document", id |-> id, body |-> body]

Rows == {Structured, Document(1, "a"), Document(1, "b"), Document(2, "a"),
         Document(3, "long")}

Shape(r1, r2, r3, r4, r5) ==
    (1 :> <<<<r1, r2>>, <<r3>>>>) @@ (2 :> <<<<r4, r5>>>>) @@ (3 :> <<<<Structured>>>>)

\* All row contents, and every source that has an invalid row first or last.
MCSources ==
    {Shape(r1, r2, r3, r4, r5) : r1, r2, r3, r4, r5 \in Rows}
        \union {Shape(Invalid, r2, r3, r4, r5) : r2, r3, r4, r5 \in {Document(1, "a"), Document(2, "a")}}
        \union {Shape(r1, r2, r3, r4, Invalid) : r1, r2, r3, r4 \in {Document(1, "a"), Document(1, "b")}}

MCBytes == [b \in {"a", "b", "long"} |-> IF b = "long" THEN 9 ELSE 4]
MCKind == [b \in {"a", "b", "long"} |-> IF b = "long" THEN "state" ELSE "activity"]
MCKey == <<2, 3, 1>>
MCRequests == {<<2, 1, 2>>, <<2>>, <<3>>, <<4>>, <<>>}
MCSizes == <<1, 2, 3>>
=============================================================================
