---------------------------- MODULE PublishOnce ----------------------------
(***************************************************************************)
(* What a publication without overwrite promises to every reader of the    *)
(* destination path: the file appears at most once, with a complete value, *)
(* and is never replaced, truncated or removed by a publisher.             *)
(* AtomicFilePublication (rag-embedding/src/shard.rs) is written to keep   *)
(* this promise for embedding shards.                                      *)
(***************************************************************************)
CONSTANTS
    Values,   \* the complete files
    Absent    \* no file at the destination, not a member of Values

VARIABLE file

Init == file \in {Absent} \cup Values

Publish ==
    /\ file = Absent
    /\ file' \in Values

Next == Publish

Spec == Init /\ [][Next]_file
=============================================================================
