------------------------------ MODULE ModelTree ------------------------------
(***************************************************************************)
(* The model files on the volume as the worker that loads them sees them   *)
(* (crates/rag-runpod-worker/src/lib.rs): which file is whole, and what a  *)
(* worker may rely on.  Module ModelHydration says how the files get       *)
(* there.                                                                  *)
(***************************************************************************)
EXTENDS Integers, Sequences

CONSTANTS
    ModelFiles,  \* candidate.model_objects.len()
    ModelSize    \* bytes of every object

VARIABLES
    data,  \* content of every inode
    dest,  \* inode of every object's file, NoFile if there is none
    main   \* the worker: "idle", "spawning", "served" or "failed"

ModelObjects == 1..ModelFiles
NoFile == 0

\* What an object declares: its length and its digest.
WholeFile(o) == [k \in 1..ModelSize[o] |-> <<o, k>>]

\* verified_tei_object
Verified(o) == dest[o] # NoFile /\ data[dest[o]] = WholeFile(o)

(***************************************************************************)
(* A worker that goes on to load the model has exactly the declared files, *)
(* and a file with an object's final name has the object's bytes at every  *)
(* moment, whatever the network sent, wherever a worker was killed and     *)
(* however often its partial file was resumed (hydrate_model_object,       *)
(* validate_candidate_model_tree).                                         *)
(***************************************************************************)
TreeExact ==
    /\ main = "served" => \A o \in ModelObjects : Verified(o)
    /\ \A o \in ModelObjects : dest[o] # NoFile => Verified(o)
=============================================================================
