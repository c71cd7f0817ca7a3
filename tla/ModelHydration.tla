--------------------------- MODULE ModelHydration ---------------------------
(***************************************************************************)
(* Model files on the volume (crates/rag-runpod-worker/src/lib.rs,         *)
(* hydrate_candidate_model_tree and hydrate_model_object): a conformance   *)
(* worker downloads the files that are missing, several at a time, each    *)
(* into a partial file that a later attempt or a later run resumes.  The   *)
(* partial file gets its final name by a hard link.                        *)
(*                                                                         *)
(* Names are links to inodes: a download that has the partial file open    *)
(* goes on appending to it under whatever name it has.  The partial file   *)
(* is named by the object's stem; a worker only downloads the 17 pinned    *)
(* paths of the Qwen snapshot, whose stems differ, so every object has a   *)
(* partial file of its own.                                                *)
(***************************************************************************)
EXTENDS ModelTree, FiniteSets

CONSTANTS
    MaxDownloads,  \* downloads at a time (4)
    MaxAttempts,   \* requests of one download (5)
    MaxFaults      \* bound: failed or wrong answers and kills

VARIABLES
    partial,   \* inode of every partial file, NoFile if there is none
    step,      \* what the download of every object does next, "none" without one
    attempt,   \* its requests so far
    got,       \* offset, then downloaded
    handle,    \* the inode it has open for appending
    next,      \* the next object to look at
    tainted,   \* a wrong byte was received
    faults

files == <<data, dest, partial>>
download == <<step, attempt, got, handle>>
worker == <<main, next>>
vars == <<files, download, worker, tainted, faults>>

Inodes == 1..(3 * ModelFiles)

WrongByte == <<0, 0>>

Idle ==
    [step |-> [o \in ModelObjects |-> "none"], attempt |-> [o \in ModelObjects |-> 0],
     got |-> [o \in ModelObjects |-> 0], handle |-> [o \in ModelObjects |-> NoFile]]

Init ==
    /\ data = [i \in Inodes |-> <<>>]
    /\ dest = [o \in ModelObjects |-> NoFile]
    /\ partial = [o \in ModelObjects |-> NoFile]
    /\ step = Idle.step /\ attempt = Idle.attempt /\ got = Idle.got /\ handle = Idle.handle
    /\ main = "idle" /\ next = 1
    /\ tainted = FALSE /\ faults = 0

-----------------------------------------------------------------------------
(* The worker.                                                             *)

Downloads == {o \in ModelObjects : step[o] # "none"}

Fault == faults < MaxFaults /\ faults' = faults + 1

\* The process ends; its downloads end with it and close what they had open.
End(how) ==
    /\ main' = how
    /\ next' = 1
    /\ step' = Idle.step /\ attempt' = Idle.attempt /\ got' = Idle.got /\ handle' = Idle.handle

\* A worker is started on the volume, again after one that failed.
Start ==
    /\ main \in {"idle", "failed"}
    /\ main' = "spawning"
    /\ UNCHANGED <<files, download, next, tainted, faults>>

\* An object that is there is skipped, another one is downloaded.
Consider ==
    /\ main = "spawning"
    /\ next <= ModelFiles
    /\ Cardinality(Downloads) < MaxDownloads
    /\ next' = next + 1
    /\ step' = IF Verified(next) THEN step ELSE [step EXCEPT ![next] = "open"]
    /\ UNCHANGED <<files, attempt, got, handle, main, tainted, faults>>

\* A download is joined when there is no room for another or nothing left to
\* start; the first that failed fails the worker, which drops the others.
Join(o) ==
    /\ main = "spawning"
    /\ next > ModelFiles \/ Cardinality(Downloads) = MaxDownloads
    /\ \/ /\ step[o] = "ok"
          /\ step' = [step EXCEPT ![o] = "none"]
          /\ UNCHANGED <<attempt, got, handle, worker>>
       \/ /\ step[o] = "error"
          /\ End("failed")
    /\ UNCHANGED <<files, tainted, faults>>

\* validate_candidate_model_tree: the whole tree is read once more.
Serve ==
    /\ main = "spawning"
    /\ next > ModelFiles
    /\ Downloads = {}
    /\ End(IF \A o \in ModelObjects : Verified(o) THEN "served" ELSE "failed")
    /\ UNCHANGED <<files, tainted, faults>>

Kill ==
    /\ main = "spawning"
    /\ Fault
    /\ End("failed")
    /\ UNCHANGED <<files, tainted>>

-----------------------------------------------------------------------------
(* One download.                                                           *)

Goto(o, to) == step' = [step EXCEPT ![o] = to]

Length(o) == Len(data[partial[o]])

\* The destination or the partial file may be there already.
Open(o) ==
    /\ step[o] = "open"
    /\ Goto(o, CASE dest[o] # NoFile -> IF Verified(o) THEN "check" ELSE "error"
                 [] dest[o] = NoFile /\ partial[o] = NoFile -> "create"
                 [] OTHER -> IF Length(o) > ModelSize[o] THEN "error" ELSE "request")
    /\ UNCHANGED <<files, attempt, got, handle, worker, tainted, faults>>

Named(i) == \E o \in ModelObjects : i \in {dest[o], partial[o], handle[o]}

\* create_new: a partial file that appeared meanwhile is an error.
Create(o) ==
    /\ step[o] = "create"
    /\ IF partial[o] # NoFile
       THEN Goto(o, "error") /\ UNCHANGED files
       ELSE LET i == CHOOSE i \in Inodes : ~Named(i)
            IN  /\ partial' = [partial EXCEPT ![o] = i]
                /\ data' = [data EXCEPT ![i] = <<>>]
                /\ Goto(o, "request")
                /\ UNCHANGED dest
    /\ UNCHANGED <<attempt, got, handle, worker, tainted, faults>>

\* Mutant: a resumed download asks for the whole file again.
Offset_Start(o) == 0

\* The request asks for what the partial file lacks.
Offset(o) ==
    Length(o)

Request(o) ==
    /\ step[o] = "request"
    /\ IF partial[o] = NoFile
       THEN Goto(o, "error") /\ UNCHANGED got
       ELSE IF attempt[o] = MaxAttempts \/ Length(o) = ModelSize[o]
       THEN Goto(o, "seal") /\ UNCHANGED got
       ELSE Goto(o, "respond") /\ got' = [got EXCEPT ![o] = Offset(o)]
    /\ UNCHANGED <<files, attempt, handle, worker, tainted, faults>>

\* The next of at most MaxAttempts requests.
Retry(o) ==
    /\ attempt' = [attempt EXCEPT ![o] = @ + 1]
    /\ Goto(o, "request")

\* The partial file is opened once the headers have been accepted, which they
\* never are for an offset beyond the object.
Respond(o) ==
    /\ step[o] = "respond"
    /\ IF partial[o] = NoFile \/ got[o] > ModelSize[o]
       THEN Goto(o, "error") /\ UNCHANGED handle
       ELSE Goto(o, "stream") /\ handle' = [handle EXCEPT ![o] = partial[o]]
    /\ UNCHANGED <<files, attempt, got, worker, tainted, faults>>

\* No answer, or one with a wrong status, length or range.
RespondBadly(o) ==
    /\ step[o] = "respond"
    /\ Fault
    /\ \/ Retry(o)
       \/ Goto(o, "error") /\ UNCHANGED attempt
    /\ UNCHANGED <<files, got, handle, worker, tainted>>

Append1(o, byte) ==
    /\ data' = [data EXCEPT ![handle[o]] = Append(@, byte)]
    /\ got' = [got EXCEPT ![o] = @ + 1]

\* Bytes are appended at the end of the file, wherever that is by now.
Receive(o) ==
    /\ step[o] = "stream"
    /\ got[o] < ModelSize[o]
    /\ Append1(o, <<o, got[o] + 1>>)
    /\ UNCHANGED <<dest, partial, step, attempt, handle, worker, tainted, faults>>

ReceiveWrong(o) ==
    /\ step[o] = "stream"
    /\ got[o] < ModelSize[o]
    /\ Fault
    /\ Append1(o, WrongByte)
    /\ tainted' = TRUE
    /\ UNCHANGED <<dest, partial, step, attempt, handle, worker>>

\* More bytes than the object has are not written.
ReceiveTooMany(o) ==
    /\ step[o] = "stream"
    /\ got[o] = ModelSize[o]
    /\ Fault
    /\ Goto(o, "error")
    /\ handle' = [handle EXCEPT ![o] = NoFile]
    /\ UNCHANGED <<files, attempt, got, worker, tainted>>

\* The body ends, early when the connection breaks or stays silent.
EndBody(o) ==
    /\ step[o] = "stream"
    /\ IF got[o] = ModelSize[o]
       THEN Goto(o, "seal") /\ UNCHANGED <<attempt, faults>>
       ELSE Retry(o) /\ Fault
    /\ handle' = [handle EXCEPT ![o] = NoFile]
    /\ UNCHANGED <<files, got, worker, tainted>>

\* Mutant: the bytes of the partial file are counted and not digested.
Sealable_Length(o) == Length(o) = ModelSize[o]

Sealable(o) ==
    data[partial[o]] = WholeFile(o)

\* Length and digest of the partial file; a wrong one stays where it is.
Seal(o) ==
    /\ step[o] = "seal"
    /\ Goto(o, IF partial[o] # NoFile /\ Sealable(o) THEN "link" ELSE "error")
    /\ UNCHANGED <<files, attempt, got, handle, worker, tainted, faults>>

\* hard_link, which never replaces a destination.
Link(o) ==
    /\ step[o] = "link"
    /\ IF partial[o] = NoFile \/ (dest[o] # NoFile /\ ~Verified(o))
       THEN Goto(o, "error") /\ UNCHANGED dest
       ELSE /\ Goto(o, "unlink")
            /\ dest' = IF dest[o] = NoFile THEN [dest EXCEPT ![o] = partial[o]] ELSE dest
    /\ UNCHANGED <<data, partial, attempt, got, handle, worker, tainted, faults>>

Unlink(o) ==
    /\ step[o] = "unlink"
    /\ IF partial[o] = NoFile
       THEN Goto(o, "error") /\ UNCHANGED partial
       ELSE Goto(o, "check") /\ partial' = [partial EXCEPT ![o] = NoFile]
    /\ UNCHANGED <<data, dest, attempt, got, handle, worker, tainted, faults>>

\* The spawned task verifies the file it has downloaded.
Check(o) ==
    /\ step[o] = "check"
    /\ Goto(o, IF Verified(o) THEN "ok" ELSE "error")
    /\ UNCHANGED <<files, attempt, got, handle, worker, tainted, faults>>

Step(o) ==
    \/ Open(o) \/ Create(o) \/ Request(o) \/ Respond(o) \/ RespondBadly(o)
    \/ Receive(o) \/ ReceiveWrong(o) \/ ReceiveTooMany(o) \/ EndBody(o)
    \/ Seal(o) \/ Link(o) \/ Unlink(o) \/ Check(o) \/ Join(o)

Next == Start \/ Consider \/ Serve \/ Kill \/ \E o \in ModelObjects : Step(o)

\* What a download does by itself.
Progress(o) ==
    \/ Open(o) \/ Create(o) \/ Request(o) \/ Respond(o) \/ Receive(o) \/ EndBody(o)
    \/ Seal(o) \/ Link(o) \/ Unlink(o) \/ Check(o) \/ Join(o)

\* A worker that was started goes on, and one that failed is started again;
\* requests are answered unless a fault is spent on them.
Fairness ==
    /\ WF_vars(Start \/ Consider \/ Serve)
    /\ \A o \in ModelObjects : WF_vars(Progress(o))

Spec == Init /\ [][Next]_vars /\ Fairness

-----------------------------------------------------------------------------
(* Properties.                                                             *)

Hydrated == main = "served" \/ tainted

(***************************************************************************)
(* Running the worker again and again ends with a complete model: broken   *)
(* and resumed downloads and kills never leave a partial file that cannot  *)
(* be completed.  Only a wrong byte, which nothing ever removes from the   *)
(* partial file, may prevent it (hydrate_model_object).                    *)
(***************************************************************************)
Rehydrates == <>Hydrated

-----------------------------------------------------------------------------
(* The inductive invariant behind TreeExact.                               *)

\* What the declared objects are.
Declared ==
    /\ ModelFiles \in Nat
    /\ ModelSize \in [ModelObjects -> Nat]

Steps == {"none", "open", "create", "request", "respond", "stream", "seal", "link", "unlink",
          "check", "ok", "error"}

Bytes == {WrongByte} \cup (ModelObjects \X Nat)

Links == [ModelObjects -> Inodes \cup {NoFile}]

(* The type of every variable.                                             *)
TypeOK ==
    /\ data \in [Inodes -> Seq(Bytes)]
    /\ dest \in Links /\ partial \in Links /\ handle \in Links
    /\ step \in [ModelObjects -> Steps]
    /\ attempt \in [ModelObjects -> Nat] /\ got \in [ModelObjects -> Nat]
    /\ main \in {"idle", "spawning", "served", "failed"}
    /\ next \in 1..(ModelFiles + 1)
    /\ tainted \in BOOLEAN
    /\ faults \in Nat

\* Downloads live in a running worker; one that serves has read the whole tree.
Dropped ==
    /\ main # "spawning" => \A o \in ModelObjects : step[o] = "none"
    /\ main = "served" => \A o \in ModelObjects : Verified(o)

\* What a download appends to, when a file has its final name, and what is
\* known of the partial file between its digest and its link.
Own(o) ==
    /\ step[o] = "stream" => handle[o] = partial[o] /\ partial[o] # NoFile
    /\ dest[o] # NoFile => /\ step[o] \in {"none", "open", "unlink", "check", "ok", "error"}
                           /\ data[dest[o]] = WholeFile(o)
    /\ step[o] = "link" => partial[o] # NoFile /\ data[partial[o]] = WholeFile(o)

\* No file is that of two objects.  A final name and the partial name of one
\* object may be links to one file, after a kill between link and unlink.
Apart ==
    \A a, b \in ModelObjects : a # b =>
        /\ partial[a] # NoFile => partial[a] # partial[b] /\ partial[a] # dest[b]
        /\ dest[a] # NoFile => dest[a] # dest[b]

IndInv ==
    /\ TypeOK
    /\ Dropped
    /\ Apart
    /\ \A o \in ModelObjects : Own(o)
=============================================================================
