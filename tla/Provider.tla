------------------------------ MODULE Provider ------------------------------
(***************************************************************************)
(* The evidence provider (rag-provider/src/lib.rs): a process that answers *)
(* one JSON line at a time with handshake, open, call, health and close.   *)
(*                                                                         *)
(* A request comes with a deadline on the system clock, of which `left`    *)
(* ticks remain when it is read; a request that waited behind a slow call  *)
(* may have none left.  A call measures itself on the monotonic clock as   *)
(* well.  Time passes between the steps, and the system clock may be set   *)
(* back.  The embedding service need not answer.                           *)
(*                                                                         *)
(* An open proposal names components by digest and comes with what the     *)
(* mounted files say; the digest of a file is its field sha.               *)
(***************************************************************************)
EXTENDS QueryVectorSet, Functions

CONSTANTS
    Proposals,    \* the open requests the host may send, with their mounts
    Calls,        \* the calls it may send
    Plan,         \* the query plan of the sealed vector set
    Limits,       \* limits by name
    MaxSessions,  \* bound: sessions opened
    MaxLeft,      \* bound: ticks to a deadline
    MaxSearch     \* bound: ticks a search takes

ASSUME ProviderAssumption ==
    /\ Len(Plan) \in Nat /\ DOMAIN Plan = 1 .. Len(Plan)
    /\ PlanValid(Plan)
    /\ MaxSessions \in Nat /\ MaxLeft \in Nat /\ MaxSearch \in Nat
    /\ \A l \in DOMAIN Limits : Limits[l].wallTime \in Nat
    /\ \A p \in Proposals : p.limits \in DOMAIN Limits

VARIABLES
    handshaken, nextSession, sessions,
    granted,   \* history: the proposal every session id was given for
    request,   \* the line in hand
    pc,
    left,      \* ticks to the deadline on the system clock
    elapsed,   \* ticks since `started`
    waited,    \* ticks of the embedding request or of the search
    wall,      \* effective_wall_ms
    due,       \* history: ticks to the deadline when the call began
    vector,    \* the query vector of the call
    reply      \* code of the last response

clocks == << left, elapsed, waited, wall, due, vector >>
state == << handshaken, nextSession, sessions, granted >>
vars == << state, request, pc, clocks, reply >>

NoRequest == [method |-> "none"]
NoVector == [from |-> "none"]
MaxCandidates == 100

-----------------------------------------------------------------------------
(* open: the checks of a proposal p.                                       *)

\* Search without endpoint reads a sealed vector set, mounted for it alone.
UsesVectorSet(p) == p.tool = "search" /\ p.contract = "offline"

MountsExact(p) ==
    /\ p.contract \in {"offline", "loopback"}
    /\ ~ (p.tool = "similar" /\ p.contract = "loopback")
    /\ (p.vectorMount # "none") = UsesVectorSet(p)

LockBinds(p) ==
    /\ p.lock.sha = p.lockSha
    /\ p.lock.tool = p.tool
    /\ p.lock.index = p.index
    /\ p.lock.snapshot = p.snapshot
    /\ p.lock.contract = p.contract
    /\ p.lock.limits = p.limits
    /\ p.lock.format \in {"v2", "v3"}
    /\ p.lock.executable = "running"

ReceiptAdmits(p) ==
    /\ p.receipt.sha = p.lock.receipt
    /\ p.receipt.index = p.index
    /\ p.receipt.disposition = "admitted"

LocalComponents(p) ==
    CASE p.tool = "similar" -> {}
      [] UsesVectorSet(p) -> {p.profileMount, p.vectorMount}
      [] OTHER -> {p.profileMount}

(* The SDK's wrapper of the index.                                         *)
WrapperBinds(p) ==
    /\ p.wrapper.sha = p.index
    /\ p.wrapper.objects = "intact"
    /\ p.wrapper.format = p.lock.format
    /\ p.wrapper.snapshot = p.snapshot
    /\ p.wrapper.profile = p.profileMount
    /\ p.wrapper.contract = p.contract
    /\ p.wrapper.components = LocalComponents(p)

(* index.json, the opened index and the file of its embedding profile.     *)
IndexBinds(p) ==
    /\ p.physical.purpose # "test_only"
    /\ p.physical.sha = p.wrapper.physical
    /\ p.physical.format = p.lock.format
    /\ p.physical.mapping = p.wrapper.mapping
    /\ p.physical.snapshot = p.snapshot
    /\ p.physical.profile = p.profile.sha
    /\ p.physical.profile = p.profileMount

(* open_bound_query_vector_set.                                            *)
VectorsBind(p) ==
    UsesVectorSet(p) => p.vectors.profile = p.profileMount /\ p.vectors.sha = p.vectorMount

LimitsFit(p) == Limits[p.limits].candidates <= MaxCandidates

\* Mutant: the profile of the vector set is taken on trust.
OpensTrusting(p) ==
    /\ MountsExact(p) /\ LockBinds(p) /\ ReceiptAdmits(p) /\ WrapperBinds(p)
    /\ IndexBinds(p) /\ LimitsFit(p)

Opens(p) ==
    /\ MountsExact(p)
    /\ LockBinds(p)
    /\ ReceiptAdmits(p)
    /\ WrapperBinds(p)
    /\ IndexBinds(p)
    /\ VectorsBind(p)
    /\ LimitsFit(p)

-----------------------------------------------------------------------------
Init ==
    /\ handshaken = FALSE
    /\ nextSession = 0
    /\ sessions = << >>
    /\ granted = << >>
    /\ request = NoRequest
    /\ pc = "idle"
    /\ left = 0 /\ elapsed = 0 /\ waited = 0 /\ wall = 0 /\ due = 0
    /\ vector = NoVector
    /\ reply = "none"

SessionIds == 1 .. MaxSessions

Requests ==
    { [method |-> m] : m \in {"handshake", "malformed"} }
    \cup { [method |-> "open", proposal |-> p] : p \in Proposals }
    \cup { [method |-> m, session |-> i] : m \in {"health", "close"}, i \in SessionIds }
    \cup { [method |-> "call", session |-> i, call |-> c] : i \in SessionIds, c \in Calls }

(* serve writes one response and reads the next line.                      *)
Respond(code) ==
    /\ reply' = code
    /\ pc' = "idle"
    /\ request' = NoRequest
    /\ left' = 0 /\ elapsed' = 0 /\ waited' = 0 /\ wall' = 0 /\ due' = 0
    /\ vector' = NoVector

(* handle: the shape of the request and its deadline.                      *)
Receive(r, ticks) ==
    /\ pc = "idle"
    /\ r.method = "open" => nextSession < MaxSessions
    /\ IF r.method = "malformed" THEN Respond("invalid_request")
       ELSE IF ticks = 0 THEN Respond("deadline_exceeded")
       ELSE /\ request' = r
            /\ left' = ticks
            /\ pc' = "dispatch"
            /\ UNCHANGED << elapsed, waited, wall, due, vector, reply >>
    /\ UNCHANGED state

Dispatched(method) == pc = "dispatch" /\ request.method = method

Handshake ==
    /\ Dispatched("handshake")
    /\ handshaken' = TRUE
    /\ Respond(IF handshaken THEN "protocol_error" ELSE "ok")
    /\ UNCHANGED << nextSession, sessions, granted >>

(* require_handshake.                                                      *)
NotShaken ==
    /\ pc = "dispatch"
    /\ request.method # "handshake"
    /\ ~ handshaken
    /\ Respond("protocol_error")
    /\ UNCHANGED state

(* open reads and digests every mounted file before it decides.            *)
BeginOpen ==
    /\ Dispatched("open")
    /\ handshaken
    /\ pc' = "opening"
    /\ UNCHANGED << state, request, clocks, reply >>

Insert(i, p) ==
    /\ sessions' = [j \in DOMAIN sessions \cup {i} |-> IF j = i THEN p ELSE sessions[j]]
    /\ granted' = [j \in DOMAIN granted \cup {i} |-> IF j \in DOMAIN granted THEN granted[j] ELSE p]

FinishOpen ==
    /\ pc = "opening"
    /\ IF Opens(request.proposal)
       THEN /\ nextSession' = nextSession + 1
            /\ Insert(nextSession + 1, request.proposal)
            /\ Respond("ok")
       ELSE Respond("invalid_binding") /\ UNCHANGED << nextSession, sessions, granted >>
    /\ UNCHANGED handshaken

Health ==
    /\ Dispatched("health")
    /\ handshaken
    /\ Respond(IF request.session \in DOMAIN sessions THEN "ok" ELSE "not_found")
    /\ UNCHANGED state

Close ==
    /\ Dispatched("close")
    /\ handshaken
    /\ sessions' = Restrict(sessions, DOMAIN sessions \ {request.session})
    /\ Respond(IF request.session \in DOMAIN sessions THEN "ok" ELSE "not_found")
    /\ UNCHANGED << handshaken, nextSession, granted >>

-----------------------------------------------------------------------------
(* call.                                                                   *)

Session == sessions[request.session]
SessionLimits == Limits[Session.limits]

EffectiveWall ==
    Min({left, SessionLimits.wallTime})

(* The checks before the search, in the code's order: the code to refuse   *)
(* with, or "none".                                                        *)
CallRefusal ==
    LET c == request.call IN
    CASE request.session \notin DOMAIN sessions -> "not_found"
      [] request.session \in DOMAIN sessions ->
         IF c.bytes > SessionLimits.requestBytes THEN "resource_exhausted"
         ELSE IF EffectiveWall = 0 THEN "deadline_exceeded"
         ELSE IF c.tool # Session.tool THEN "policy_denied"
         ELSE IF c.topN > SessionLimits.candidates \/ c.topN > MaxCandidates THEN "resource_exhausted"
         ELSE "none"

\* The call's text as the session's index composes it.
Composed(c) == ComposeQuery(Session.physical.profile, c.query)

RowsMatching(c) == Matches(Plan, Session.vectors.profile, Composed(c), c)

RowOf(c) == VectorRow(Plan, Session.vectors.profile, Composed(c), c)

\* Mutant: the first of several rows is taken.
SealedRefusedAbsent(c) == c.timed \/ RowsMatching(c) = {}

(* sealed_query_vector.                                                    *)
SealedRefused(c) ==
    c.timed \/ ~ Admitted(Plan, Session.vectors.profile, Composed(c), c)

NeedsVector(c) == c.tool = "search" /\ c.mode \in {"dense", "fused"}

(* Lexical and similarity calls need no query vector; a sealed one is at   *)
(* hand; the others ask the embedding service.                             *)
BeginCall ==
    /\ Dispatched("call")
    /\ handshaken
    /\ LET c == request.call
           sealed == NeedsVector(c) /\ UsesVectorSet(Session)
           ask == NeedsVector(c) /\ ~ UsesVectorSet(Session) IN
       IF CallRefusal # "none" THEN Respond(CallRefusal)
       ELSE IF sealed /\ SealedRefused(c) THEN Respond("invalid_request")
       ELSE /\ wall' = EffectiveWall /\ due' = left
            /\ elapsed' = 0 /\ waited' = 0
            /\ vector' = IF sealed THEN [from |-> "sealed", row |-> RowOf(c)] ELSE NoVector
            /\ pc' = IF ask THEN "embed" ELSE "search"
            /\ UNCHANGED << request, left, reply >>
    /\ UNCHANGED state

(* embed_bound_query: the service answers, in time.                        *)
Embedded ==
    /\ pc = "embed"
    /\ waited < wall
    /\ vector' = [from |-> "service", query |-> request.call.query]
    /\ waited' = 0
    /\ pc' = "search"
    /\ UNCHANGED << state, request, left, elapsed, wall, due, reply >>

(* The service fails, or answers for another model or a wrong vector.      *)
EmbedFails ==
    /\ pc = "embed"
    /\ waited < wall
    /\ \E code \in {"unavailable", "invalid_binding"} : Respond(code)
    /\ UNCHANGED state

\* Mutant: a request that is not answered is waited for.
EmbedTimeoutNever ==
    /\ pc = "embed"
    /\ waited >= wall
    /\ UNCHANGED vars

EmbedTimeout ==
    /\ pc = "embed"
    /\ waited >= wall
    /\ Respond("deadline_exceeded")
    /\ UNCHANGED state

(* FastIndex::search and ::similar, which nothing interrupts.              *)
Search ==
    /\ pc = "search"
    /\ \/ /\ pc' = "enforce"
          /\ UNCHANGED << request, clocks, reply >>
       \/ \E code \in {"corrupt_artifact", "invalid_request"} : Respond(code)
       \/ request.call.tool = "similar" /\ Respond("not_found")
    /\ UNCHANGED state

\* Mutant: only the deadline counts.
EnforceDeadline(bytes) ==
    /\ pc = "enforce"
    /\ Respond(IF left = 0 THEN "deadline_exceeded"
               ELSE IF bytes > SessionLimits.resultBytes THEN "resource_exhausted"
               ELSE "ok")
    /\ UNCHANGED state

(* enforce_call_output.                                                    *)
Enforce(bytes) ==
    /\ pc = "enforce"
    /\ Respond(IF elapsed >= wall \/ left = 0 THEN "deadline_exceeded"
               ELSE IF bytes > SessionLimits.resultBytes THEN "resource_exhausted"
               ELSE "ok")
    /\ UNCHANGED state

-----------------------------------------------------------------------------
(* Time.  A timer that is due fires before more time passes.               *)
Tick ==
    /\ \/ pc \in {"dispatch", "opening"} /\ left > 0
       \/ pc = "embed" /\ waited < wall
       \/ pc = "search" /\ waited < MaxSearch
    /\ left' = Max({left - 1, 0})
    /\ IF pc \in {"embed", "search"}
       THEN elapsed' = elapsed + 1 /\ waited' = waited + 1
       ELSE UNCHANGED << elapsed, waited >>
    /\ UNCHANGED << state, request, pc, wall, due, vector, reply >>

(* The system clock is set back.                                           *)
SetBack ==
    /\ pc # "idle"
    /\ left < MaxLeft
    /\ left' = left + 1
    /\ UNCHANGED << state, request, pc, elapsed, waited, wall, due, vector, reply >>

ResultSizes == {1, 2}

Serve ==
    \/ Handshake \/ NotShaken \/ BeginOpen \/ FinishOpen \/ Health \/ Close
    \/ BeginCall \/ EmbedTimeout \/ Search
    \/ \E bytes \in ResultSizes : Enforce(bytes)

Next ==
    \/ \E r \in Requests, ticks \in 0 .. MaxLeft : Receive(r, ticks)
    \/ Serve
    \/ Embedded \/ EmbedFails
    \/ Tick
    \/ SetBack

Spec == Init /\ [][Next]_vars

(* The process runs on, searches end and time passes.  Nothing is assumed  *)
(* of the embedding service or of the host.                                *)
FairSpec == Spec /\ WF_vars(Serve) /\ WF_vars(Tick)
-----------------------------------------------------------------------------
(* Properties.                                                             *)

Codes == {"none", "ok", "protocol_error", "invalid_request", "invalid_binding", "not_found",
          "policy_denied", "resource_exhausted", "deadline_exceeded", "unavailable",
          "corrupt_artifact"}

(* The type of every variable.                                             *)
TypeOK ==
    /\ handshaken \in BOOLEAN
    /\ nextSession \in 0 .. MaxSessions
    /\ DOMAIN sessions \subseteq DOMAIN granted
    /\ DOMAIN granted \subseteq SessionIds
    /\ \A i \in DOMAIN granted : granted[i] \in Proposals
    /\ request \in Requests \cup {NoRequest}
    /\ pc \in {"idle", "dispatch", "opening", "embed", "search", "enforce"}
    /\ left \in 0 .. MaxLeft
    /\ due \in 0 .. MaxLeft
    /\ wall \in 0 .. due
    /\ reply \in Codes

(* A session id denotes the binding it was given for, as long as the       *)
(* process lives: no id is given twice, also after sessions were closed.   *)
(* That binding's index is the one that its receipt admits and its lock    *)
(* names, over the snapshot of the lock, and its query vectors come from   *)
(* the profile the index was embedded with.  The proposal compares         *)
(* neighbours only, along a chain of six files.                            *)
SessionAdmitted ==
    \A i \in DOMAIN sessions :
        LET p == sessions[i] IN
        /\ p = granted[i]
        /\ p.receipt.disposition = "admitted" /\ p.receipt.index = p.wrapper.sha
        /\ p.lock.index = p.wrapper.sha /\ p.lock.receipt = p.receipt.sha
        /\ p.physical.sha = p.wrapper.physical
        /\ p.physical.snapshot = p.lock.snapshot
        /\ p.profile.sha = p.wrapper.profile
        /\ UsesVectorSet(p) => p.vectors.profile = p.physical.profile

(* The query vector of a call belongs to its text: a sealed one to the     *)
(* only query of the plan with the same text, mode, top_n and relations.   *)
VectorOfQuery ==
    vector.from = "sealed" =>
        LET c == request.call
            same == { i \in DOMAIN Plan : Plan[i].query = c.query /\ Wanted(Plan[i]) = Wanted(c) } IN
        /\ Cardinality({ Plan[i].id : i \in same }) = 1
        /\ \A i \in same : Plan[i].id = UniqueQueries(Plan)[vector.row].id

(* A refused request leaves handshake and sessions as they were.           *)
RefusalsLeaveNoTrace ==
    [][ pc # "idle" /\ pc' = "idle" /\ reply' # "ok" => UNCHANGED state ]_vars

(* A call that returns its output has taken less than the session's wall   *)
(* time and less than what was left to its deadline when it began, also if *)
(* the system clock was set back meanwhile.                                *)
InTime ==
    pc = "enforce" /\ reply' = "ok" /\ pc' = "idle" =>
        elapsed < Min({due, SessionLimits.wallTime})

AnsweredInTime == [][InTime]_vars

(* Every request is answered, whatever the embedding service does.         *)
Answers == pc # "idle" ~> pc = "idle"
=============================================================================
