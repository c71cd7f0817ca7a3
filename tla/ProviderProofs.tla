--------------------------- MODULE ProviderProofs ---------------------------
(***************************************************************************)
(* Proofs about Provider, for every set of proposals and calls, every      *)
(* plan and all limits: a session id denotes one binding for ever, every   *)
(* open session has passed all checks, refused requests change nothing,    *)
(* outputs are in time, and a sealed vector belongs to its query.          *)
(***************************************************************************)
EXTENDS Provider, FiniteSetTheorems, TLAPS

(* Ids are given in order, and only to proposals that pass every check.    *)
Registered ==
    /\ handshaken \in BOOLEAN
    /\ nextSession \in Nat
    /\ sessions = [i \in DOMAIN sessions |-> sessions[i]]
    /\ DOMAIN granted \subseteq 1 .. nextSession
    /\ DOMAIN sessions \subseteq DOMAIN granted
    /\ \A i \in DOMAIN sessions : sessions[i] = granted[i] /\ Opens(sessions[i])

(* No session is open at first.                                            *)
LEMMA RegisteredInit == Init => Registered
  <1> SUFFICES ASSUME Init PROVE Registered
    OBVIOUS
  <1>1. DOMAIN << >> = {}
    OBVIOUS
  <1>2. << >> = [i \in {} |-> << >>[i]]
    OBVIOUS
  <1> QED
    BY <1>1, <1>2 DEF Init, Registered

(* A session is inserted under an id never given before, after the checks. *)
LEMMA OpenRegisters == Registered /\ FinishOpen => Registered'
  <1> SUFFICES ASSUME Registered, FinishOpen PROVE Registered'
    OBVIOUS
  <1> DEFINE p == request.proposal
             n == nextSession + 1
  <1>1. CASE Opens(p)
    <2>1. /\ nextSession' = n
          /\ sessions' = [j \in DOMAIN sessions \cup {n} |-> IF j = n THEN p ELSE sessions[j]]
          /\ granted' = [j \in DOMAIN granted \cup {n} |->
                            IF j \in DOMAIN granted THEN granted[j] ELSE p]
      BY <1>1 DEF FinishOpen, Insert
    <2>6. handshaken' \in BOOLEAN /\ sessions' = [i \in DOMAIN sessions' |-> sessions'[i]]
      BY <2>1 DEF FinishOpen, Registered
    <2>2. nextSession' \in Nat /\ n \notin DOMAIN granted
      BY <2>1 DEF Registered
    <2>3. DOMAIN granted' \subseteq 1 .. nextSession'
      BY <2>1 DEF Registered
    <2>4. DOMAIN sessions' \subseteq DOMAIN granted'
      BY <2>1 DEF Registered
    <2>5. ASSUME NEW i \in DOMAIN sessions'
          PROVE  sessions'[i] = granted'[i] /\ Opens(sessions'[i])
      <3>1. CASE i = n
        BY <1>1, <2>1, <2>2, <3>1
      <3>2. CASE i # n
        <4>1. i \in DOMAIN sessions /\ i \in DOMAIN granted
          BY <2>1, <3>2 DEF Registered
        <4>2. sessions'[i] = sessions[i] /\ granted'[i] = granted[i]
          BY <2>1, <3>2, <4>1
        <4> QED
          BY <4>1, <4>2 DEF Registered
      <3> QED
        BY <3>1, <3>2
    <2> QED
      BY <2>2, <2>3, <2>4, <2>5, <2>6 DEF Registered, Opens, MountsExact, UsesVectorSet, LockBinds,
         ReceiptAdmits, WrapperBinds, LocalComponents, IndexBinds, VectorsBind, LimitsFit
  <1>2. CASE ~ Opens(p)
    BY <1>2 DEF FinishOpen, Registered
  <1> QED
    BY <1>1, <1>2

(* Close removes a session and gives no id.                                *)
LEMMA CloseRegisters == Registered /\ Close => Registered'
  <1> SUFFICES ASSUME Registered, Close PROVE Registered'
    OBVIOUS
  <1> DEFINE S == DOMAIN sessions \ {request.session}
  <1>1. /\ sessions' = [j \in S |-> sessions[j]]
        /\ nextSession' = nextSession /\ granted' = granted
    BY DEF Close, Restrict
  <1>2. \A i \in DOMAIN sessions' : i \in DOMAIN sessions /\ sessions'[i] = sessions[i]
    BY <1>1
  <1>3. sessions' = [i \in DOMAIN sessions' |-> sessions'[i]] /\ handshaken' \in BOOLEAN
    BY <1>1 DEF Close, Registered
  <1>4. nextSession' \in Nat /\ DOMAIN granted' \subseteq 1 .. nextSession'
    BY <1>1 DEF Registered
  <1>5. DOMAIN sessions' \subseteq DOMAIN granted'
    BY <1>1 DEF Registered
  <1>6. ASSUME NEW i \in DOMAIN sessions'
        PROVE  sessions'[i] = granted'[i] /\ Opens(sessions'[i])
    BY <1>1, <1>2 DEF Registered
  <1> QED
    BY <1>3, <1>4, <1>5, <1>6 DEF Registered, Opens, MountsExact, UsesVectorSet, LockBinds,
       ReceiptAdmits, WrapperBinds, LocalComponents, IndexBinds, VectorsBind, LimitsFit

(* No other action touches sessions, ids or their history.                 *)
LEMMA RegisteredStep == Registered /\ [Next]_vars => Registered'
  <1> SUFFICES ASSUME Registered, [Next]_vars PROVE Registered'
    OBVIOUS
  <1>1. CASE FinishOpen
    BY <1>1, OpenRegisters
  <1>2. CASE Close
    BY <1>2, CloseRegisters
  <1>3. CASE UNCHANGED << nextSession, sessions, granted >> /\ handshaken' \in BOOLEAN
    <2>1. /\ nextSession' \in Nat /\ DOMAIN granted' \subseteq 1 .. nextSession'
          /\ sessions' = [i \in DOMAIN sessions' |-> sessions'[i]]
          /\ DOMAIN sessions' \subseteq DOMAIN granted'
      BY <1>3 DEF Registered
    <2>2. ASSUME NEW i \in DOMAIN sessions'
          PROVE  sessions'[i] = granted'[i] /\ Opens(sessions'[i])
      BY <1>3 DEF Registered
    <2> QED
      BY <1>3, <2>1, <2>2 DEF Registered, Opens, MountsExact, UsesVectorSet, LockBinds,
         ReceiptAdmits, WrapperBinds, LocalComponents, IndexBinds, VectorsBind, LimitsFit
  <1>4. \/ FinishOpen
        \/ Close
        \/ UNCHANGED << nextSession, sessions, granted >> /\ handshaken' \in BOOLEAN
    BY DEF Registered, Next, Serve, Receive, Handshake, NotShaken, BeginOpen, Health, BeginCall, Embedded,
           EmbedFails, EmbedTimeout, Search, Enforce, Tick, SetBack, state, vars
  <1> QED
    BY <1>1, <1>2, <1>3, <1>4

(* The inductive invariant of the session table: open gives ids in order   *)
(* and inserts a session after all its checks, close only removes.         *)
THEOREM AlwaysRegistered == Spec => []Registered
  <1> QED
    BY RegisteredInit, RegisteredStep, PTL DEF Spec

(* The pairwise checks of open close the chain of the six mounted files.   *)
LEMMA ChainClosed ==
  ASSUME NEW p, Opens(p)
  PROVE  /\ p.receipt.disposition = "admitted" /\ p.receipt.index = p.wrapper.sha
         /\ p.lock.index = p.wrapper.sha /\ p.lock.receipt = p.receipt.sha
         /\ p.physical.sha = p.wrapper.physical
         /\ p.physical.snapshot = p.lock.snapshot
         /\ p.profile.sha = p.wrapper.profile
         /\ UsesVectorSet(p) => p.vectors.profile = p.physical.profile
  BY DEF Opens, LockBinds, ReceiptAdmits, WrapperBinds, IndexBinds, VectorsBind

(* Every open session searches the index its receipt admits, with vectors  *)
(* of the profile the index was embedded with: what open compares pair by  *)
(* pair implies it, and a session never changes.                           *)
THEOREM SessionsAreAdmitted == Spec => []SessionAdmitted
  <1>1. Registered => SessionAdmitted
    BY ChainClosed DEF Registered, SessionAdmitted
  <1> QED
    BY <1>1, AlwaysRegistered, PTL

(* A request that is refused changes neither the handshake nor sessions:   *)
(* open inserts last, and close of an unknown session removes nothing.     *)
THEOREM RefusalsAreClean == Spec => RefusalsLeaveNoTrace
  <1> DEFINE Clean == pc # "idle" /\ pc' = "idle" /\ reply' # "ok" => UNCHANGED state
  <1>1. Registered /\ [Next]_vars => [Clean]_vars
    <2> SUFFICES ASSUME Registered, Next, pc # "idle", pc' = "idle", reply' # "ok"
                 PROVE  UNCHANGED state
      OBVIOUS
    <2>1. CASE Handshake
      BY <2>1 DEF Handshake, Respond, state, Registered
    <2>2. CASE FinishOpen
      BY <2>2 DEF FinishOpen, Respond, state
    <2>3. CASE Close
      <3>1. request.session \notin DOMAIN sessions
        BY <2>3 DEF Close, Respond
      <3>2. DOMAIN sessions \ {request.session} = DOMAIN sessions
        BY <3>1
      <3>3. sessions' = [i \in DOMAIN sessions |-> sessions[i]]
        BY <2>3, <3>2 DEF Close, Restrict
      <3>4. sessions' = sessions
        BY <3>3 DEF Registered
      <3> QED
        BY <2>3, <3>4 DEF Close, state
    <2>4. CASE ~ (Handshake \/ FinishOpen \/ Close)
      BY <2>4 DEF Next, Serve, Receive, NotShaken, BeginOpen, Health, BeginCall, Embedded,
             EmbedFails, EmbedTimeout, Search, Enforce, Tick, SetBack
    <2> QED
      BY <2>1, <2>2, <2>3, <2>4
  <1> QED
    BY <1>1, AlwaysRegistered, PTL DEF Spec, RefusalsLeaveNoTrace

-----------------------------------------------------------------------------
(* Deadlines.                                                              *)

(* The line in hand is one the host may send, the clocks are natural       *)
(* numbers, and a call that has begun has the earlier of its two limits.   *)
Timed ==
    /\ left \in Nat /\ elapsed \in Nat /\ wall \in Nat /\ due \in Nat
    /\ \A i \in DOMAIN sessions : sessions[i] \in Proposals
    /\ request.method = "open" => request.proposal \in Proposals
    /\ pc = "opening" => request.method = "open"
    /\ pc \in {"embed", "search", "enforce"} =>
         /\ SessionLimits.wallTime \in Nat
         /\ wall <= due /\ wall <= SessionLimits.wallTime

(* The smaller and the larger of two numbers.                              *)
LEMMA OfTwo ==
  ASSUME NEW x \in Int, NEW y \in Int
  PROVE  /\ Min({x, y}) \in {x, y} /\ Min({x, y}) <= x /\ Min({x, y}) <= y
         /\ Max({x, y}) \in {x, y} /\ x <= Max({x, y}) /\ y <= Max({x, y})
  <1>1. \E z \in {x, y} : \A w \in {x, y} : z <= w
    <2>1. CASE x <= y
      BY <2>1
    <2>2. CASE y <= x
      BY <2>2
    <2> QED
      BY <2>1, <2>2
  <1>2. \E z \in {x, y} : \A w \in {x, y} : z >= w
    <2>1. CASE x >= y
      BY <2>1
    <2>2. CASE y >= x
      BY <2>2
    <2> QED
      BY <2>1, <2>2
  <1> QED
    BY <1>1, <1>2 DEF Min, Max

(* No call has begun at first.                                             *)
LEMMA TimedInit == Init => Timed
  BY DEF Init, Timed, NoRequest

(* A response clears the clocks and the line in hand.                      *)
LEMMA RespondTimed ==
  ASSUME Timed, NEW code, Respond(code),
         \A i \in DOMAIN sessions' : sessions'[i] \in Proposals
  PROVE  Timed'
  BY DEF Timed, Respond, NoRequest

(* Every action keeps it: a call takes its limits when it begins, and the  *)
(* session it is for cannot be closed before its answer.                   *)
LEMMA TimedStep == Timed /\ [Next]_vars => Timed'
  <1> SUFFICES ASSUME Timed, [Next]_vars PROVE Timed'
    OBVIOUS
  <1>0. ASSUME UNCHANGED sessions
        PROVE  \A i \in DOMAIN sessions' : sessions'[i] \in Proposals
    BY <1>0 DEF Timed
  <1>1. ASSUME NEW r \in Requests, NEW ticks \in 0 .. MaxLeft, Receive(r, ticks)
        PROVE  Timed'
    <2>1. UNCHANGED sessions
      BY <1>1 DEF Receive, state
    <2>2. CASE \E code : Respond(code)
      BY <1>0, <2>1, <2>2, RespondTimed
    <2>3. CASE request' = r /\ left' = ticks /\ pc' = "dispatch"
               /\ UNCHANGED << elapsed, wall, due >>
      <3>1. r.method = "open" => r.proposal \in Proposals
        BY DEF Requests
      <3>2. ticks \in Nat
        BY ProviderAssumption
      <3> QED
        BY <1>0, <2>1, <2>3, <3>1, <3>2 DEF Timed
    <2> QED
      BY <1>1, <2>2, <2>3 DEF Receive
  <1>2. CASE Handshake
    BY <1>0, <1>2, RespondTimed DEF Handshake
  <1>3. CASE NotShaken \/ EmbedFails \/ EmbedTimeout \/ Health
    BY <1>0, <1>3, RespondTimed DEF NotShaken, EmbedFails, EmbedTimeout, Health, state
  <1>4. CASE BeginOpen
    BY <1>4 DEF BeginOpen, Dispatched, Timed, state, clocks
  <1>5. CASE FinishOpen
    <2>1. CASE Opens(request.proposal)
      <3>1. request.proposal \in Proposals
        BY <1>5 DEF FinishOpen, Timed
      <3>2. \A i \in DOMAIN sessions' : sessions'[i] \in Proposals
        BY <1>5, <2>1, <3>1 DEF FinishOpen, Insert, Timed
      <3> QED
        BY <1>5, <2>1, <3>2, RespondTimed DEF FinishOpen
    <2>2. CASE ~ Opens(request.proposal)
      BY <1>0, <1>5, <2>2, RespondTimed DEF FinishOpen
    <2> QED
      BY <2>1, <2>2
  <1>6. CASE Close
    <2>1. \A i \in DOMAIN sessions' : sessions'[i] \in Proposals
      BY <1>6 DEF Close, Restrict, Timed
    <2> QED
      BY <1>6, <2>1, RespondTimed DEF Close
  <1>7. CASE BeginCall
    <2>1. UNCHANGED sessions
      BY <1>7 DEF BeginCall, state
    <2>2. CASE \E code : Respond(code)
      BY <1>0, <2>1, <2>2, RespondTimed
    <2>3. CASE /\ CallRefusal = "none"
               /\ wall' = EffectiveWall /\ due' = left /\ elapsed' = 0
               /\ pc' \in {"embed", "search"} /\ UNCHANGED << request, left >>
      <3>1. request.session \in DOMAIN sessions
        BY <2>3 DEF CallRefusal
      <3>2. SessionLimits.wallTime \in Nat
        BY <3>1, ProviderAssumption DEF Timed, SessionLimits, Session
      <3>3. left \in Nat
        BY DEF Timed
      <3>4. /\ EffectiveWall \in {left, SessionLimits.wallTime}
            /\ EffectiveWall <= left /\ EffectiveWall <= SessionLimits.wallTime
        <4>1. left \in Int /\ SessionLimits.wallTime \in Int
          BY <3>2, <3>3
        <4> QED
          BY <4>1, OfTwo DEF EffectiveWall
      <3>5. SessionLimits' = SessionLimits
        BY <2>1, <2>3 DEF SessionLimits, Session
      <3> QED
        BY <1>0, <2>1, <2>3, <3>2, <3>3, <3>4, <3>5 DEF Timed
    <2> QED
      BY <1>7, <2>2, <2>3 DEF BeginCall
  <1>8. CASE Embedded \/ SetBack \/ Tick \/ (Search /\ pc' = "enforce")
    <2>1. UNCHANGED << sessions, request, wall, due >>
      BY <1>8 DEF Embedded, SetBack, Tick, Search, Respond, state, clocks
    <2>2. /\ pc' = pc \/ (pc = "embed" /\ pc' = "search") \/ (pc = "search" /\ pc' = "enforce")
      BY <1>8 DEF Embedded, SetBack, Tick, Search
    <2>3. left' \in Nat
      <3>1. CASE Tick
        <4>1. left - 1 \in Int /\ 0 \in Int
          BY DEF Timed
        <4>2. left' = Max({left - 1, 0})
          BY <3>1 DEF Tick
        <4>3. left' \in {left - 1, 0} /\ 0 <= left'
          BY <4>1, <4>2, OfTwo
        <4> QED
          BY <4>1, <4>3
      <3>2. CASE ~ Tick
        BY <1>8, <3>2 DEF Embedded, SetBack, Search, Respond, clocks, Timed
      <3> QED
        BY <3>1, <3>2
    <2>4. elapsed' \in Nat
      BY <1>8 DEF Embedded, SetBack, Tick, Search, Respond, clocks, Timed
    <2>5. SessionLimits' = SessionLimits
      BY <2>1 DEF SessionLimits, Session
    <2> QED
      BY <1>0, <2>1, <2>2, <2>3, <2>4, <2>5 DEF Timed
  <1>9. CASE (\E bytes \in ResultSizes : Enforce(bytes)) \/ (Search /\ pc' # "enforce")
    BY <1>0, <1>9, RespondTimed DEF Enforce, Search, state
  <1>10. CASE UNCHANGED vars
    BY <1>10 DEF vars, state, clocks, Timed, SessionLimits, Session
  <1> QED
    BY <1>1, <1>2, <1>3, <1>4, <1>5, <1>6, <1>7, <1>8, <1>9, <1>10 DEF Next, Serve

(* An answer never comes after the deadline the call had when it began or  *)
(* after the session's wall time, for all limits, however long the search  *)
(* or the embedding took and wherever the system clock was set.            *)
THEOREM OutputsAreInTime == Spec => AnsweredInTime
  <1>1. Timed /\ [Next]_vars => [InTime]_vars
    <2> SUFFICES ASSUME Timed, Next, pc = "enforce", reply' = "ok", pc' = "idle"
                 PROVE  elapsed < Min({due, SessionLimits.wallTime})
      BY DEF InTime
    <2>1. PICK bytes \in ResultSizes : Enforce(bytes)
      BY DEF Next, Serve, Receive, Handshake, NotShaken, BeginOpen, FinishOpen, Health, Close,
         BeginCall, Dispatched, Embedded, EmbedFails, EmbedTimeout, Search, Tick, SetBack
    <2>2. elapsed < wall
      BY <2>1 DEF Enforce, Respond, Timed
    <2>3. /\ SessionLimits.wallTime \in Int /\ due \in Int /\ elapsed \in Int /\ wall \in Int
          /\ wall <= due /\ wall <= SessionLimits.wallTime
      BY DEF Timed
    <2>4. Min({due, SessionLimits.wallTime}) \in {due, SessionLimits.wallTime}
      BY <2>3, OfTwo
    <2> QED
      BY <2>2, <2>3, <2>4
  <1> QED
    BY <1>1, TimedInit, TimedStep, PTL DEF Spec, AnsweredInTime

-----------------------------------------------------------------------------
(* Positions.                                                              *)

(* A set of numbers has a least one.                                       *)
LEMMA LeastNumber ==
    ASSUME NEW T, T \subseteq Nat, T # {}
    PROVE  \E x \in T : \A y \in T : x <= y
<1>1. PICK x \in T : \A y \in T : << y, x >> \notin OpToRel(<, Nat)
  BY NatLessThanWellFounded, WFMin
<1>2. ASSUME NEW y \in T
      PROVE  x <= y
  <2>1. x \in Nat /\ y \in Nat
    OBVIOUS
  <2>2. ~ (y < x)
    BY <1>1, <2>1 DEF OpToRel
  <2>3. QED
    BY <2>1, <2>2
<1>3. QED
  BY <1>2

(* A set of positions has a last one.                                      *)
LEMMA LastPosition ==
    ASSUME NEW n \in Nat, NEW s, s \subseteq 1 .. n, s # {}
    PROVE  Max(s) \in s /\ \A y \in s : y <= Max(s)
<1> DEFINE Above == { k \in Nat : \A y \in s : y <= k }
<1>1. PICK k \in Above : \A j \in Above : k <= j
  <2>1. n \in Above
    OBVIOUS
  <2>2. Above \subseteq Nat /\ Above # {}
    BY <2>1
  <2> HIDE DEF Above
  <2>3. QED
    BY <2>2, LeastNumber
<1>2. k \in s
  <2> SUFFICES ASSUME k \notin s
               PROVE  FALSE
    OBVIOUS
  <2>1. PICK y \in s : TRUE
    OBVIOUS
  <2>2. y \in 1 .. n /\ y <= k /\ k \in Nat
    BY <2>1
  <2>3. k - 1 \in Nat /\ \A z \in s : z <= k - 1
    BY <2>2
  <2>4. k - 1 \in Above
    BY <2>3
  <2>5. k <= k - 1
    BY <1>1, <2>4
  <2>6. QED
    BY <2>2, <2>5
<1>3. k \in s /\ \A y \in s : k >= y
  BY <1>2
<1>4. \A y \in s : y \in Nat
  OBVIOUS
<1>5. QED
  BY <1>3, <1>4 DEF Max

-----------------------------------------------------------------------------
(* The rows of the sealed set.                                             *)

\* rows[n] are the rows after n requests of the plan.
RowsOf(rows, plan) ==
    /\ rows[0] = << >>
    /\ \A n \in 1 .. Len(plan) : rows[n] = WithQuery(rows[n - 1], plan[n])

\* A fold over the positions in s, from the last one.
Turns(g, plan, S) ==
    [s \in SUBSET S |-> IF s = {} THEN << >> ELSE WithQuery(g[s \ {Max(s)}], plan[Max(s)])]

(* A fold over a sequence exists, set of positions by set of positions.    *)
LEMMA TurnsExist ==
    ASSUME NEW n \in Nat, NEW plan
    PROVE  \E g : g = Turns(g, plan, 1 .. n)
<1> DEFINE Bad == { m \in Nat : ~ \E g : g = Turns(g, plan, 1 .. m) }
<1> SUFFICES ASSUME Bad # {}
             PROVE  FALSE
  OBVIOUS
<1>1. PICK m \in Bad : \A k \in Bad : m <= k
  <2>1. Bad \subseteq Nat
    OBVIOUS
  <2> HIDE DEF Bad
  <2>2. QED
    BY <2>1, LeastNumber
<1>2. CASE m = 0
  <2> DEFINE g == [s \in SUBSET (1 .. 0) |-> << >>]
  <2>1. 1 .. 0 = {}
    OBVIOUS
  <2>2. g = Turns(g, plan, 1 .. 0)
    BY <2>1 DEF Turns
  <2>3. QED
    BY <1>1, <1>2, <2>2
<1>3. CASE m # 0
  <2> DEFINE R == 1 .. m - 1
             T == 1 .. m
  <2>1. PICK g : g = Turns(g, plan, R)
    <3>1. m - 1 \in Nat /\ ~ (m <= m - 1)
      BY <1>3
    <3>2. m - 1 \notin Bad
      BY <1>1, <3>1
    <3>3. QED
      BY <3>1, <3>2
  <2> DEFINE h == [s \in SUBSET T |-> IF m \in s THEN WithQuery(g[s \ {m}], plan[m]) ELSE g[s]]
  <2>2. \A s \in SUBSET T : m \notin s => s \in SUBSET R
    BY <1>3
  <2>3. ASSUME NEW s \in SUBSET T
        PROVE  h[s] = Turns(h, plan, T)[s]
    <3>1. CASE s = {}
      <4>1. h[s] = g[s] /\ s \in SUBSET R
        BY <3>1
      <4>2. g[s] = << >>
        BY <2>1, <3>1, <4>1 DEF Turns
      <4>3. QED
        BY <3>1, <4>1, <4>2 DEF Turns
    <3>2. CASE s # {} /\ m \in s
      <4>1. Max(s) \in s /\ \A y \in s : y <= Max(s)
        BY <3>2, LastPosition
      <4>2. Max(s) = m
        <5>1. m <= Max(s) /\ Max(s) \in 1 .. m
          BY <3>2, <4>1
        <5>2. QED
          BY <5>1
      <4>3. h[s] = WithQuery(g[s \ {m}], plan[m]) /\ h[s \ {m}] = g[s \ {m}]
        BY <3>2
      <4> HIDE DEF h
      <4>4. Turns(h, plan, T)[s] = WithQuery(h[s \ {m}], plan[m])
        BY <3>2, <4>2 DEF Turns
      <4>5. QED
        BY <4>3, <4>4
    <3>3. CASE s # {} /\ m \notin s
      <4>1. Max(s) \in s
        BY <3>3, LastPosition
      <4>2. s \in SUBSET R
        BY <2>2, <3>3
      <4>3. h[s] = g[s] /\ h[s \ {Max(s)}] = g[s \ {Max(s)}]
        BY <3>3
      <4> HIDE DEF h
      <4>4. Turns(h, plan, T)[s] = WithQuery(h[s \ {Max(s)}], plan[Max(s)])
        BY <3>3 DEF Turns
      <4>5. Turns(g, plan, R)[s] = WithQuery(g[s \ {Max(s)}], plan[Max(s)])
        BY <3>3, <4>2 DEF Turns
      <4>6. QED
        BY <2>1, <4>3, <4>4, <4>5
    <3>4. QED
      BY <3>1, <3>2, <3>3
  <2>4. h = Turns(h, plan, T)
    BY <2>3 DEF Turns
  <2>5. QED
    BY <1>1, <2>4
<1>4. QED
  BY <1>2, <1>3

(* The rows are computed request by request.                               *)
LEMMA UniqueQueriesUnfold ==
    ASSUME NEW plan, Len(plan) \in Nat, DOMAIN plan = 1 .. Len(plan)
    PROVE  \E rows : RowsOf(rows, plan) /\ UniqueQueries(plan) = rows[Len(plan)]
<1> DEFINE N == Len(plan)
           S == 1 .. N
           fold == CHOOSE g : g = Turns(g, plan, S)
           rows == [n \in 0 .. N |-> fold[1 .. n]]
<1>1. fold = Turns(fold, plan, S)
  BY TurnsExist
<1>2. UniqueQueries(plan) = fold[S]
  BY DEF UniqueQueries, FoldLeft, MapThenFoldSet, Turns
<1> HIDE DEF fold
<1>3. rows[0] = << >>
  <2>1. 1 .. 0 = {} /\ {} \in SUBSET S
    OBVIOUS
  <2>2. fold[{}] = << >>
    BY <1>1, <2>1 DEF Turns
  <2>3. QED
    BY <2>1, <2>2
<1>4. ASSUME NEW n \in 1 .. N
      PROVE  rows[n] = WithQuery(rows[n - 1], plan[n])
  <2> DEFINE s == 1 .. n
  <2>1. s \in SUBSET S /\ n \in s /\ s # {} /\ n \in Nat
    <3>1. \A i \in s : i \in S
      OBVIOUS
    <3>2. n \in s
      OBVIOUS
    <3> HIDE DEF s
    <3>3. QED
      BY <3>1, <3>2
  <2>2. Max(s) = n
    <3>1. Max(s) \in s /\ \A y \in s : y <= Max(s)
      BY <2>1, LastPosition
    <3>2. n <= Max(s) /\ Max(s) \in 1 .. n
      BY <2>1, <3>1
    <3>3. QED
      BY <2>1, <3>2
  <2>3. s \ {n} = 1 .. n - 1
    OBVIOUS
  <2>4. fold[s] = WithQuery(fold[s \ {Max(s)}], plan[Max(s)])
    <3> HIDE DEF s
    <3>1. QED
      BY <1>1, <2>1 DEF Turns
  <2>5. rows[n] = fold[s] /\ rows[n - 1] = fold[1 .. n - 1]
    OBVIOUS
  <2> HIDE DEF s, rows
  <2>6. QED
    BY <2>2, <2>3, <2>4, <2>5
<1>5. rows[N] = fold[S]
  OBVIOUS
<1> HIDE DEF rows
<1>6. RowsOf(rows, plan)
  BY <1>3, <1>4 DEF RowsOf
<1>7. QED
  BY <1>2, <1>5, <1>6

\* rows are the semantic queries of the first n requests, every id once.
RowsExact(rows, plan, n) ==
    /\ rows \in Seq({ [id |-> plan[k].id, query |-> plan[k].query] : k \in 1 .. Len(plan) })
    /\ \A i \in 1 .. Len(rows) : \E k \in 1 .. n :
         Semantic(plan[k]) /\ rows[i].id = plan[k].id /\ rows[i].query = plan[k].query
    /\ \A i, j \in 1 .. Len(rows) : rows[i].id = rows[j].id => i = j
    /\ \A k \in 1 .. n : Semantic(plan[k]) => \E i \in 1 .. Len(rows) : rows[i].id = plan[k].id

(* One more request leaves the rows exact.                                 *)
LEMMA WithQueryExact ==
    ASSUME NEW plan, Len(plan) \in Nat, NEW n \in 1 .. Len(plan), NEW rows,
           RowsExact(rows, plan, n - 1)
    PROVE  RowsExact(WithQuery(rows, plan[n]), plan, n)
<1> DEFINE Row == { [id |-> plan[k].id, query |-> plan[k].query] : k \in 1 .. Len(plan) }
           row == [id |-> plan[n].id, query |-> plan[n].query]
<1>1. rows \in Seq(Row) /\ Len(rows) \in Nat /\ DOMAIN rows = 1 .. Len(rows)
  BY DEF RowsExact
<1>2. \A k \in 1 .. n : k = n \/ k \in 1 .. n - 1
  OBVIOUS
<1>3. \A k \in 1 .. n - 1 : k \in 1 .. n
  OBVIOUS
<1>4. CASE Semantic(plan[n]) /\ \A i \in DOMAIN rows : rows[i].id # plan[n].id
  <2> DEFINE more == Append(rows, row)
  <2>1. WithQuery(rows, plan[n]) = more
    BY <1>4 DEF WithQuery
  <2>2. row \in Row
    OBVIOUS
  <2>3. /\ more \in Seq(Row) /\ Len(more) = Len(rows) + 1
        /\ more[Len(rows) + 1] = row
        /\ \A i \in 1 .. Len(rows) : more[i] = rows[i]
    <3> HIDE DEF Row, row
    <3>1. QED
      BY <1>1, <2>2
  <2>4. row.id = plan[n].id /\ row.query = plan[n].query
    OBVIOUS
  <2>5. \A i \in 1 .. Len(rows) + 1 : i = Len(rows) + 1 \/ i \in 1 .. Len(rows)
    BY <1>1
  <2>6. PICK m : m = more
    OBVIOUS
  <2> HIDE DEF more, row
  <2>7. ASSUME NEW i \in 1 .. Len(rows) + 1
        PROVE  \E k \in 1 .. n :
                  Semantic(plan[k]) /\ m[i].id = plan[k].id /\ m[i].query = plan[k].query
    <3>1. CASE i = Len(rows) + 1
      BY <1>4, <2>3, <2>4, <2>6, <3>1
    <3>2. CASE i \in 1 .. Len(rows)
      <4>1. PICK k \in 1 .. n - 1 :
              Semantic(plan[k]) /\ rows[i].id = plan[k].id /\ rows[i].query = plan[k].query
        BY <3>2 DEF RowsExact
      <4>2. QED
        BY <1>3, <2>3, <2>6, <3>2, <4>1
    <3>3. QED
      BY <2>5, <3>1, <3>2
  <2>8. ASSUME NEW i \in 1 .. Len(rows) + 1, NEW j \in 1 .. Len(rows) + 1, m[i].id = m[j].id
        PROVE  i = j
    <3>1. CASE i \in 1 .. Len(rows) /\ j \in 1 .. Len(rows)
      BY <2>3, <2>6, <2>8, <3>1 DEF RowsExact
    <3>2. CASE i \in 1 .. Len(rows) /\ j = Len(rows) + 1
      BY <1>1, <1>4, <2>3, <2>4, <2>6, <2>8, <3>2
    <3>3. CASE i = Len(rows) + 1 /\ j \in 1 .. Len(rows)
      BY <1>1, <1>4, <2>3, <2>4, <2>6, <2>8, <3>3
    <3>4. QED
      BY <2>5, <3>1, <3>2, <3>3
  <2>9. ASSUME NEW k \in 1 .. n, Semantic(plan[k])
        PROVE  \E i \in 1 .. Len(rows) + 1 : m[i].id = plan[k].id
    <3>1. CASE k = n
      <4>1. Len(rows) + 1 \in 1 .. Len(rows) + 1
        BY <1>1
      <4>2. QED
        BY <2>3, <2>4, <2>6, <3>1, <4>1
    <3>2. CASE k \in 1 .. n - 1
      <4>1. PICK i \in 1 .. Len(rows) : rows[i].id = plan[k].id
        BY <2>9, <3>2 DEF RowsExact
      <4>2. i \in 1 .. Len(rows) + 1
        BY <1>1, <4>1
      <4>3. QED
        BY <2>3, <2>6, <4>1, <4>2
    <3>3. QED
      BY <1>2, <3>1, <3>2
  <2>10. QED
    BY <2>1, <2>3, <2>6, <2>7, <2>8, <2>9 DEF RowsExact
<1>5. CASE ~ (Semantic(plan[n]) /\ \A i \in DOMAIN rows : rows[i].id # plan[n].id)
  <2>1. WithQuery(rows, plan[n]) = rows
    BY <1>5 DEF WithQuery
  <2>2. Semantic(plan[n]) => \E i \in 1 .. Len(rows) : rows[i].id = plan[n].id
    BY <1>1, <1>5
  <2>3. RowsExact(rows, plan, n)
    BY <1>2, <1>3, <2>2 DEF RowsExact
  <2>4. QED
    BY <2>1, <2>3
<1>6. QED
  BY <1>4, <1>5

(* The rows of the set are the semantic queries of the plan, once each.    *)
LEMMA UniqueQueriesExact ==
    ASSUME NEW plan, Len(plan) \in Nat, DOMAIN plan = 1 .. Len(plan)
    PROVE  RowsExact(UniqueQueries(plan), plan, Len(plan))
<1>1. PICK rows : RowsOf(rows, plan) /\ UniqueQueries(plan) = rows[Len(plan)]
  BY UniqueQueriesUnfold
<1> DEFINE Bad == { n \in 0 .. Len(plan) : ~ RowsExact(rows[n], plan, n) }
<1>2. Bad = {}
  <2> SUFFICES ASSUME Bad # {}
               PROVE  FALSE
    OBVIOUS
  <2>1. PICK n \in Bad : \A m \in Bad : n <= m
    <3>1. Bad \subseteq Nat
      OBVIOUS
    <3> HIDE DEF Bad
    <3>2. QED
      BY <3>1, LeastNumber
  <2>2. CASE n = 0
    <3>1. rows[0] = << >>
      BY <1>1 DEF RowsOf
    <3>2. RowsExact(<< >>, plan, 0)
      BY DEF RowsExact
    <3>3. QED
      BY <2>1, <2>2, <3>1, <3>2
  <2>3. CASE n # 0
    <3>1. n \in 1 .. Len(plan) /\ n - 1 \in 0 .. Len(plan) /\ ~ (n <= n - 1)
      BY <2>3
    <3>2. n - 1 \notin Bad
      BY <2>1, <3>1
    <3>3. RowsExact(rows[n - 1], plan, n - 1)
      BY <3>1, <3>2
    <3>4. rows[n] = WithQuery(rows[n - 1], plan[n])
      BY <1>1, <3>1 DEF RowsOf
    <3>5. RowsExact(rows[n], plan, n)
      BY <3>1, <3>3, <3>4, WithQueryExact
    <3>6. QED
      BY <3>5
  <2>4. QED
    BY <2>2, <2>3
<1>3. Len(plan) \in 0 .. Len(plan) /\ Len(plan) \notin Bad
  BY <1>2
<1>4. QED
  BY <1>1, <1>3

-----------------------------------------------------------------------------
(* A semantic request admitted to a plan has one row, and all requests of  *)
(* the plan with its text, mode, top_n and relations have that row's id.   *)
LEMMA AdmittedRow ==
    ASSUME NEW plan, Len(plan) \in Nat, DOMAIN plan = 1 .. Len(plan), PlanValid(plan),
           NEW c, Semantic(c), NEW profile, NEW composed,
           Admitted(plan, profile, composed, c)
    PROVE  LET same == { i \in DOMAIN plan :
                            plan[i].query = c.query /\ Wanted(plan[i]) = Wanted(c) } IN
           /\ Cardinality({ plan[i].id : i \in same }) = 1
           /\ \A i \in same :
                 plan[i].id = UniqueQueries(plan)[VectorRow(plan, profile, composed, c)].id
<1> DEFINE same == { i \in DOMAIN plan :
                        plan[i].query = c.query /\ Wanted(plan[i]) = Wanted(c) }
           rows == UniqueQueries(plan)
           row == VectorRow(plan, profile, composed, c)
           matching == Matches(plan, profile, composed, c)
<1>0. \A i, j \in DOMAIN plan : plan[i].id = plan[j].id => plan[i].query = plan[j].query
  BY DEF PlanValid
<1>1. RowsExact(rows, plan, Len(plan))
  BY UniqueQueriesExact
<1>2. DOMAIN rows = 1 .. Len(rows)
  BY <1>1 DEF RowsExact
<1>3. PICK v : matching = {v}
  <2>1. Cardinality(matching) = 1
    BY DEF Admitted
  <2>2. IsFiniteSet(matching)
    <3>1. Len(rows) \in Nat
      BY <1>1 DEF RowsExact
    <3>2. matching \subseteq 1 .. Len(rows)
      BY <1>2 DEF Matches
    <3>3. IsFiniteSet(1 .. Len(rows))
      BY <3>1, FS_Interval
    <3>4. QED
      BY <3>2, <3>3, FS_Subset
  <2>3. QED
    BY <2>1, <2>2, FS_Singleton
<1>4. row = v /\ v \in matching
  BY <1>3 DEF VectorRow
<1> HIDE DEF row
<1>5. ASSUME NEW i \in same
      PROVE  plan[i].id = rows[v].id
  <2>1. plan[i].query = c.query /\ Wanted(plan[i]) = Wanted(c) /\ i \in DOMAIN plan
    OBVIOUS
  <2>2. Semantic(plan[i])
    BY <2>1 DEF Wanted, Semantic
  <2>3. PICK j \in 1 .. Len(rows) : rows[j].id = plan[i].id
    BY <1>1, <2>1, <2>2 DEF RowsExact
  <2>4. PICK k \in DOMAIN plan : rows[j].id = plan[k].id /\ rows[j].query = plan[k].query
    BY <1>1, <2>3 DEF RowsExact
  <2>5. plan[k].query = plan[i].query
    BY <1>0, <2>1, <2>3, <2>4
  <2>6. Surface(rows[j].id, c) = Surface(plan[i].id, plan[i])
    BY <2>1, <2>3 DEF Surface
  <2>7. j \in matching
    <3>1. rows[j].query = c.query
      BY <2>1, <2>4, <2>5
    <3>2. rows[v].query = c.query /\ ComposeQuery(profile, rows[v].query) = composed
      BY <1>4 DEF Matches
    <3>3. ComposeQuery(profile, rows[j].query) = composed
      BY <3>1, <3>2
    <3>4. QED
      BY <1>2, <2>1, <2>3, <2>6, <3>1, <3>3 DEF Matches, Surfaces
  <2>8. QED
    BY <1>3, <2>3, <2>7
<1>6. \E i \in same : TRUE
  <2>1. /\ v \in DOMAIN rows /\ rows[v].query = c.query
        /\ Surface(rows[v].id, c) \in Surfaces(plan)
    BY <1>4 DEF Matches
  <2>2. PICK i \in DOMAIN plan : Surface(rows[v].id, c) = Surface(plan[i].id, plan[i])
    BY <2>1 DEF Surfaces
  <2>3. rows[v].id = plan[i].id /\ Wanted(c) = Wanted(plan[i])
    BY <2>2 DEF Surface
  <2>4. PICK k \in DOMAIN plan : rows[v].id = plan[k].id /\ rows[v].query = plan[k].query
    BY <1>1, <1>2, <2>1 DEF RowsExact
  <2>5. plan[k].query = plan[i].query
    BY <1>0, <2>3, <2>4
  <2>6. QED
    BY <2>1, <2>3, <2>4, <2>5
<1>7. { plan[i].id : i \in same } = { rows[v].id }
  <2> HIDE DEF same, rows
  <2>1. QED
    BY <1>5, <1>6
<1>8. Cardinality({ plan[i].id : i \in same }) = 1
  BY <1>7, FS_Singleton
<1>9. \A i \in same : plan[i].id = rows[VectorRow(plan, profile, composed, c)].id
  BY <1>4, <1>5 DEF row
<1>10. QED
  BY <1>8, <1>9

-----------------------------------------------------------------------------
(* The vector of the call in hand.                                         *)

\* The vector is that of the request in hand, which was admitted to the plan.
Addressed ==
    /\ pc \in {"idle", "dispatch", "opening"} => vector = NoVector
    /\ vector.from = "sealed" =>
         /\ NeedsVector(request.call)
         /\ \E profile, composed :
               /\ Admitted(Plan, profile, composed, request.call)
               /\ vector.row = VectorRow(Plan, profile, composed, request.call)

(* Every step leaves the vector with the request it was chosen for.        *)
LEMMA AddressedStep == Addressed /\ [Next]_vars => Addressed'
<1> SUFFICES ASSUME Addressed, [Next]_vars
             PROVE  Addressed'
  OBVIOUS
<1>1. NoVector.from # "sealed"
  BY DEF NoVector
<1>2. ASSUME NEW code, Respond(code)
      PROVE  Addressed'
  BY <1>1, <1>2 DEF Respond, Addressed
<1>3. CASE UNCHANGED << request, pc, vector >>
  BY <1>3 DEF Addressed, NeedsVector
<1>4. CASE BeginCall
  <2> DEFINE c == request.call
             sealed == NeedsVector(c) /\ UsesVectorSet(Session)
  <2>1. CASE \E code : Respond(code)
    BY <1>2, <2>1
  <2>2. CASE ~ (\E code : Respond(code))
    <3>1. /\ vector' = IF sealed THEN [from |-> "sealed", row |-> RowOf(c)] ELSE NoVector
          /\ pc' \in {"embed", "search"} /\ request' = request
          /\ sealed => ~ SealedRefused(c)
      BY <1>4, <2>2 DEF BeginCall
    <3>2. CASE sealed
      <4>1. /\ vector'.row = RowOf(c) /\ NeedsVector(c) /\ request'.call = c
            /\ Admitted(Plan, Session.vectors.profile, Composed(c), c)
        BY <3>1, <3>2 DEF SealedRefused
      <4>2. QED
        BY <3>1, <4>1 DEF Addressed, RowOf
    <3>3. CASE ~ sealed
      BY <1>1, <3>1, <3>3 DEF Addressed
    <3>4. QED
      BY <3>2, <3>3
  <2>3. QED
    BY <2>1, <2>2
<1>5. CASE Next /\ ~ BeginCall
  <2>1. ASSUME NEW r \in Requests, NEW ticks \in 0 .. MaxLeft, Receive(r, ticks)
        PROVE  Addressed'
    BY <1>1, <1>2, <2>1 DEF Receive, Addressed
  <2>2. CASE Handshake \/ NotShaken \/ Health \/ Close \/ EmbedTimeout \/ EmbedFails
    BY <1>2, <2>2 DEF Handshake, NotShaken, Health, Close, EmbedTimeout, EmbedFails
  <2>3. CASE BeginOpen
    BY <1>1, <2>3 DEF BeginOpen, Dispatched, Addressed, clocks
  <2>4. CASE FinishOpen
    BY <1>2, <2>4 DEF FinishOpen
  <2>5. CASE Search
    BY <1>2, <2>5 DEF Search, Addressed, clocks, NeedsVector
  <2>6. ASSUME NEW bytes \in ResultSizes, Enforce(bytes)
        PROVE  Addressed'
    BY <1>2, <2>6 DEF Enforce
  <2>7. CASE Embedded
    BY <2>7 DEF Embedded, Addressed
  <2>8. CASE Tick \/ SetBack
    BY <1>3, <2>8 DEF Tick, SetBack
  <2>9. QED
    BY <1>5, <2>1, <2>2, <2>3, <2>4, <2>5, <2>6, <2>7, <2>8 DEF Next, Serve
<1>6. QED
  BY <1>3, <1>4, <1>5 DEF vars, clocks

(* A sealed vector given to a call belongs to the only query of the plan   *)
(* with the call's text, mode, top_n and relations.                        *)
THEOREM VectorsOfQueries == Spec => []VectorOfQuery
<1>1. Init => Addressed
  BY DEF Init, Addressed, NoVector
<1>2. Addressed => VectorOfQuery
  <2> SUFFICES ASSUME Addressed, vector.from = "sealed"
               PROVE  VectorOfQuery
    BY DEF VectorOfQuery
  <2>1. Semantic(request.call)
    BY DEF Addressed, NeedsVector, Semantic
  <2>2. PICK profile, composed :
           /\ Admitted(Plan, profile, composed, request.call)
           /\ vector.row = VectorRow(Plan, profile, composed, request.call)
    BY DEF Addressed
  <2>3. Len(Plan) \in Nat /\ DOMAIN Plan = 1 .. Len(Plan) /\ PlanValid(Plan)
    BY ProviderAssumption
  <2>4. QED
    <3> DEFINE c == request.call
               same == { i \in DOMAIN Plan :
                            Plan[i].query = c.query /\ Wanted(Plan[i]) = Wanted(c) }
    <3>1. Semantic(c) /\ Admitted(Plan, profile, composed, c)
      BY <2>1, <2>2
    <3>2. vector.row = VectorRow(Plan, profile, composed, c)
      BY <2>2
    <3> HIDE DEF c
    <3>3. /\ Cardinality({ Plan[i].id : i \in same }) = 1
          /\ \A i \in same :
                Plan[i].id = UniqueQueries(Plan)[VectorRow(Plan, profile, composed, c)].id
      BY <2>3, <3>1, AdmittedRow, ZenonT(60)
    <3>4. QED
      BY <3>2, <3>3 DEF VectorOfQuery, c
<1>3. QED
  BY <1>1, <1>2, AddressedStep, PTL DEF Spec
=============================================================================
