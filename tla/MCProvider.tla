----------------------------- MODULE MCProvider -----------------------------
(* Provider for TLC: proposals that agree in every field, and those that   *)
(* differ in one field of one mounted file.                                *)
EXTENDS Provider

MCLimits ==
    [usual |-> [requestBytes |-> 1, resultBytes |-> 1, wallTime |-> 2, candidates |-> 2],
     wide |-> [requestBytes |-> 1, resultBytes |-> 1, wallTime |-> 2, candidates |-> 101]]

Row(i, q, m) == [id |-> i, query |-> q, mode |-> m, topN |-> 1, relations |-> << 1 >>]

\* q1 and q2 have one text; only q1 asks for it in fused mode.
MCPlan ==
    << Row("q3", "b", "lexical"), Row("q1", "a", "dense"), Row("q1", "a", "fused"),
       Row("q2", "a", "dense"), Row("q3", "b", "fused") >>

Query(q, m, n, timed) ==
    [tool |-> "search", bytes |-> 1, query |-> q, mode |-> m, topN |-> n,
     relations |-> << 1 >>, timed |-> timed]

Seed(n, bytes) == [tool |-> "similar", bytes |-> bytes, topN |-> n]

MCCalls ==
    { Query("a", "dense", 1, FALSE), Query("a", "fused", 1, FALSE), Query("b", "fused", 1, FALSE),
      Query("b", "fused", 2, FALSE), Query("b", "fused", 1, TRUE), Query("c", "lexical", 1, FALSE),
      Seed(1, 1), Seed(3, 1), Seed(1, 2) }

\* A sound proposal for a tool, a contract and limits.
Sound(tool, contract, limits) ==
    LET set == IF tool = "search" /\ contract = "offline" THEN "set" ELSE "none"
        local == CASE tool = "similar" -> {}
                   [] set = "set" -> {"model", "set"}
                   [] OTHER -> {"model"} IN
    [tool |-> tool, contract |-> contract, index |-> "index", snapshot |-> "snapshot",
     limits |-> limits, lockSha |-> "lock", profileMount |-> "model", vectorMount |-> set,
     lock |-> [sha |-> "lock", tool |-> tool, index |-> "index", receipt |-> "receipt",
               snapshot |-> "snapshot", contract |-> contract, limits |-> limits,
               executable |-> "running", format |-> "v3"],
     receipt |-> [sha |-> "receipt", index |-> "index", disposition |-> "admitted"],
     wrapper |-> [sha |-> "index", objects |-> "intact", format |-> "v3", snapshot |-> "snapshot", profile |-> "model",
                  contract |-> contract, components |-> local, physical |-> "physical",
                  mapping |-> "mapping"],
     physical |-> [sha |-> "physical", purpose |-> "evidence", format |-> "v3", mapping |-> "mapping",
                   snapshot |-> "snapshot", profile |-> "model"],
     profile |-> [sha |-> "model"],
     vectors |-> [sha |-> "set", profile |-> "model"]]

Documents == {"lock", "receipt", "wrapper", "physical", "profile", "vectors"}

Differing(p) ==
    UNION { { [p EXCEPT ![d] = [@ EXCEPT ![f] = IF f = "components" THEN {"other"}
                                                ELSE IF f = "purpose" THEN "test_only"
                                                ELSE "other"]] : f \in DOMAIN p[d] }
            : d \in Documents }

MCProposals ==
    { Sound("search", "loopback", "usual"), Sound("similar", "offline", "usual"),
      Sound("search", "offline", "usual"), Sound("similar", "loopback", "usual"),
      Sound("similar", "offline", "wide") }
    \cup Differing(Sound("search", "offline", "usual"))
=============================================================================
