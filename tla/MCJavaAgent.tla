---------------------------- MODULE MCJavaAgent ----------------------------
(* Two pods of one group from two workloads.  The first is submitted in    *)
(* every way the injector tells apart, the second need only be there to be *)
(* counted.  Users and faults take three steps in all, of which one may be *)
(* a fault.                                                                *)
EXTENDS JavaAgent, TLC
CONSTANTS p1, p2, o1, o2, a1

MCMatches == ("first" :> {1} @@ "none" :> {})

MCFold == "x" :> "X"

Var(n, v) == [name |-> n, value |-> << v >>]

Plain(o) == [label |-> TRUE, group |-> "app", owner |-> o, anno |-> << >>,
             succeed |-> FALSE,
             env |-> << Var("X", "old"), Var("X", "user") >>]

Ways(o) ==
  {[Plain(o) EXCEPT !.anno = a] :
     a \in {"sidecarVolume.Name" :> "mine" @@ "plugin.mount" :> "/p",
            "collector.backend_service" :> Bad,
            "initcontainer.resources.limits" :> Empty,
            "agent.service_name" :> "svc" @@ "optional" :> Empty
              @@ StrategyKey :> "first",
            "env.Name" :> "X" @@ StrategyKey :> Bad}}
  \cup {[Plain(o) EXCEPT !.label = FALSE], [Plain(o) EXCEPT !.succeed = TRUE],
        Plain(o)}

MCRequests == p1 :> Ways(o1) @@ p2 :> {Plain(o2)}

MCRelabels ==
  {[label |-> TRUE, anno |-> << >>, succeed |-> TRUE],
   [label |-> TRUE, anno |-> << >>, succeed |-> FALSE],
   [label |-> FALSE, anno |-> "optional" :> "mine", succeed |-> FALSE],
   [label |-> TRUE, anno |-> "collector.backend_service" :> Bad, succeed |-> FALSE]}

MCSwSpecs ==
  {[selector |-> "app", matcher |-> "first",
    fields |-> [k \in SwFields \cup Commands |-> "sw"],
    env |-> << Var("X", "sw"), Var("x", "sw"), Var("Y", "sw") >>,
    plugins |-> [k \in OptionKeys |-> "sw"]],
   [selector |-> "other", matcher |-> "none",
    fields |-> [k \in SwFields \cup Commands |-> Empty],
    env |-> << >>,
    plugins |-> [k \in OptionKeys |-> Empty]]}

MCFairSpec == Init /\ [][Next /\ edits' + faults' <= 3]_vars /\ Fairness
============================================================================
