----------------------------- MODULE MCSessions -----------------------------
(* The monitor page alone; against an hz process; an echo process against a *)
(* delay process; a recording process against the recorder page.            *)
EXTENDS Sessions

CONSTANTS a, b, hz, delay, echo, bag

MCKind == hz :> "hz" @@ delay :> "delay" @@ echo :> "echo" @@ bag :> "bag"
MCTopic == hz :> a @@ delay :> a @@ echo :> a @@ bag :> a
Scenario(ps, n, fs) == [procs |-> ps, inputs |-> n, faults |-> fs]
MCScenarios ==
  {Scenario({Monitor}, 3, {}),
   Scenario({Monitor}, 2, {"timeout"}),
   Scenario({Monitor, hz}, 1, {"kill"}),
   Scenario({delay, echo}, 0, {"kill", "timeout", "giveup"}),
   Scenario({bag, Recorder}, 2, {}),
   Scenario({bag, Recorder}, 1, {"timeout", "kill"})}
=============================================================================
