----------------------------- MODULE MCAgentRoute -----------------------------
(* AgentRoute with one claim and one worker, routes up to the shortest repair  *)
(* after a judge, one transition more, and one wrong node; and with two hosts  *)
(* that switch at the same time, on two snapshots.  What the validator says of *)
(* the route and of the events does not meet, so a receipt has one of them.    *)
EXTENDS AgentRoute, TLC

Symmetric == Permutations(Hosts) \cup Permutations(Snapshots) \cup Permutations(Contents)

\* The receipt has a route, or it has switches.
OneOfBoth == Len(path) = 1 \/ (events = <<>> /\ target = [h \in Hosts |-> Missing])

RoutesOrSwitches == Init /\ [][Next /\ OneOfBoth']_vars
=============================================================================
