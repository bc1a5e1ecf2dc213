------------------------------ MODULE AgentRoute ------------------------------
(***************************************************************************)
(* scripts/validate_agent_state.py: what validate_state() accepts of a      *)
(* LOOP or GRAPH receipt, while the agents that share it write their        *)
(* parts - the route, worker receipts, host switches with their handoff     *)
(* snapshots, the disposition - and sometimes write them wrong.  A switch   *)
(* is three steps, as the handoff skill tells the host: choose a number,    *)
(* copy the root handoff there, hash the snapshot and append the event; so  *)
(* hosts that switch at the same time may write over each other.            *)
(*                                                                         *)
(* The validator keeps no state: Accepted is its verdict on the receipt as  *)
(* it stands and on the snapshots as they are then.  JSON types, unknown    *)
(* fields, why_graph, the syntax of names and "current", which repeats the  *)
(* end of the path, are left out; --project-root is given.  A digest is the  *)
(* content it stands for.                                                   *)
(***************************************************************************)
EXTENDS Naturals, Sequences, FiniteSets, SequencesExt

CONSTANTS
    Claims, Workers,     \* of the worker receipts
    Hosts,               \* the hosts that share the receipt
    Snapshots,           \* paths handoffs/NNNN/HANDOFF.md
    Contents,            \* what a root handoff may say
    Missing,             \* no file, no path, no content
    StepCap, WorkerCap, ReceiptCap,   \* the caps of the receipt
    EventCap,            \* MAX_RECEIPTS
    MaxSlips,            \* bound: nodes, paths and hosts that are written wrong
    MaxEdits             \* bound: changes of snapshots

Nodes == {"human", "planner", "worker", "gate", "judge", "recovery"}
\* REVISE stands for the dispositions other than PASS, MEASURED for INFERRED too.
Dispositions == {"PASS", "REVISE"}
Receipt == [claim : Claims, worker : Workers, certainty : {"MEASURED", "UNVERIFIED"}]
Event == [from : Hosts, to : Hosts, handoff : Snapshots, digest : Contents]

ASSUME RouteAssumption ==
    /\ StepCap \in 1..12 /\ WorkerCap \in 1..5 /\ ReceiptCap \in 1..64 /\ EventCap \in 1..64
    /\ MaxSlips \in Nat /\ MaxEdits \in Nat /\ Missing \notin Contents \cup Snapshots

VARIABLES
    mode, path, receipts, events, disposition, delivered,   \* the receipt
    snapshot,      \* content of each handoff snapshot
    target,        \* the path a host has chosen for the switch it is making
    copied,        \* what it has copied there
    slips, edits,
    handed         \* history: what the host of each event copied

receipt == <<mode, path, receipts, events, disposition, delivered>>
switching == <<snapshot, target, copied, handed>>
vars == <<receipt, switching, slips, edits>>

TypeOK ==
    /\ mode \in {"LOOP", "GRAPH"}
    /\ path \in Seq(Nodes) /\ path # <<>>
    /\ receipts \in Seq(Receipt) /\ events \in Seq(Event)
    /\ disposition \in Dispositions /\ delivered \in BOOLEAN
    /\ snapshot \in [Snapshots -> Contents \cup {Missing}]
    /\ target \in [Hosts -> Snapshots \cup {Missing}]
    /\ copied \in [Hosts -> Contents \cup {Missing}]
    /\ slips \in 0..MaxSlips /\ edits \in 0..MaxEdits
    /\ handed \in Seq(Contents) /\ Len(handed) = Len(events)

-----------------------------------------------------------------------------
(* The validator *)

\* Mutant of Transitions: nothing leads out of recovery.
NoWayOut(m) ==
    IF m = "LOOP"
    THEN {<<"human", "planner">>, <<"planner", "gate">>, <<"planner", "recovery">>,
          <<"gate", "planner">>, <<"gate", "recovery">>, <<"gate", "human">>}
    ELSE {<<"human", "planner">>, <<"planner", "worker">>, <<"worker", "planner">>,
          <<"planner", "gate">>, <<"gate", "planner">>, <<"gate", "judge">>,
          <<"judge", "planner">>, <<"judge", "human">>, <<"planner", "recovery">>,
          <<"worker", "recovery">>, <<"gate", "recovery">>, <<"judge", "recovery">>}

\* Mutant of Transitions: one table for both modes.
OneTable(m) ==
    {<<"human", "planner">>, <<"planner", "worker">>, <<"worker", "planner">>,
     <<"planner", "gate">>, <<"gate", "planner">>, <<"gate", "judge">>, <<"gate", "human">>,
     <<"judge", "planner">>, <<"judge", "human">>, <<"planner", "recovery">>,
     <<"worker", "recovery">>, <<"gate", "recovery">>, <<"judge", "recovery">>,
     <<"recovery", "planner">>}

Transitions(m) ==
    IF m = "LOOP"
    THEN {<<"human", "planner">>, <<"planner", "gate">>, <<"planner", "recovery">>,
          <<"gate", "planner">>, <<"gate", "recovery">>, <<"gate", "human">>,
          <<"recovery", "planner">>}
    ELSE {<<"human", "planner">>, <<"planner", "worker">>, <<"worker", "planner">>,
          <<"planner", "gate">>, <<"gate", "planner">>, <<"gate", "judge">>,
          <<"judge", "planner">>, <<"judge", "human">>, <<"planner", "recovery">>,
          <<"worker", "recovery">>, <<"gate", "recovery">>, <<"judge", "recovery">>,
          <<"recovery", "planner">>}

Edges(p) == 1..Len(p) - 1
Edge(p, i) == <<p[i], p[i + 1]>>

\* In a GRAPH the gate and the judge need an earlier worker stage.
WorkComesFirst(m, p) ==
    m = "GRAPH" =>
        \A i \in Edges(p) :
            Edge(p, i) \in {<<"planner", "gate">>, <<"gate", "judge">>} =>
                \E k \in 1..i : p[k] = "worker"

\* Mutant of RouteOK: the route may pass human on its way.
RouteOKAnywhere(m, p) ==
    /\ p[1] = "human"
    /\ Len(p) - 1 <= StepCap
    /\ \A i \in Edges(p) : Edge(p, i) \in Transitions(m)
    /\ WorkComesFirst(m, p)

RouteOK(m, p) ==
    /\ p[1] = "human" /\ \A i \in 2..Len(p) - 1 : p[i] # "human"
    /\ Len(p) - 1 <= StepCap
    /\ \A i \in Edges(p) : Edge(p, i) \in Transitions(m)
    /\ WorkComesFirst(m, p)

ReceiptsOK(rs) ==
    /\ Len(rs) <= ReceiptCap
    /\ \A i, j \in 1..Len(rs) :
          rs[i].claim = rs[j].claim /\ rs[i].worker = rs[j].worker => i = j
    /\ Cardinality({rs[i].worker : i \in 1..Len(rs)}) <= WorkerCap

Evidenced(rs) == \E i \in 1..Len(rs) : rs[i].certainty # "UNVERIFIED"

\* Mutant of EventsOK: two switches may name one snapshot.
EventsShared ==
    /\ Len(events) <= EventCap
    /\ \A i \in 1..Len(events) : /\ events[i].from # events[i].to
                                /\ snapshot[events[i].handoff] = events[i].digest

\* Each switch leads to another host and has a snapshot of its own, whose bytes are the
\* recorded ones.
EventsOK ==
    /\ Len(events) <= EventCap
    /\ \A i, j \in 1..Len(events) : events[i].handoff = events[j].handoff => i = j
    /\ \A i \in 1..Len(events) : /\ events[i].from # events[i].to
                                /\ snapshot[events[i].handoff] = events[i].digest

\* _contains_ordered_stages()
Stages(m) ==
    IF m = "LOOP" THEN <<"human", "planner", "gate", "human">>
    ELSE <<"human", "planner", "worker", "planner", "gate", "judge", "human">>

Passes(p, stages) ==
    FoldLeft(LAMBDA k, node : IF k < Len(stages) /\ node = stages[k + 1] THEN k + 1 ELSE k,
             0, p) = Len(stages)

DeliveryOK(m, p, rs, d, done) ==
    IF done THEN /\ d = "PASS" /\ Last(p) = "human" /\ Passes(p, Stages(m))
                 /\ m = "GRAPH" => Evidenced(rs)
            ELSE d # "PASS" /\ (Len(p) > 1 => Last(p) # "human")

Accepts(p, rs, d, done) ==
    RouteOK(mode, p) /\ ReceiptsOK(rs) /\ EventsOK /\ DeliveryOK(mode, p, rs, d, done)

Accepted == Accepts(path, receipts, disposition, delivered)

-----------------------------------------------------------------------------
(* The agents *)

Init ==
    /\ mode \in {"LOOP", "GRAPH"} /\ path = <<"human">>
    /\ receipts = <<>> /\ events = <<>>
    /\ disposition = "REVISE" /\ delivered = FALSE
    /\ snapshot = [s \in Snapshots |-> Missing]
    /\ target = [h \in Hosts |-> Missing] /\ copied = [h \in Hosts |-> Missing]
    /\ slips = 0 /\ edits = 0 /\ handed = <<>>

Slip == slips < MaxSlips /\ slips' = slips + 1

\* The route goes on, one transition beyond the cap at most; or to a wrong node.
Move(n) ==
    /\ Len(path) <= StepCap + 1
    /\ IF Edge(Append(path, n), Len(path)) \in Transitions(mode) THEN UNCHANGED slips ELSE Slip
    /\ path' = Append(path, n)
    /\ UNCHANGED <<mode, receipts, events, disposition, delivered, switching, edits>>

\* A worker reports, twice or beyond the caps at worst, while the route is with it.
Report(r) ==
    /\ Last(path) = "worker" /\ ReceiptsOK(receipts)
    /\ receipts' = Append(receipts, r)
    /\ UNCHANGED <<mode, path, events, disposition, delivered, switching, slips, edits>>

\* A host that switches takes the number of a snapshot that is not there; or wrongly one in use.
ChooseNumber(h, s) ==
    /\ target[h] = Missing
    /\ IF snapshot[s] = Missing THEN UNCHANGED slips ELSE Slip
    /\ target' = [target EXCEPT ![h] = s]
    /\ UNCHANGED <<receipt, snapshot, copied, handed, edits>>

\* It copies the root handoff, refreshed or as it was, over what may be there by now.
CopyHandoff(h) ==
    /\ target[h] # Missing /\ copied[h] = Missing
    /\ \E v \in Contents : /\ snapshot' = [snapshot EXCEPT ![target[h]] = v]
                          /\ copied' = [copied EXCEPT ![h] = v]
    /\ UNCHANGED <<receipt, target, handed, slips, edits>>

\* It appends its event, one beyond the cap at most, with the digest of the snapshot as it
\* is now or of the bytes it copied; and with itself as the other host at worst.
SwitchHost(h) ==
    /\ copied[h] # Missing /\ Len(events) <= EventCap
    /\ \E d \in Contents \cap {snapshot[target[h]], copied[h]}, to \in Hosts :
          /\ IF to # h THEN UNCHANGED slips ELSE Slip
          /\ events' = Append(events, [from |-> h, to |-> to, handoff |-> target[h], digest |-> d])
    /\ handed' = Append(handed, copied[h])
    /\ target' = [target EXCEPT ![h] = Missing] /\ copied' = [copied EXCEPT ![h] = Missing]
    /\ UNCHANGED <<mode, path, receipts, disposition, delivered, snapshot, edits>>

\* Somebody changes or deletes the snapshot of an event.
EditSnapshot(s) ==
    /\ edits < MaxEdits /\ \E i \in 1..Len(events) : events[i].handoff = s
    /\ \E v \in Contents \cup {Missing} : snapshot' = [snapshot EXCEPT ![s] = v]
    /\ edits' = edits + 1
    /\ UNCHANGED <<receipt, target, copied, handed, slips>>

\* A verdict is written, with or without delivery.
Decide(d) ==
    /\ disposition' = d /\ delivered' \in BOOLEAN
    /\ <<disposition, delivered>>' # <<disposition, delivered>>
    /\ UNCHANGED <<mode, path, receipts, events, switching, slips, edits>>

Next ==
    \/ \E n \in Nodes : Move(n)
    \/ \E r \in Receipt : Report(r)
    \/ \E h \in Hosts : (\E s \in Snapshots : ChooseNumber(h, s)) \/ CopyHandoff(h) \/ SwitchHost(h)
    \/ \E s \in Snapshots : EditSnapshot(s)
    \/ \E d \in Dispositions : Decide(d)

Spec == Init /\ [][Next]_vars

-----------------------------------------------------------------------------
(* Properties *)

Work == {"planner", "worker", "recovery"}

\* "Only a judge PASS reaches the human": what an accepted receipt calls delivered has
\* passed the gate, in a GRAPH then the judge, after all work, repairs included; and a
\* GRAPH has had a worker.
DeliveryIsReviewed ==
    Accepted /\ delivered =>
        /\ \A i \in 1..Len(path) : path[i] \in Work =>
              \E g \in i + 1..Len(path) :
                 /\ path[g] = "gate"
                 /\ mode = "GRAPH" => \E j \in g + 1..Len(path) : path[j] = "judge"
        /\ mode = "GRAPH" => Evidenced(receipts) /\ \E i \in 1..Len(path) : path[i] = "worker"

\* A receipt can be validated while the work is under way: what is accepted was
\* acceptable, as unfinished, after every transition.
PrefixesAccepted ==
    Accepted => \A k \in 1..Len(path) - 1 : Accepts(SubSeq(path, 1, k), receipts, "REVISE", FALSE)

\* What is left of a route, at the least.
Rest(m, p) ==
    LET fromPlanner ==
            IF m = "LOOP" THEN <<"gate", "human">>
            ELSE IF \E i \in 1..Len(p) : p[i] = "worker" THEN <<"gate", "judge", "human">>
            ELSE <<"worker", "planner", "gate", "judge", "human">>
    IN  CASE Last(p) = "planner" -> fromPlanner
          [] Last(p) \in {"human", "worker", "recovery"} -> <<"planner">> \o fromPlanner
          [] Last(p) = "gate" -> IF m = "LOOP" THEN <<"human">> ELSE <<"judge", "human">>
          [] Last(p) = "judge" -> <<"human">>

\* The worker receipts, with one more perhaps.
More == {receipts} \cup {Append(receipts, r) : r \in Receipt}

\* No accepted route is a dead end, before its worker or behind it: as far as the step cap
\* allows, it can be completed to one that is accepted as delivered, in a GRAPH with one
\* measured receipt more if there is none yet and the receipt's caps leave room for it.
NoDeadEnd ==
    LET whole == path \o Rest(mode, path)
    IN  /\ Accepted /\ ~delivered /\ Len(whole) - 1 <= StepCap
        /\ \E rs \in More : ReceiptsOK(rs) /\ (mode = "GRAPH" => Evidenced(rs))
        => \E rs \in More : Accepts(whole, rs, "PASS", TRUE)

\* In an accepted receipt every switch's snapshot holds what its host copied there, however
\* the hosts' steps mixed and whatever was overwritten or edited since; unless a host that
\* copied to the same path has its event still to append.
HandoffsKept ==
    Accepted => \A i \in 1..Len(events) :
        \/ snapshot[events[i].handoff] = handed[i]
        \/ \E h \in Hosts : target[h] = events[i].handoff /\ copied[h] # Missing
=============================================================================
