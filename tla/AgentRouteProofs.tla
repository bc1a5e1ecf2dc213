--------------------------- MODULE AgentRouteProofs ---------------------------
(***************************************************************************)
(* Proofs about the validator of agent state, for any caps and any number  *)
(* of slips and edits.  The arguments: a delivered route ends at human, the *)
(* tables lead there from gate (LOOP) or from gate and judge (GRAPH) only,  *)
(* and no work comes behind these; the fold of DeliveryOK, in closed form   *)
(* (FoldExists), follows from the tables (BackIsThrough), so that whatever  *)
(* the tables lead back to human is accepted.                              *)
(***************************************************************************)
EXTENDS AgentRoute, SequenceTheorems, WellFoundedInduction, TLAPS

Copied(h, s) == target[h] = s /\ copied[h] # Missing

\* A snapshot that a host has copied holds its copy; or another host has copied over it, or it
\* is one an event names.
CopiesStand ==
    \A h \in Hosts : copied[h] # Missing =>
        /\ target[h] \in Snapshots
        /\ \/ snapshot[target[h]] = copied[h]
           \/ \E g \in Hosts \ {h} : Copied(g, target[h])
           \/ \E i \in 1..Len(events) : events[i].handoff = target[h]

\* An event records what its host copied; or its path is another event's as well, or that of a
\* host that has its event still to append.
EventsTell ==
    \A i \in 1..Len(events) :
        \/ events[i].digest = handed[i]
        \/ \E j \in 1..Len(events) : j # i /\ events[j].handoff = events[i].handoff
        \/ \E h \in Hosts : Copied(h, events[i].handoff)

Inv == TypeOK /\ CopiesStand /\ EventsTell

-----------------------------------------------------------------------------
(* The invariant *)

\* Init establishes the invariant.
LEMMA InitInv == Init => Inv
<1> SUFFICES ASSUME Init PROVE Inv
  OBVIOUS
<1>1. path \in Seq(Nodes) /\ path # <<>>
  <2>1. "human" \in Nodes
    BY DEF Nodes
  <2>2. path = <<"human">>
    BY DEF Init
  <2>3. path \in Seq(Nodes)
    BY <2>1, <2>2
  <2>4. Len(path) = 1
    BY <2>2
  <2> QED
    BY <2>3, <2>4
<1>2. receipts \in Seq(Receipt) /\ events \in Seq(Event) /\ handed \in Seq(Contents)
  BY DEF Init
<1>3. slips \in 0..MaxSlips /\ edits \in 0..MaxEdits
  BY RouteAssumption DEF Init
<1>4. Len(events) = 0 /\ Len(handed) = 0
  BY DEF Init
<1>5. /\ snapshot \in [Snapshots -> Contents \cup {Missing}]
      /\ target \in [Hosts -> Snapshots \cup {Missing}]
      /\ copied \in [Hosts -> Contents \cup {Missing}]
  BY DEF Init
<1>6. mode \in {"LOOP", "GRAPH"} /\ disposition \in Dispositions /\ delivered \in BOOLEAN
  BY DEF Init, Dispositions
<1>7. EventsTell
  BY <1>4 DEF EventsTell
<1>8. CopiesStand
  BY DEF Init, CopiesStand
<1> QED
  BY <1>1, <1>2, <1>3, <1>4, <1>5, <1>6, <1>7, <1>8 DEF Inv, TypeOK

LEMMA PathsOfEvents == TypeOK => \A i \in 1..Len(events) : events[i].handoff \in Snapshots
<1> SUFFICES ASSUME TypeOK, NEW i \in 1..Len(events) PROVE events[i].handoff \in Snapshots
  OBVIOUS
<1>1. events[i] \in Event
  BY DEF TypeOK
<1> QED
  BY <1>1 DEF Event

\* What leaves the switches alone keeps what is said of them.
LEMMA SwitchesAlone ==
    ASSUME CopiesStand, EventsTell, UNCHANGED <<events, switching>>
    PROVE  CopiesStand' /\ EventsTell'
  BY DEF CopiesStand, EventsTell, Copied, switching

LEMMA MoveInv ==
    ASSUME Inv, NEW n \in Nodes, Move(n)
    PROVE  Inv'
<1> USE DEF Inv, TypeOK
<1>1. path' \in Seq(Nodes) /\ path' # <<>>
  <2>1. path' = Append(path, n) /\ path \in Seq(Nodes)
    BY DEF Move
  <2>2. path' \in Seq(Nodes)
    BY <2>1
  <2>3. Len(path') = Len(path) + 1 /\ Len(path) \in Nat
    BY <2>1
  <2> QED
    BY <2>2, <2>3
<1>2. slips' \in 0..MaxSlips
  BY RouteAssumption DEF Move, Slip
<1>3. UNCHANGED <<mode, receipts, events, disposition, delivered, switching, edits>>
  BY DEF Move
<1> QED
  BY <1>1, <1>2, <1>3, SwitchesAlone DEF switching

LEMMA ReportInv ==
    ASSUME Inv, NEW r \in Receipt, Report(r)
    PROVE  Inv'
<1> USE DEF Inv, TypeOK
<1>1. receipts' \in Seq(Receipt)
  BY DEF Report
<1>2. UNCHANGED <<mode, path, events, disposition, delivered, switching, slips, edits>>
  BY DEF Report
<1> QED
  BY <1>1, <1>2, SwitchesAlone DEF switching

LEMMA ChooseNumberInv ==
    ASSUME Inv, NEW h \in Hosts, NEW s \in Snapshots, ChooseNumber(h, s)
    PROVE  Inv'
<1> USE DEF Inv, TypeOK
<1>1. slips' \in 0..MaxSlips
  BY RouteAssumption DEF ChooseNumber, Slip
<1>2. UNCHANGED <<receipt, snapshot, copied, handed, edits>>
  BY DEF ChooseNumber
<1>3. target' \in [Hosts -> Snapshots \cup {Missing}]
  BY DEF ChooseNumber
<1>4. TypeOK'
  BY <1>1, <1>2, <1>3 DEF receipt
<1>5. copied[h] = Missing
  BY RouteAssumption DEF ChooseNumber, CopiesStand
<1>6. \A g \in Hosts : g # h => target'[g] = target[g]
  BY DEF ChooseNumber
<1>7. \A g \in Hosts, t \in Snapshots : Copied(g, t)' <=> Copied(g, t)
  BY <1>2, <1>5, <1>6 DEF Copied
<1>8. CopiesStand'
  <2> SUFFICES ASSUME NEW g \in Hosts, copied'[g] # Missing
               PROVE  /\ target'[g] \in Snapshots
                      /\ \/ snapshot'[target'[g]] = copied'[g]
                         \/ \E k \in Hosts \ {g} : Copied(k, target[g])'
                         \/ \E i \in 1..Len(events') : events'[i].handoff = target'[g]
    BY <1>2, <1>5, <1>6 DEF CopiesStand, Copied
  <2>1. copied[g] # Missing /\ g # h /\ target'[g] = target[g]
    BY <1>2, <1>5, <1>6
  <2>2. target[g] \in Snapshots
    BY <2>1 DEF CopiesStand
  <2> QED
    BY <1>2, <1>7, <2>1, <2>2 DEF CopiesStand, receipt
<1>9. EventsTell'
  <2>1. \A i \in 1..Len(events) : events[i].handoff \in Snapshots
    BY PathsOfEvents
  <2>2. events' = events /\ handed' = handed
    BY <1>2 DEF receipt
  <2> QED
    BY <1>7, <2>1, <2>2 DEF EventsTell
<1> QED
  BY <1>4, <1>8, <1>9

LEMMA CopyHandoffInv ==
    ASSUME Inv, NEW h \in Hosts, CopyHandoff(h)
    PROVE  Inv'
<1> USE DEF Inv, TypeOK
<1>1. PICK v \in Contents : /\ snapshot' = [snapshot EXCEPT ![target[h]] = v]
                            /\ copied' = [copied EXCEPT ![h] = v]
  BY DEF CopyHandoff
<1>2. UNCHANGED <<receipt, target, handed, slips, edits>>
  BY DEF CopyHandoff
<1>3. target[h] \in Snapshots /\ v # Missing
  BY RouteAssumption DEF CopyHandoff
<1>4. TypeOK'
  <2>1. snapshot' \in [Snapshots -> Contents \cup {Missing}]
    BY <1>1
  <2>2. copied' \in [Hosts -> Contents \cup {Missing}]
    BY <1>1
  <2> QED
    BY <1>2, <2>1, <2>2 DEF receipt
<1>5. /\ copied'[h] # Missing
      /\ \A g \in Hosts, t \in Snapshots : Copied(g, t) => target[g] = t /\ copied'[g] # Missing
  BY <1>1, <1>2, <1>3 DEF Copied
<1>6. CopiesStand'
  <2> SUFFICES ASSUME NEW g \in Hosts, copied'[g] # Missing
               PROVE  /\ target[g] \in Snapshots
                      /\ \/ snapshot'[target[g]] = copied'[g]
                         \/ \E k \in Hosts \ {g} : target[k] = target[g] /\ copied'[k] # Missing
                         \/ \E i \in 1..Len(events) : events[i].handoff = target[g]
    BY <1>2 DEF CopiesStand, receipt, Copied
  <2>1. CASE g = h
    <3>1. snapshot'[target[h]] = v /\ copied'[h] = v
      BY <1>1, <1>3
    <3> QED
      BY <1>3, <2>1, <3>1
  <2>2. CASE g # h
    <3>1. copied'[g] = copied[g] /\ copied[g] # Missing
      BY <1>1, <2>2
    <3>2. target[g] \in Snapshots
      BY <3>1 DEF CopiesStand
    <3>3. CASE target[g] = target[h]
      BY <1>5, <2>2, <3>2, <3>3
    <3>4. CASE target[g] # target[h]
      <4>1. snapshot'[target[g]] = snapshot[target[g]]
        BY <1>1, <1>3, <3>2, <3>4
      <4> QED
        BY <1>5, <3>1, <3>2, <4>1 DEF CopiesStand
    <3> QED
      BY <3>3, <3>4
  <2> QED
    BY <2>1, <2>2
<1>7. EventsTell'
  <2>1. \A i \in 1..Len(events) : events[i].handoff \in Snapshots
    BY PathsOfEvents
  <2>2. events' = events /\ handed' = handed
    BY <1>2 DEF receipt
  <2> QED
    BY <1>2, <1>5, <2>1, <2>2 DEF EventsTell, Copied
<1> QED
  BY <1>4, <1>6, <1>7

LEMMA SwitchHostInv ==
    ASSUME Inv, NEW h \in Hosts, SwitchHost(h)
    PROVE  Inv'
<1> USE DEF Inv, TypeOK
<1> DEFINE n == Len(events) + 1
           s == target[h]
<1>1. PICK d \in Contents \cap {snapshot[s], copied[h]}, to \in Hosts :
          events' = Append(events, [from |-> h, to |-> to, handoff |-> s, digest |-> d])
  BY DEF SwitchHost
<1>2. /\ handed' = Append(handed, copied[h])
      /\ target' = [target EXCEPT ![h] = Missing] /\ copied' = [copied EXCEPT ![h] = Missing]
      /\ UNCHANGED <<mode, path, receipts, disposition, delivered, snapshot, edits>>
      /\ copied[h] # Missing
  BY DEF SwitchHost
<1>3. s \in Snapshots /\ copied[h] \in Contents
  BY <1>2 DEF CopiesStand
<1> DEFINE e == [from |-> h, to |-> to, handoff |-> s, digest |-> d]
<1>4. e \in Event /\ e.handoff = s /\ e.digest = d
  BY <1>3 DEF Event
<1>5. /\ events' \in Seq(Event) /\ Len(events') = n /\ events'[n] = e
      /\ \A i \in 1..Len(events) : events'[i] = events[i] /\ i \in 1..n /\ i # n
      /\ \A i \in 1..n : i \in 1..Len(events) \/ i = n
      /\ n \in 1..n
  <2> HIDE DEF e
  <2>1. events' = Append(events, e) /\ events \in Seq(Event)
    BY <1>1 DEF e
  <2> QED
    BY <1>4, <2>1
<1>6. /\ handed' \in Seq(Contents) /\ Len(handed') = n /\ handed'[n] = copied[h]
      /\ \A i \in 1..Len(events) : handed'[i] = handed[i]
  BY <1>2, <1>3
<1> HIDE DEF n, e
<1>7. TypeOK'
  <2>1. slips' \in 0..MaxSlips
    BY RouteAssumption DEF SwitchHost, Slip
  <2>2. target' \in [Hosts -> Snapshots \cup {Missing}] /\ copied' \in [Hosts -> Contents \cup {Missing}]
    BY <1>2
  <2> QED
    BY <1>2, <1>5, <1>6, <2>1, <2>2
<1>8. \A g \in Hosts \ {h}, t \in Snapshots : Copied(g, t) => Copied(g, t)'
  BY <1>2 DEF Copied
<1>9. CopiesStand'
  <2> SUFFICES ASSUME NEW g \in Hosts, copied'[g] # Missing
               PROVE  /\ target'[g] \in Snapshots
                      /\ \/ snapshot'[target'[g]] = copied'[g]
                         \/ \E k \in Hosts \ {g} : target'[k] = target'[g] /\ copied'[k] # Missing
                         \/ \E i \in 1..Len(events') : events'[i].handoff = target'[g]
    BY DEF CopiesStand, Copied
  <2>1. g # h /\ copied'[g] = copied[g] /\ target'[g] = target[g]
    BY <1>2
  <2>2. target[g] \in Snapshots
    BY <2>1 DEF CopiesStand
  <2>3. CASE target[g] = s
    BY <1>4, <1>5, <2>1, <2>2, <2>3
  <2>4. CASE target[g] # s
    <3>1. CASE snapshot[target[g]] = copied[g]
      BY <1>2, <2>1, <2>2, <3>1
    <3>2. CASE \E k \in Hosts \ {g} : Copied(k, target[g])
      <4>1. PICK k \in Hosts \ {g} : Copied(k, target[g])
        BY <3>2
      <4>2. k # h
        BY <2>4, <4>1 DEF Copied
      <4> QED
        BY <1>8, <2>1, <2>2, <4>1, <4>2 DEF Copied
    <3>3. CASE \E i \in 1..Len(events) : events[i].handoff = target[g]
      BY <1>5, <2>1, <2>2, <3>3
    <3> QED
      BY <2>1, <3>1, <3>2, <3>3 DEF CopiesStand
  <2> QED
    BY <2>3, <2>4
<1>10. EventsTell'
  <2> SUFFICES ASSUME NEW i \in 1..n
               PROVE  \/ events'[i].digest = handed'[i]
                      \/ \E j \in 1..n : j # i /\ events'[j].handoff = events'[i].handoff
                      \/ \E g \in Hosts : target'[g] = events'[i].handoff /\ copied'[g] # Missing
    BY <1>5 DEF EventsTell, Copied
  <2>1. CASE i = n
    <3>1. CASE d = copied[h]
      BY <1>4, <1>5, <1>6, <2>1, <3>1
    <3>2. CASE d # copied[h]
      <4>1. snapshot[s] # copied[h]
        BY <3>2
      <4>2. CASE \E g \in Hosts \ {h} : Copied(g, s)
        BY <1>3, <1>4, <1>5, <1>8, <2>1, <4>2 DEF Copied
      <4>3. CASE \E j \in 1..Len(events) : events[j].handoff = s
        BY <1>4, <1>5, <2>1, <4>3
      <4> QED
        BY <1>2, <4>1, <4>2, <4>3 DEF CopiesStand
    <3> QED
      BY <3>1, <3>2
  <2>2. CASE i # n
    <3>1. i \in 1..Len(events) /\ events'[i] = events[i] /\ handed'[i] = handed[i]
      BY <1>5, <1>6, <2>2
    <3>2. events[i].handoff \in Snapshots
      BY <3>1, PathsOfEvents
    <3>3. CASE \E g \in Hosts : Copied(g, events[i].handoff)
      <4>1. PICK g \in Hosts : Copied(g, events[i].handoff)
        BY <3>3
      <4>2. CASE g = h
        BY <1>4, <1>5, <2>2, <3>1, <4>1, <4>2 DEF Copied
      <4>3. CASE g # h
        BY <1>8, <3>1, <3>2, <4>1, <4>3 DEF Copied
      <4> QED
        BY <4>2, <4>3
    <3>4. CASE \E j \in 1..Len(events) : j # i /\ events[j].handoff = events[i].handoff
      BY <1>5, <3>1, <3>4
    <3> QED
      BY <3>1, <3>3, <3>4 DEF EventsTell
  <2> QED
    BY <2>1, <2>2
<1> QED
  BY <1>7, <1>9, <1>10

LEMMA EditSnapshotInv ==
    ASSUME Inv, NEW s \in Snapshots, EditSnapshot(s)
    PROVE  Inv'
<1> USE DEF Inv, TypeOK
<1>1. /\ snapshot' \in [Snapshots -> Contents \cup {Missing}]
      /\ \A t \in Snapshots : t # s => snapshot'[t] = snapshot[t]
  BY DEF EditSnapshot
<1>2. edits' \in 0..MaxEdits
  BY RouteAssumption DEF EditSnapshot
<1>3. UNCHANGED <<receipt, target, copied, handed, slips>>
  BY DEF EditSnapshot
<1>4. TypeOK'
  BY <1>1, <1>2, <1>3 DEF receipt
<1>5. \E i \in 1..Len(events) : events[i].handoff = s
  BY DEF EditSnapshot
<1>6. CopiesStand'
  BY <1>1, <1>3, <1>5 DEF CopiesStand, Copied, receipt
<1>7. EventsTell'
  BY <1>3 DEF EventsTell, Copied, receipt
<1> QED
  BY <1>4, <1>6, <1>7

LEMMA DecideInv ==
    ASSUME Inv, NEW d \in Dispositions, Decide(d)
    PROVE  Inv'
<1>1. UNCHANGED <<mode, path, receipts, events, switching, slips, edits>>
  BY DEF Decide
<1>2. disposition' \in Dispositions /\ delivered' \in BOOLEAN
  BY DEF Decide
<1> QED
  BY <1>1, <1>2, SwitchesAlone DEF Inv, TypeOK, switching

\* The types are right; a copy stands until another host's or an event's path is the same; and
\* an event records what was copied, or shares its path.
THEOREM RouteTypes == Spec => []Inv
<1>1. Inv /\ [Next]_vars => Inv'
  <2> SUFFICES ASSUME Inv, [Next]_vars PROVE Inv'
    OBVIOUS
  <2>1. CASE UNCHANGED vars
    BY <2>1, SwitchesAlone DEF vars, receipt, switching, Inv, TypeOK
  <2>2. CASE Next
    BY <2>2, MoveInv, ReportInv, ChooseNumberInv, CopyHandoffInv, SwitchHostInv, EditSnapshotInv,
       DecideInv DEF Next
  <2> QED
    BY <2>1, <2>2
<1> QED
  BY InitInv, <1>1, PTL DEF Spec

-----------------------------------------------------------------------------
(* What acceptance means *)

\* The node before the last human is the one the table allows.
LEMMA LastStep ==
    ASSUME NEW m \in {"LOOP", "GRAPH"}, NEW p \in Seq(Nodes), Len(p) > 1,
           RouteOK(m, p), p[Len(p)] = "human"
    PROVE  /\ m = "LOOP" => p[Len(p) - 1] = "gate"
           /\ m = "GRAPH" => p[Len(p) - 1] = "judge"
<1>1. Len(p) - 1 \in Edges(p)
  BY DEF Edges
<1>2. <<p[Len(p) - 1], "human">> \in Transitions(m)
  BY <1>1 DEF RouteOK, Edge
<1> QED
  BY <1>2 DEF Transitions

\* The judge comes right behind a gate.
LEMMA GateBeforeJudge ==
    ASSUME NEW p \in Seq(Nodes), RouteOK("GRAPH", p), NEW j \in 1..Len(p), p[j] = "judge"
    PROVE  /\ j - 1 \in 1..Len(p) /\ p[j - 1] = "gate"
           /\ \E k \in 1..j - 1 : p[k] = "worker"
<1>1. j # 1
  BY DEF RouteOK
<1>2. j - 1 \in Edges(p)
  BY <1>1 DEF Edges
<1>3. Edge(p, j - 1) = <<p[j - 1], "judge">>
  BY <1>2 DEF Edges, Edge
<1>4. <<p[j - 1], "judge">> \in Transitions("GRAPH")
  BY <1>2, <1>3 DEF RouteOK
<1>5. p[j - 1] = "gate"
  BY <1>4 DEF Transitions
<1>6. \E k \in 1..j - 1 : p[k] = "worker"
  BY <1>2, <1>3, <1>5 DEF RouteOK, WorkComesFirst
<1> QED
  BY <1>2, <1>5, <1>6 DEF Edges

\* A delivered route that has left human has been reviewed behind all its work.
LEMMA ReviewedOnceLeft ==
    ASSUME Inv, Len(path) > 1
    PROVE  DeliveryIsReviewed
<1> SUFFICES ASSUME Accepted, delivered
             PROVE  /\ \A i \in 1..Len(path) : path[i] \in Work =>
                          \E g \in i + 1..Len(path) :
                             /\ path[g] = "gate"
                             /\ mode = "GRAPH" => \E j \in g + 1..Len(path) : path[j] = "judge"
                    /\ mode = "GRAPH" => Evidenced(receipts) /\ \E i \in 1..Len(path) : path[i] = "worker"
  BY DEF DeliveryIsReviewed
<1> DEFINE n == Len(path)
<1>1. path \in Seq(Nodes) /\ mode \in {"LOOP", "GRAPH"} /\ n \in Nat /\ n > 1
  BY DEF Inv, TypeOK
<1>2. RouteOK(mode, path) /\ DeliveryOK(mode, path, receipts, disposition, delivered)
  BY DEF Accepted, Accepts
<1>3. path[n] = "human"
  BY <1>1, <1>2 DEF DeliveryOK, Last
<1>4. /\ mode = "LOOP" => path[n - 1] = "gate"
      /\ mode = "GRAPH" => path[n - 1] = "judge"
  BY <1>1, <1>2, <1>3, LastStep
<1>5. CASE mode = "LOOP"
  <2>1. \A i \in 1..n : path[i] \in Work => n - 1 \in i + 1..n
    BY <1>1, <1>3, <1>4, <1>5 DEF Work
  <2> QED
    BY <1>4, <1>5, <2>1
<1>6. CASE mode = "GRAPH"
  <2>1. n - 1 \in 1..n
    BY <1>1
  <2>2. /\ n - 2 \in 1..n /\ path[n - 2] = "gate"
        /\ \E k \in 1..n - 2 : path[k] = "worker"
    <3>1. /\ (n - 1) - 1 \in 1..n /\ path[(n - 1) - 1] = "gate"
          /\ \E k \in 1..(n - 1) - 1 : path[k] = "worker"
      BY <1>1, <1>2, <1>4, <1>6, <2>1, GateBeforeJudge
    <3> QED
      BY <1>1, <3>1
  <2>3. \A i \in 1..n : path[i] \in Work => n - 2 \in i + 1..n
    BY <1>1, <1>3, <1>4, <1>6, <2>2 DEF Work
  <2>4. n - 1 \in (n - 2) + 1..n
    BY <1>1
  <2>5. Evidenced(receipts)
    BY <1>2, <1>6 DEF DeliveryOK
  <2>6. \E i \in 1..n : path[i] = "worker"
    BY <1>1, <2>2
  <2> QED
    BY <1>4, <1>6, <2>2, <2>3, <2>4, <2>5, <2>6
<1> QED
  BY <1>1, <1>5, <1>6

\* In an accepted receipt every switch's snapshot holds what its host copied, unless a host that
\* copied to the same path has its event still to append: for any number of hosts and in any
\* order of their steps.  It takes the digest and the path of its own together: where the digest
\* is not that of the host's copy, some other event or switch has the same path.
THEOREM HandoffsAreKept == Spec => []HandoffsKept
<1>1. ASSUME Inv, Accepted, NEW i \in 1..Len(events)
      PROVE  \/ snapshot[events[i].handoff] = handed[i]
             \/ \E h \in Hosts : Copied(h, events[i].handoff)
  <2>1. \A j \in 1..Len(events) : events[j].handoff = events[i].handoff => j = i
    BY <1>1 DEF Accepted, Accepts, EventsOK
  <2>2. snapshot[events[i].handoff] = events[i].digest
    BY <1>1 DEF Accepted, Accepts, EventsOK
  <2> QED
    BY <1>1, <2>1, <2>2 DEF Inv, EventsTell
<1>2. Inv => HandoffsKept
  BY <1>1 DEF HandoffsKept, Copied
<1> QED
  BY RouteTypes, <1>2, PTL

-----------------------------------------------------------------------------
(* What has been and what may come *)

\* A route that is allowed was allowed after every transition.
LEMMA PrefixIsRoute ==
    ASSUME NEW m \in {"LOOP", "GRAPH"}, NEW p \in Seq(Nodes), RouteOK(m, p), NEW k \in 1..Len(p) - 1
    PROVE  /\ RouteOK(m, SubSeq(p, 1, k))
           /\ Len(SubSeq(p, 1, k)) > 1 => Last(SubSeq(p, 1, k)) # "human"
<1> DEFINE q == SubSeq(p, 1, k)
<1>1. Len(q) = k /\ k \in Nat /\ k >= 1 /\ k < Len(p) /\ \A i \in 1..k : q[i] = p[i]
  OBVIOUS
<1>2. \A i \in Edges(q) : i \in Edges(p) /\ Edge(q, i) = Edge(p, i)
  BY <1>1 DEF Edges, Edge
<1>3. WorkComesFirst(m, q)
  <2> SUFFICES ASSUME m = "GRAPH", NEW i \in Edges(q), Edge(q, i) \in {<<"planner", "gate">>, <<"gate", "judge">>}
               PROVE  \E j \in 1..i : q[j] = "worker"
    BY DEF WorkComesFirst
  <2>1. PICK j \in 1..i : p[j] = "worker"
    BY <1>2 DEF RouteOK, WorkComesFirst
  <2>2. j \in 1..k
    BY <1>1 DEF Edges
  <2> QED
    BY <1>1, <2>1, <2>2
<1>4. q[1] = "human" /\ (\A i \in 2..Len(q) - 1 : q[i] # "human") /\ Len(q) - 1 <= StepCap
  BY <1>1, RouteAssumption DEF RouteOK
<1>5. RouteOK(m, q)
  <2> HIDE DEF q
  <2> QED
    BY <1>2, <1>3, <1>4 DEF RouteOK
<1>6. Len(q) > 1 => Last(q) # "human"
  BY <1>1 DEF RouteOK, Last
<1> QED
  BY <1>5, <1>6

\* What is accepted has been acceptable, as unfinished, after every transition of its route.
THEOREM PrefixesAreAccepted == Spec => []PrefixesAccepted
<1>1. Inv => PrefixesAccepted
  <2> SUFFICES ASSUME Inv, Accepted, NEW k \in 1..Len(path) - 1
               PROVE  Accepts(SubSeq(path, 1, k), receipts, "REVISE", FALSE)
    BY DEF PrefixesAccepted
  <2>1. mode \in {"LOOP", "GRAPH"} /\ path \in Seq(Nodes) /\ RouteOK(mode, path) /\ ReceiptsOK(receipts) /\ EventsOK
    BY DEF Inv, TypeOK, Accepted, Accepts
  <2>2. DeliveryOK(mode, SubSeq(path, 1, k), receipts, "REVISE", FALSE)
    BY <2>1, PrefixIsRoute DEF DeliveryOK
  <2> QED
    BY <2>1, <2>2, PrefixIsRoute DEF Accepts
<1> QED
  BY RouteTypes, <1>1, PTL

-----------------------------------------------------------------------------
(* The stages of a route *)

\* The largest of some positions is one of them.
LEMMA LargestOf ==
    ASSUME NEW n \in Nat, NEW S \in SUBSET (1..n), S # {}
    PROVE  Max(S) \in S /\ \A i \in S : Max(S) >= i
<1> DEFINE Distances == {n - i : i \in S}
<1>1. Distances # {} /\ Distances \subseteq Nat
  <2>1. \A i \in S : n - i \in Nat
    OBVIOUS
  <2> QED
    BY <2>1
<1> HIDE DEF Distances
<1>2. PICK d \in Distances : \A e \in Distances : <<e, d>> \notin OpToRel(<, Nat)
  BY <1>1, WFMin, NatLessThanWellFounded
<1>3. \A e \in Distances : ~(e < d) /\ e \in Nat /\ d \in Nat
  BY <1>1, <1>2 DEF OpToRel
<1>4. PICK i \in S : d = n - i
  BY <1>2 DEF Distances
<1>5. \A j \in S : n - j \in Distances
  BY DEF Distances
<1>6. \A j \in S : i >= j
  BY <1>3, <1>4, <1>5
<1> QED
  BY <1>6 DEF Max

\* One step of _contains_ordered_stages(), and its fold over a set of positions.
Advance(stages, k, node) == IF k < Len(stages) /\ node = stages[k + 1] THEN k + 1 ELSE k

Folds(iter, p, stages, n) ==
    iter = [S \in SUBSET (1..n) |->
               IF S = {} THEN 0 ELSE Advance(stages, iter[S \ {Max(S)}], p[Max(S)])]

\* There is such a fold, over any number of positions.
LEMMA FoldExists ==
    ASSUME NEW p, NEW stages, NEW N \in Nat
    PROVE  \E iter : Folds(iter, p, stages, N)
<1> DEFINE Without == {n \in Nat : ~ \E iter : Folds(iter, p, stages, n)}
<1> SUFFICES ASSUME Without # {} PROVE FALSE
  OBVIOUS
<1>1. PICK n \in Without : \A e \in Without : <<e, n>> \notin OpToRel(<, Nat)
  <2> HIDE DEF Without
  <2>1. Without \subseteq Nat
    BY DEF Without
  <2> QED
    BY <2>1, WFMin, NatLessThanWellFounded
<1>2. n \in Nat /\ \A e \in Nat : e < n => \E iter : Folds(iter, p, stages, e)
  BY <1>1 DEF OpToRel
<1>3. ~ \E iter : Folds(iter, p, stages, n)
  BY <1>1
<1> HIDE DEF Without
<1>4. CASE n = 0
  <2> DEFINE iter == [S \in SUBSET (1..0) |-> 0]
  <2>1. \A S \in SUBSET (1..0) : S = {}
    OBVIOUS
  <2>2. Folds(iter, p, stages, 0)
    BY <2>1 DEF Folds
  <2> QED
    BY <1>3, <1>4, <2>2
<1>5. CASE n # 0
  <2>1. n - 1 \in Nat /\ n - 1 < n
    BY <1>2, <1>5
  <2>2. PICK f : Folds(f, p, stages, n - 1)
    BY <1>2, <2>1
  <2>3. \A S \in SUBSET (1..n - 1) : f[S] = IF S = {} THEN 0 ELSE Advance(stages, f[S \ {Max(S)}], p[Max(S)])
    BY <2>2 DEF Folds
  <2> DEFINE g == [S \in SUBSET (1..n) |->
                      IF n \in S THEN Advance(stages, f[S \ {n}], p[n]) ELSE f[S]]
  <2>4. ASSUME NEW S \in SUBSET (1..n)
        PROVE  g[S] = IF S = {} THEN 0 ELSE Advance(stages, g[S \ {Max(S)}], p[Max(S)])
    <3>1. CASE S = {}
      BY <2>1, <2>3, <3>1
    <3>2. CASE S # {}
      <4>1. Max(S) \in S /\ \A i \in S : Max(S) >= i
        BY <1>2, <3>2, LargestOf
      <4>2. S \ {Max(S)} \in SUBSET (1..n)
        OBVIOUS
      <4>3. CASE n \in S
        <5>1. Max(S) = n
          <6>1. Max(S) \in 1..n /\ Max(S) >= n
            BY <4>1, <4>3
          <6> QED
            BY <1>2, <6>1
        <5>2. g[S \ {n}] = f[S \ {n}]
          BY <4>2, <5>1
        <5> QED
          BY <3>2, <4>3, <5>1, <5>2
      <4>4. CASE n \notin S
        <5>1. S \in SUBSET (1..n - 1)
          BY <1>2, <4>4
        <5>2. g[S] = f[S] /\ g[S \ {Max(S)}] = f[S \ {Max(S)}]
          BY <4>2, <4>4
        <5> QED
          BY <2>3, <3>2, <5>1, <5>2
      <4> QED
        BY <4>3, <4>4
    <3> QED
      BY <3>1, <3>2
  <2>5. Folds(g, p, stages, n)
    BY <2>4 DEF Folds
  <2> QED
    BY <1>3, <2>5
<1> QED
  BY <1>4, <1>5

\* The stages a route has passed after each of its nodes.
Counts(k, p, stages) ==
    /\ k[0] = 0
    /\ \A i \in 1..Len(p) : k[i] = Advance(stages, k[i - 1], p[i])
    /\ Passes(p, stages) <=> k[Len(p)] = Len(stages)

LEMMA Progress ==
    ASSUME NEW p \in Seq(Nodes), NEW stages
    PROVE  \E k : Counts(k, p, stages)
<1> DEFINE n == Len(p)
           fold == CHOOSE iter : Folds(iter, p, stages, n)
           k == [i \in 0..n |-> fold[1..i]]
<1>1. n \in Nat /\ DOMAIN p = 1..n
  OBVIOUS
<1>2. Passes(p, stages) <=> fold[1..n] = Len(stages)
  BY <1>1 DEF Passes, FoldLeft, MapThenFoldSet, Folds, Advance
<1>3. Folds(fold, p, stages, n)
  <2> HIDE DEF n
  <2> QED
    BY <1>1, FoldExists
<1>4. \A S \in SUBSET (1..n) : fold[S] = IF S = {} THEN 0 ELSE Advance(stages, fold[S \ {Max(S)}], p[Max(S)])
  <2> HIDE DEF fold
  <2> QED
    BY <1>3 DEF Folds
<1> HIDE DEF fold, n
<1>5. k[0] = 0
  <2>1. 1..0 = {} /\ {} \in SUBSET (1..n) /\ 0 \in 0..n
    BY <1>1
  <2>2. fold[{}] = 0
    BY <1>4, <2>1
  <2> QED
    BY <2>1, <2>2
<1>6. ASSUME NEW i \in 1..n PROVE k[i] = Advance(stages, k[i - 1], p[i])
  <2>1. 1..i \in SUBSET (1..n) /\ 1..i # {} /\ i \in 1..i /\ i \in Nat
    BY <1>1
  <2>2. Max(1..i) \in 1..i /\ \A j \in 1..i : Max(1..i) >= j
    BY <1>1, <2>1, LargestOf
  <2>3. Max(1..i) = i
    BY <2>1, <2>2
  <2>4. (1..i) \ {i} = 1..i - 1
    BY <2>1
  <2>5. fold[1..i] = Advance(stages, fold[1..i - 1], p[i])
    BY <1>4, <2>1, <2>3, <2>4
  <2>6. k[i] = fold[1..i] /\ k[i - 1] = fold[1..i - 1]
    BY <1>1, <2>1
  <2> QED
    BY <2>5, <2>6
<1>7. k[n] = fold[1..n]
  BY <1>1
<1>8. Counts(k, p, stages)
  <2> HIDE DEF k
  <2> QED
    BY <1>2, <1>5, <1>6, <1>7 DEF Counts, n
<1> QED
  BY <1>8

-----------------------------------------------------------------------------
(* Every route to the human passes the stages *)

Worked(p, i) == \E j \in 1..i : p[j] = "worker"

\* How far a route is at the least, by its node and whether a worker has been on it.
Reached(m, p, k, i) ==
    /\ k[i] \in 1..Len(Stages(m)) - 1
    /\ p[i] = "human" => i = 1 /\ k[i] = 1
    /\ p[i] = "planner" => k[i] >= 2 /\ (Worked(p, i) => k[i] >= IF m = "LOOP" THEN 2 ELSE 4)
    /\ p[i] = "worker" => m = "GRAPH" /\ k[i] >= 3
    /\ p[i] = "gate" => k[i] >= IF m = "LOOP" THEN 3 ELSE 5
    /\ p[i] = "judge" => m = "GRAPH" /\ k[i] >= 6
    /\ p[i] = "recovery" => k[i] >= 2 /\ (Worked(p, i) => k[i] >= IF m = "LOOP" THEN 2 ELSE 3)

\* One transition of a LOOP.
LEMMA LoopReaches ==
    ASSUME NEW p \in Seq(Nodes), RouteOK("LOOP", p), NEW k, Counts(k, p, Stages("LOOP")),
           NEW i \in Edges(p), Reached("LOOP", p, k, i)
    PROVE  /\ p[i + 1] # "human" => Reached("LOOP", p, k, i + 1)
           /\ p[i + 1] = "human" => k[i + 1] = 4
<1>1. Edge(p, i) \in Transitions("LOOP") /\ i \in Nat /\ i >= 1 /\ i + 1 \in 1..Len(p)
  BY DEF RouteOK, Edges
<1>2. \/ p[i] = "human" /\ p[i + 1] = "planner"
      \/ p[i] = "planner" /\ p[i + 1] \in {"gate", "recovery"}
      \/ p[i] = "gate" /\ p[i + 1] \in {"planner", "recovery", "human"}
      \/ p[i] = "recovery" /\ p[i + 1] = "planner"
  BY <1>1 DEF Edge, Transitions
<1> DEFINE S == Stages("LOOP")
<1>3. Len(S) = 4 /\ S[1] = "human" /\ S[2] = "planner" /\ S[3] = "gate" /\ S[4] = "human"
  BY DEF Stages
<1>4. k[i + 1] = IF k[i] < 4 /\ p[i + 1] = S[k[i] + 1] THEN k[i] + 1 ELSE k[i]
  <2>1. k[i + 1] = Advance(S, k[(i + 1) - 1], p[i + 1]) /\ (i + 1) - 1 = i
    BY <1>1 DEF Counts
  <2> HIDE DEF S
  <2> QED
    BY <1>3, <2>1 DEF Advance
<1>5. k[i] \in 1..3
  <2>1. k[i] \in 1..Len(S) - 1
    BY DEF Reached
  <2> HIDE DEF S
  <2> QED
    BY <1>3, <2>1
<1> HIDE DEF S
<1>6. /\ p[i + 1] = "planner" => k[i + 1] \in 2..3
      /\ p[i + 1] = "gate" => k[i + 1] = 3
      /\ p[i + 1] = "recovery" => k[i + 1] = k[i] /\ k[i] >= 2
      /\ p[i + 1] = "human" => k[i + 1] = 4
  BY <1>2, <1>3, <1>4, <1>5 DEF Reached
<1>7. ASSUME p[i + 1] # "human" PROVE Reached("LOOP", p, k, i + 1)
  <2>1. k[i + 1] \in 1..3
    BY <1>2, <1>5, <1>6, <1>7
  <2>2. k[i + 1] \in 1..Len(Stages("LOOP")) - 1
    BY <1>3, <2>1 DEF S
  <2> QED
    BY <1>2, <1>6, <1>7, <2>1, <2>2 DEF Reached
<1> QED
  BY <1>6, <1>7

\* One transition of a GRAPH.
LEMMA GraphReaches ==
    ASSUME NEW p \in Seq(Nodes), RouteOK("GRAPH", p), NEW k, Counts(k, p, Stages("GRAPH")),
           NEW i \in Edges(p), Reached("GRAPH", p, k, i)
    PROVE  /\ p[i + 1] # "human" => Reached("GRAPH", p, k, i + 1)
           /\ p[i + 1] = "human" => k[i + 1] = 7
<1>1. Edge(p, i) \in Transitions("GRAPH") /\ i \in Nat /\ i >= 1 /\ i + 1 \in 1..Len(p)
  BY DEF RouteOK, Edges
<1>2. \/ p[i] = "human" /\ p[i + 1] = "planner"
      \/ p[i] = "planner" /\ p[i + 1] \in {"worker", "recovery"}
      \/ p[i] = "planner" /\ p[i + 1] = "gate" /\ Worked(p, i)
      \/ p[i] = "worker" /\ p[i + 1] \in {"planner", "recovery"}
      \/ p[i] = "gate" /\ p[i + 1] \in {"planner", "judge", "recovery"}
      \/ p[i] = "judge" /\ p[i + 1] \in {"planner", "human", "recovery"}
      \/ p[i] = "recovery" /\ p[i + 1] = "planner"
  <2>1. Edge(p, i) = <<"planner", "gate">> => Worked(p, i)
    BY DEF RouteOK, WorkComesFirst, Worked
  <2> QED
    BY <1>1, <2>1 DEF Edge, Transitions
<1> DEFINE S == Stages("GRAPH")
<1>3. /\ Len(S) = 7
      /\ S[1] = "human" /\ S[2] = "planner" /\ S[3] = "worker" /\ S[4] = "planner"
      /\ S[5] = "gate" /\ S[6] = "judge" /\ S[7] = "human"
  BY DEF Stages
<1>4. k[i + 1] = IF k[i] < 7 /\ p[i + 1] = S[k[i] + 1] THEN k[i] + 1 ELSE k[i]
  <2>1. k[i + 1] = Advance(S, k[(i + 1) - 1], p[i + 1]) /\ (i + 1) - 1 = i
    BY <1>1 DEF Counts
  <2> HIDE DEF S
  <2> QED
    BY <1>3, <2>1 DEF Advance
<1>5. k[i] \in 1..6
  <2>1. k[i] \in 1..Len(S) - 1
    BY DEF Reached
  <2> HIDE DEF S
  <2> QED
    BY <1>3, <2>1
<1>6. /\ p[i + 1] # "worker" => (Worked(p, i + 1) => Worked(p, i))
      /\ i = 1 /\ p[i] = "human" => ~Worked(p, i)
  BY <1>1 DEF Worked
<1> HIDE DEF S
<1>7. p[i + 1] = "human" => k[i + 1] = 7
  BY <1>2, <1>3, <1>4, <1>5 DEF Reached
<1>8. ASSUME p[i + 1] = "planner"
      PROVE  k[i + 1] \in 2..6 /\ (Worked(p, i) => k[i + 1] >= 4)
  <2>1. k[i] \in 1..6 /\ (Worked(p, i) => k[i] >= 3)
    BY <1>2, <1>5, <1>6, <1>8 DEF Reached
  <2>2. k[i + 1] = IF k[i] \in {1, 3} THEN k[i] + 1 ELSE k[i]
    BY <1>3, <1>4, <1>5, <1>8
  <2> QED
    BY <2>1, <2>2
<1>9. p[i + 1] = "worker" => k[i + 1] \in 3..6
  BY <1>2, <1>3, <1>4, <1>5 DEF Reached
<1>10. p[i + 1] = "gate" => k[i + 1] \in 5..6
  BY <1>2, <1>3, <1>4, <1>5 DEF Reached
<1>11. p[i + 1] = "judge" => k[i + 1] = 6
  BY <1>2, <1>3, <1>4, <1>5 DEF Reached
<1>12. p[i + 1] = "recovery" => k[i + 1] \in 2..6 /\ (Worked(p, i) => k[i + 1] >= 3)
  BY <1>2, <1>3, <1>4, <1>5 DEF Reached
<1>13. ASSUME p[i + 1] # "human" PROVE Reached("GRAPH", p, k, i + 1)
  <2>1. k[i + 1] \in 1..6
    BY <1>2, <1>8, <1>9, <1>10, <1>11, <1>12, <1>13
  <2>2. k[i + 1] \in 1..Len(Stages("GRAPH")) - 1
    BY <1>3, <2>1 DEF S
  <2> QED
    BY <1>2, <1>6, <1>8, <1>9, <1>10, <1>11, <1>12, <1>13, <2>1, <2>2 DEF Reached
<1> QED
  BY <1>7, <1>13

\* The ordered stages follow from the transitions: a route that has left human and come
\* back has passed them, whatever it did on its way.
LEMMA BackIsThrough ==
    ASSUME NEW m \in {"LOOP", "GRAPH"}, NEW p \in Seq(Nodes), RouteOK(m, p),
           Len(p) > 1, p[Len(p)] = "human"
    PROVE  Passes(p, Stages(m))
<1> DEFINE n == Len(p)
<1>1. PICK k : Counts(k, p, Stages(m))
  BY Progress
<1>2. n \in Nat /\ Edges(p) = 1..n - 1
  BY DEF Edges
<1>3. Reached(m, p, k, 1)
  <2>1. k[1] = Advance(Stages(m), k[1 - 1], p[1]) /\ k[0] = 0
    BY <1>1, <1>2 DEF Counts
  <2>2. p[1] = "human" /\ Stages(m)[1] = "human" /\ Len(Stages(m)) >= 4
    BY DEF RouteOK, Stages
  <2>3. k[1] = 1
    BY <2>1, <2>2 DEF Advance
  <2>4. Len(Stages(m)) \in Nat
    BY DEF Stages
  <2> QED
    BY <2>2, <2>3, <2>4 DEF Reached
<1>4. \A i \in 1..n - 1 : Reached(m, p, k, i)
  <2> DEFINE Behind == {i \in 1..n - 1 : ~Reached(m, p, k, i)}
  <2> SUFFICES ASSUME Behind # {} PROVE FALSE
    OBVIOUS
  <2>1. Behind \subseteq Nat
    OBVIOUS
  <2>2. PICK b \in Behind : \A e \in Behind : <<e, b>> \notin OpToRel(<, Nat)
    <3> HIDE DEF Behind
    <3> QED
      BY <2>1, WFMin, NatLessThanWellFounded
  <2>3. b \in 1..n - 1 /\ ~Reached(m, p, k, b) /\ b # 1
    BY <1>3, <2>2
  <2>4. b - 1 \in 1..n - 1 /\ b - 1 < b /\ b \in Nat
    BY <1>2, <2>3
  <2>5. Reached(m, p, k, b - 1)
    <3>1. b - 1 \notin Behind
      <4> HIDE DEF Behind
      <4> QED
        BY <2>1, <2>2, <2>4 DEF OpToRel
    <3> QED
      BY <2>4, <3>1
  <2>6. p[b] # "human"
    BY <1>2, <2>3, <2>4 DEF RouteOK
  <2>7. b - 1 \in Edges(p) /\ (b - 1) + 1 = b
    BY <1>2, <2>4
  <2>8. Reached(m, p, k, b)
    <3>1. CASE m = "LOOP"
      BY <1>1, <2>5, <2>6, <2>7, <3>1, LoopReaches
    <3>2. CASE m = "GRAPH"
      BY <1>1, <2>5, <2>6, <2>7, <3>2, GraphReaches
    <3> QED
      BY <3>1, <3>2
  <2> QED
    BY <2>3, <2>8
<1>5. n - 1 \in Edges(p) /\ (n - 1) + 1 = n /\ Reached(m, p, k, n - 1)
  BY <1>2, <1>4
<1>6. k[n] = Len(Stages(m))
  <2>1. CASE m = "LOOP"
    <3>1. k[n] = 4
      BY <1>1, <1>5, <2>1, LoopReaches
    <3> QED
      BY <2>1, <3>1 DEF Stages
  <2>2. CASE m = "GRAPH"
    <3>1. k[n] = 7
      BY <1>1, <1>5, <2>2, GraphReaches
    <3> QED
      BY <2>2, <3>1 DEF Stages
  <2> QED
    BY <2>1, <2>2
<1> QED
  BY <1>1, <1>6 DEF Counts

\* Nobody has passed all stages who has not left human.
LEMMA StagesTakeSteps ==
    ASSUME NEW m \in {"LOOP", "GRAPH"}, NEW p \in Seq(Nodes), p # <<>>, Passes(p, Stages(m))
    PROVE  Len(p) > 1
<1>1. PICK k : Counts(k, p, Stages(m))
  BY Progress
<1>2. k[1] = Advance(Stages(m), k[0], p[1]) /\ k[0] = 0 /\ k[Len(p)] = Len(Stages(m))
  <2>1. 1 \in 1..Len(p) /\ 1 - 1 = 0
    OBVIOUS
  <2>2. k[1] = Advance(Stages(m), k[1 - 1], p[1])
    BY <1>1, <2>1 DEF Counts
  <2> QED
    BY <1>1, <2>1, <2>2 DEF Counts
<1>3. k[1] \in {0, 1} /\ Len(Stages(m)) \in {4, 7}
  <2>1. k[1] \in {0, 1}
    BY <1>2 DEF Advance
  <2> QED
    BY <2>1 DEF Stages
<1> DEFINE all == Len(Stages(m))
<1>4. ASSUME Len(p) = 1 PROVE FALSE
  <2>1. k[1] = all /\ k[1] \in {0, 1} /\ all \in {4, 7}
    BY <1>2, <1>3, <1>4
  <2> HIDE DEF all
  <2> QED
    BY <2>1
<1> QED
  BY <1>4

\* Only reviewed work is delivered: behind everything that a planner, a worker or a
\* recovery did comes the gate, in a GRAPH then the judge, and a GRAPH had a worker with
\* evidence, on every route within the caps.
THEOREM DeliveredWorkIsReviewed == Spec => []DeliveryIsReviewed
<1>1. ASSUME Inv PROVE DeliveryIsReviewed
  <2>1. CASE Accepted /\ delivered
    <3>1. Passes(path, Stages(mode))
      BY <2>1 DEF Accepted, Accepts, DeliveryOK
    <3>2. Len(path) > 1
      BY <1>1, <3>1, StagesTakeSteps DEF Inv, TypeOK
    <3> QED
      BY <1>1, <3>2, ReviewedOnceLeft
  <2>2. CASE ~(Accepted /\ delivered)
    BY <2>2 DEF DeliveryIsReviewed
  <2> QED
    BY <2>1, <2>2
<1> QED
  BY RouteTypes, <1>1, PTL

-----------------------------------------------------------------------------
(* Completing a route *)

\* A route under way, within the tables, whatever its length.
Route(m, p) ==
    /\ p \in Seq(Nodes) /\ p # <<>> /\ p[1] = "human"
    /\ \A i \in 2..Len(p) : p[i] # "human"
    /\ \A i \in Edges(p) : Edge(p, i) \in Transitions(m)
    /\ WorkComesFirst(m, p)

\* A route that is back: RouteOK but for the cap.
Back(m, p) ==
    /\ p \in Seq(Nodes) /\ Len(p) > 1 /\ p[1] = "human" /\ p[Len(p)] = "human"
    /\ \A i \in 2..Len(p) - 1 : p[i] # "human"
    /\ \A i \in Edges(p) : Edge(p, i) \in Transitions(m)
    /\ WorkComesFirst(m, p)

\* One transition more.
LEMMA OneMoreNode ==
    ASSUME NEW m \in {"LOOP", "GRAPH"}, NEW p, Route(m, p), NEW n \in Nodes,
           <<p[Len(p)], n>> \in Transitions(m),
           m = "GRAPH" /\ n \in {"gate", "judge"} => Worked(p, Len(p))
    PROVE  /\ n # "human" => Route(m, Append(p, n))
           /\ n = "human" => Back(m, Append(p, n))
           /\ Len(Append(p, n)) = Len(p) + 1 /\ Append(p, n)[Len(p) + 1] = n
           /\ n = "worker" \/ Worked(p, Len(p)) => Worked(Append(p, n), Len(p) + 1)
<1> DEFINE q == Append(p, n)
<1>1. /\ p \in Seq(Nodes) /\ Len(p) \in Nat /\ Len(p) >= 1
  BY DEF Route
<1>2. q \in Seq(Nodes) /\ Len(q) = Len(p) + 1 /\ q[Len(p) + 1] = n /\ \A i \in 1..Len(p) : q[i] = p[i]
  BY <1>1
<1> HIDE DEF q
<1>3. q # <<>> /\ q[1] = "human"
  BY <1>1, <1>2 DEF Route
<1>4. \A i \in 2..Len(q) - 1 : q[i] # "human"
  BY <1>1, <1>2 DEF Route
<1>5. ASSUME NEW i \in Edges(q)
      PROVE  /\ i \in 1..Len(p) /\ Edge(q, i) \in Transitions(m)
             /\ i = Len(p) => Edge(q, i) = <<p[Len(p)], n>>
             /\ i # Len(p) => i \in Edges(p) /\ Edge(q, i) = Edge(p, i)
  <2>1. i \in 1..Len(p)
    BY <1>1, <1>2 DEF Edges
  <2>2. CASE i = Len(p)
    BY <1>1, <1>2, <2>1, <2>2 DEF Edge
  <2>3. CASE i # Len(p)
    <3>1. i \in Edges(p) /\ i + 1 \in 1..Len(p)
      BY <1>1, <2>1, <2>3 DEF Edges
    <3>2. Edge(q, i) = Edge(p, i)
      BY <1>2, <2>1, <3>1 DEF Edge
    <3> QED
      BY <2>1, <2>3, <3>1, <3>2 DEF Route
  <2> QED
    BY <2>2, <2>3
<1>6. WorkComesFirst(m, q)
  <2> SUFFICES ASSUME m = "GRAPH", NEW i \in Edges(q), Edge(q, i) \in {<<"planner", "gate">>, <<"gate", "judge">>}
               PROVE  \E j \in 1..i : q[j] = "worker"
    BY DEF WorkComesFirst
  <2>1. \E j \in 1..i : p[j] = "worker"
    <3>1. CASE i = Len(p)
      BY <1>5, <3>1 DEF Worked
    <3>2. CASE i # Len(p)
      BY <1>5, <3>2 DEF Route, WorkComesFirst
    <3> QED
      BY <3>1, <3>2
  <2>2. i \in 1..Len(p)
    BY <1>5
  <2> QED
    BY <1>1, <1>2, <2>1, <2>2
<1>7. n # "human" => Route(m, q)
  BY <1>1, <1>2, <1>3, <1>4, <1>5, <1>6 DEF Route
<1>8. n = "human" => Back(m, q)
  BY <1>1, <1>2, <1>3, <1>4, <1>5, <1>6 DEF Back
<1>9. n = "worker" \/ Worked(p, Len(p)) => Worked(q, Len(p) + 1)
  BY <1>1, <1>2 DEF Worked
<1> QED
  BY <1>2, <1>7, <1>8, <1>9 DEF q

\* A route that goes on with n.
LEMMA GoesOn ==
    ASSUME NEW p \in Seq(Nodes), NEW s \in Seq(Nodes), NEW n \in Nodes
    PROVE  p \o (<<n>> \o s) = Append(p, n) \o s
OBVIOUS

\* The completions of a route, from its end backwards.
LEMMA FromJudge ==
    ASSUME NEW p, Route("GRAPH", p), p[Len(p)] = "judge"
    PROVE  Back("GRAPH", p \o <<"human">>)
<1>1. p \in Seq(Nodes) /\ "human" \in Nodes
  BY DEF Route, Nodes
<1>2. p \o <<"human">> = Append(p, "human")
  BY <1>1
<1>3. <<p[Len(p)], "human">> \in Transitions("GRAPH")
  BY DEF Transitions
<1> QED
  BY <1>1, <1>2, <1>3, OneMoreNode

LEMMA FromGate ==
    ASSUME NEW p, Route("GRAPH", p), p[Len(p)] = "gate", Worked(p, Len(p))
    PROVE  Back("GRAPH", p \o <<"judge", "human">>)
<1>1. p \in Seq(Nodes) /\ "judge" \in Nodes /\ <<"human">> \in Seq(Nodes)
  BY DEF Route, Nodes
<1>2. p \o <<"judge", "human">> = Append(p, "judge") \o <<"human">>
  BY <1>1, GoesOn
<1>3. <<p[Len(p)], "judge">> \in Transitions("GRAPH")
  BY DEF Transitions
<1>4. Route("GRAPH", Append(p, "judge")) /\ Append(p, "judge")[Len(Append(p, "judge"))] = "judge"
  BY <1>1, <1>3, OneMoreNode
<1> QED
  BY <1>2, <1>4, FromJudge

LEMMA FromPlanner ==
    ASSUME NEW p, Route("GRAPH", p), p[Len(p)] = "planner", Worked(p, Len(p))
    PROVE  Back("GRAPH", p \o <<"gate", "judge", "human">>)
<1>1. p \in Seq(Nodes) /\ "gate" \in Nodes /\ <<"judge", "human">> \in Seq(Nodes) /\ Len(p) \in Nat
  BY DEF Route, Nodes
<1>2. p \o <<"gate", "judge", "human">> = Append(p, "gate") \o <<"judge", "human">>
  BY <1>1, GoesOn
<1>3. <<p[Len(p)], "gate">> \in Transitions("GRAPH")
  BY DEF Transitions
<1> DEFINE q == Append(p, "gate")
<1>4. Route("GRAPH", q) /\ Len(q) = Len(p) + 1 /\ q[Len(p) + 1] = "gate" /\ Worked(q, Len(p) + 1)
  BY <1>1, <1>3, OneMoreNode
<1> HIDE DEF q
<1>5. Back("GRAPH", q \o <<"judge", "human">>)
  BY <1>4, FromGate
<1> QED
  BY <1>2, <1>5 DEF q

LEMMA FromWorker ==
    ASSUME NEW p, Route("GRAPH", p), p[Len(p)] \in {"worker", "recovery"}, Worked(p, Len(p))
    PROVE  Back("GRAPH", p \o (<<"planner">> \o <<"gate", "judge", "human">>))
<1>1. p \in Seq(Nodes) /\ "planner" \in Nodes /\ <<"gate", "judge", "human">> \in Seq(Nodes) /\ Len(p) \in Nat
  BY DEF Route, Nodes
<1>2. p \o (<<"planner">> \o <<"gate", "judge", "human">>) = Append(p, "planner") \o <<"gate", "judge", "human">>
  BY <1>1, GoesOn
<1>3. <<p[Len(p)], "planner">> \in Transitions("GRAPH")
  BY DEF Transitions
<1> DEFINE q == Append(p, "planner")
<1>4. Route("GRAPH", q) /\ Len(q) = Len(p) + 1 /\ q[Len(p) + 1] = "planner" /\ Worked(q, Len(p) + 1)
  BY <1>1, <1>3, OneMoreNode
<1> HIDE DEF q
<1>5. Back("GRAPH", q \o <<"gate", "judge", "human">>)
  BY <1>4, FromPlanner
<1> QED
  BY <1>2, <1>5 DEF q

LEMMA FromIdlePlanner ==
    ASSUME NEW p, Route("GRAPH", p), p[Len(p)] = "planner"
    PROVE  Back("GRAPH", p \o <<"worker", "planner", "gate", "judge", "human">>)
<1> DEFINE s == <<"planner", "gate", "judge", "human">>
<1>1. p \in Seq(Nodes) /\ "worker" \in Nodes /\ s \in Seq(Nodes) /\ Len(p) \in Nat
  BY DEF Route, Nodes
<1>2. p \o <<"worker", "planner", "gate", "judge", "human">> = Append(p, "worker") \o s
  BY <1>1, GoesOn
<1>3. <<p[Len(p)], "worker">> \in Transitions("GRAPH")
  BY DEF Transitions
<1> DEFINE q == Append(p, "worker")
<1>4. Route("GRAPH", q) /\ Len(q) = Len(p) + 1 /\ q[Len(p) + 1] = "worker" /\ Worked(q, Len(p) + 1)
  BY <1>1, <1>3, OneMoreNode
<1> HIDE DEF q
<1>5. Back("GRAPH", q \o (<<"planner">> \o <<"gate", "judge", "human">>))
  BY <1>4, FromWorker
<1>6. <<"planner">> \o <<"gate", "judge", "human">> = s
  <2> DEFINE joined == <<"planner">> \o <<"gate", "judge", "human">>
  <2>1. joined \in Seq(Nodes) /\ s \in Seq(Nodes) /\ Len(joined) = 4 /\ Len(s) = 4
    BY DEF Nodes
  <2>2. \A i \in 1..4 : joined[i] = s[i]
    OBVIOUS
  <2> HIDE DEF joined, s
  <2>3. Len(joined) = Len(s) /\ \A i \in 1..Len(joined) : joined[i] = s[i]
    BY <2>1, <2>2
  <2>4. joined = s
    BY <2>1, <2>3, SeqEqual
  <2> QED
    BY <2>4 DEF joined
<1> HIDE DEF s
<1> QED
  BY <1>2, <1>5, <1>6 DEF q

LEMMA FromIdle ==
    ASSUME NEW p, Route("GRAPH", p), p[Len(p)] \in {"human", "recovery"}
    PROVE  Back("GRAPH", p \o (<<"planner">> \o <<"worker", "planner", "gate", "judge", "human">>))
<1> DEFINE s == <<"worker", "planner", "gate", "judge", "human">>
<1>1. p \in Seq(Nodes) /\ "planner" \in Nodes /\ s \in Seq(Nodes) /\ Len(p) \in Nat
  BY DEF Route, Nodes
<1>2. p \o (<<"planner">> \o <<"worker", "planner", "gate", "judge", "human">>) = Append(p, "planner") \o s
  BY <1>1, GoesOn
<1>3. <<p[Len(p)], "planner">> \in Transitions("GRAPH")
  BY DEF Transitions
<1> DEFINE q == Append(p, "planner")
<1>4. Route("GRAPH", q) /\ Len(q) = Len(p) + 1 /\ q[Len(p) + 1] = "planner"
  BY <1>1, <1>3, OneMoreNode
<1> HIDE DEF q
<1>5. Back("GRAPH", q \o s)
  BY <1>4, FromIdlePlanner
<1> QED
  BY <1>2, <1>5 DEF q

LEMMA LoopFromGate ==
    ASSUME NEW p, Route("LOOP", p), p[Len(p)] = "gate"
    PROVE  Back("LOOP", p \o <<"human">>)
<1>1. p \in Seq(Nodes) /\ "human" \in Nodes
  BY DEF Route, Nodes
<1>2. p \o <<"human">> = Append(p, "human")
  BY <1>1
<1>3. <<p[Len(p)], "human">> \in Transitions("LOOP")
  BY DEF Transitions
<1> QED
  BY <1>1, <1>2, <1>3, OneMoreNode

LEMMA LoopFromPlanner ==
    ASSUME NEW p, Route("LOOP", p), p[Len(p)] = "planner"
    PROVE  Back("LOOP", p \o <<"gate", "human">>)
<1>1. p \in Seq(Nodes) /\ "gate" \in Nodes /\ <<"human">> \in Seq(Nodes) /\ Len(p) \in Nat
  BY DEF Route, Nodes
<1>2. p \o <<"gate", "human">> = Append(p, "gate") \o <<"human">>
  BY <1>1, GoesOn
<1>3. <<p[Len(p)], "gate">> \in Transitions("LOOP")
  BY DEF Transitions
<1> DEFINE q == Append(p, "gate")
<1>4. Route("LOOP", q) /\ Len(q) = Len(p) + 1 /\ q[Len(p) + 1] = "gate"
  BY <1>1, <1>3, OneMoreNode
<1> HIDE DEF q
<1>5. Back("LOOP", q \o <<"human">>)
  BY <1>4, LoopFromGate
<1> QED
  BY <1>2, <1>5 DEF q

LEMMA LoopFromStart ==
    ASSUME NEW p, Route("LOOP", p), p[Len(p)] \in {"human", "recovery"}
    PROVE  Back("LOOP", p \o (<<"planner">> \o <<"gate", "human">>))
<1>1. p \in Seq(Nodes) /\ "planner" \in Nodes /\ <<"gate", "human">> \in Seq(Nodes) /\ Len(p) \in Nat
  BY DEF Route, Nodes
<1>2. p \o (<<"planner">> \o <<"gate", "human">>) = Append(p, "planner") \o <<"gate", "human">>
  BY <1>1, GoesOn
<1>3. <<p[Len(p)], "planner">> \in Transitions("LOOP")
  BY DEF Transitions
<1> DEFINE q == Append(p, "planner")
<1>4. Route("LOOP", q) /\ Len(q) = Len(p) + 1 /\ q[Len(p) + 1] = "planner"
  BY <1>1, <1>3, OneMoreNode
<1> HIDE DEF q
<1>5. Back("LOOP", q \o <<"gate", "human">>)
  BY <1>4, LoopFromPlanner
<1> QED
  BY <1>2, <1>5 DEF q

\* Rest leads every route under way back to the human.
LEMMA RestLeadsBack ==
    ASSUME NEW m \in {"LOOP", "GRAPH"}, NEW p, Route(m, p)
    PROVE  Back(m, p \o Rest(m, p))
<1>0. Len(p) \in Nat /\ Len(p) # 0
  BY DEF Route
<1>1. p \in Seq(Nodes) /\ Len(p) \in Nat /\ Len(p) >= 1 /\ Last(p) = p[Len(p)] /\ p[Len(p)] \in Nodes
  BY DEF Route, Last
<1>2. CASE m = "LOOP"
  <2>1. p[Len(p)] \in {"human", "planner", "gate", "recovery"}
    <3>1. CASE Len(p) = 1
      BY <3>1 DEF Route
    <3>2. CASE Len(p) # 1
      <4> DEFINE e == Len(p) - 1
      <4>1. e \in Edges(p) /\ Edge(p, e) = <<p[e], p[Len(p)]>>
        <5>0. Len(p) \in Nat /\ Len(p) > 1
          <6> HIDE DEF e
          <6>1. \A k \in Nat : (k # 0 /\ k # 1) => k > 1
            OBVIOUS
          <6> QED
            BY <1>0, <3>2, <6>1
        <5>1. e \in 1..Len(p) - 1 /\ e + 1 = Len(p)
          BY <5>0
        <5>2. e \in Edges(p)
          BY <5>1 DEF Edges
        <5>3. Edge(p, e) = <<p[e], p[e + 1]>>
          BY DEF Edge
        <5> HIDE DEF e
        <5> QED
          BY <5>1, <5>2, <5>3
      <4>2. <<p[e], p[Len(p)]>> \in Transitions("LOOP")
        BY <1>2, <4>1 DEF Route
      <4> QED
        BY <4>2 DEF Transitions
    <3> QED
      BY <3>1, <3>2
  <2>2. CASE p[Len(p)] = "planner"
    <3>1. Rest(m, p) = <<"gate", "human">>
      BY <1>1, <1>2, <2>2 DEF Rest
    <3> QED
      BY <1>2, <2>2, <3>1, LoopFromPlanner
  <2>3. CASE p[Len(p)] = "gate"
    <3>1. Rest(m, p) = <<"human">>
      BY <1>1, <1>2, <2>3 DEF Rest
    <3> QED
      BY <1>2, <2>3, <3>1, LoopFromGate
  <2>4. CASE p[Len(p)] \in {"human", "recovery"}
    <3>1. Rest(m, p) = <<"planner">> \o <<"gate", "human">>
      BY <1>1, <1>2, <2>4 DEF Rest
    <3> QED
      BY <1>2, <2>4, <3>1, LoopFromStart
  <2> QED
    BY <2>1, <2>2, <2>3, <2>4
<1>3. CASE m = "GRAPH"
  <2>1. (\E i \in 1..Len(p) : p[i] = "worker") <=> Worked(p, Len(p))
    BY DEF Worked
  <2>2. p[Len(p)] = "worker" => Worked(p, Len(p))
    BY <1>1 DEF Worked
  <2>3. p[Len(p)] \in {"gate", "judge"} => Worked(p, Len(p))
    <3> SUFFICES ASSUME p[Len(p)] \in {"gate", "judge"} PROVE Worked(p, Len(p))
      OBVIOUS
    <3> DEFINE e == Len(p) - 1
    <3>1. e \in Edges(p) /\ Edge(p, e) = <<p[e], p[Len(p)]>> /\ e \in Nat
      BY <1>1 DEF Route, Edges, Edge
    <3>2. <<p[e], p[Len(p)]>> \in Transitions("GRAPH")
      BY <1>3, <3>1 DEF Route
    <3>3. Edge(p, e) \in {<<"planner", "gate">>, <<"gate", "judge">>}
      BY <3>1, <3>2 DEF Transitions
    <3>4. \E j \in 1..e : p[j] = "worker"
      BY <1>3, <3>1, <3>3 DEF Route, WorkComesFirst
    <3> QED
      BY <1>1, <3>1, <3>4 DEF Worked
  <2>4. CASE p[Len(p)] = "judge"
    <3>1. Rest(m, p) = <<"human">>
      BY <1>1, <1>3, <2>4 DEF Rest
    <3> QED
      BY <1>3, <2>4, <3>1, FromJudge
  <2>5. CASE p[Len(p)] = "gate"
    <3>1. Rest(m, p) = <<"judge", "human">>
      BY <1>1, <1>3, <2>5 DEF Rest
    <3> QED
      BY <1>3, <2>3, <2>5, <3>1, FromGate
  <2>6. CASE p[Len(p)] = "planner" /\ Worked(p, Len(p))
    <3>1. Rest(m, p) = <<"gate", "judge", "human">>
      BY <1>1, <1>3, <2>1, <2>6 DEF Rest
    <3> QED
      BY <1>3, <2>6, <3>1, FromPlanner
  <2>7. CASE p[Len(p)] = "planner" /\ ~Worked(p, Len(p))
    <3>1. Rest(m, p) = <<"worker", "planner", "gate", "judge", "human">>
      BY <1>1, <1>3, <2>1, <2>7 DEF Rest
    <3> QED
      BY <1>3, <2>7, <3>1, FromIdlePlanner
  <2>8. CASE p[Len(p)] \in {"worker", "recovery"} /\ Worked(p, Len(p))
    <3>1. Rest(m, p) = <<"planner">> \o <<"gate", "judge", "human">>
      BY <1>1, <1>3, <2>1, <2>8 DEF Rest
    <3> QED
      BY <1>3, <2>8, <3>1, FromWorker
  <2>9. CASE p[Len(p)] \in {"human", "recovery"} /\ ~Worked(p, Len(p))
    <3>1. Rest(m, p) = <<"planner">> \o <<"worker", "planner", "gate", "judge", "human">>
      BY <1>1, <1>3, <2>1, <2>9 DEF Rest
    <3> QED
      BY <1>3, <2>9, <3>1, FromIdle
  <2>10. p[Len(p)] = "human" => ~Worked(p, Len(p))
    BY <1>1 DEF Route, Worked
  <2> QED
    BY <1>1, <2>2, <2>4, <2>5, <2>6, <2>7, <2>8, <2>9, <2>10 DEF Nodes
<1> QED
  BY <1>2, <1>3

\* No accepted route is a dead end: where the step cap leaves room for it, and in a GRAPH the
\* receipts have evidence or room for some, the route is completed to one that is accepted as
\* delivered, from every node, before and after a worker.
THEOREM NoRouteIsStuck == Spec => []NoDeadEnd
<1> DEFINE whole == path \o Rest(mode, path)
<1>1. ASSUME Inv, Accepted, ~delivered, Len(whole) - 1 <= StepCap,
             NEW rs \in More, ReceiptsOK(rs), mode = "GRAPH" => Evidenced(rs)
      PROVE  Accepts(whole, rs, "PASS", TRUE)
  <2>1. mode \in {"LOOP", "GRAPH"} /\ path \in Seq(Nodes) /\ path # <<>>
    BY <1>1 DEF Inv, TypeOK
  <2>2. RouteOK(mode, path) /\ EventsOK /\ (Len(path) > 1 => Last(path) # "human")
    BY <1>1 DEF Accepted, Accepts, DeliveryOK
  <2>3. Route(mode, path)
    <3>1. \A i \in 2..Len(path) : path[i] # "human"
      BY <2>1, <2>2 DEF RouteOK, Last
    <3> QED
      BY <2>1, <2>2, <3>1 DEF RouteOK, Route
  <2>4. Back(mode, whole)
    BY <2>1, <2>3, RestLeadsBack
  <2> HIDE DEF whole
  <2>5. RouteOK(mode, whole) /\ whole \in Seq(Nodes) /\ Len(whole) > 1 /\ whole[Len(whole)] = "human"
    BY <1>1, <2>4 DEF Back, RouteOK
  <2>6. Passes(whole, Stages(mode)) /\ Last(whole) = "human"
    BY <2>1, <2>5, BackIsThrough DEF Last
  <2> QED
    BY <1>1, <2>2, <2>5, <2>6 DEF Accepts, DeliveryOK
<1>2. Inv => NoDeadEnd
  BY <1>1 DEF NoDeadEnd
<1> QED
  BY RouteTypes, <1>2, PTL
=============================================================================
