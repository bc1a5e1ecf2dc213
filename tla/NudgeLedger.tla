----------------------------- MODULE NudgeLedger -----------------------------
(***************************************************************************)
(* What the stop hook promises, without locks, files or processes: for each *)
(* retained session, the contents it has been asked to review, in order.    *)
(* A session is asked at most MaxNudges times, never twice in a row about   *)
(* the same content, and other sessions are forgotten only when more than   *)
(* Retained of them would be kept.                                         *)
(***************************************************************************)
EXTENDS Naturals, Sequences, FiniteSets

CONSTANTS Sessions, Digests, MaxNudges, Retained

VARIABLE asked  \* a function from the retained sessions to sequences of contents

Known(s) == s \in DOMAIN asked
Asked(s) == IF Known(s) THEN asked[s] ELSE <<>>

Init == asked = <<>>

\* Session s is asked about content d; the sessions in gone are forgotten.
Ask(s, d, gone) ==
    /\ Len(Asked(s)) < MaxNudges
    /\ Asked(s) # <<>> => Asked(s)[Len(Asked(s))] # d
    /\ gone \subseteq DOMAIN asked \ {s}
    /\ gone # {} => Cardinality(DOMAIN asked \cup {s}) > Retained
    /\ asked' = [t \in (DOMAIN asked \cup {s}) \ gone |->
                    IF t = s THEN Append(Asked(s), d) ELSE asked[t]]

Next == \E s \in Sessions, d \in Digests, gone \in SUBSET Sessions : Ask(s, d, gone)

Spec == Init /\ [][Next]_asked

=============================================================================
