----------------------------- MODULE BranchStack -----------------------------
(***************************************************************************)
(* scripts/check_branch_stack.py: each branch of a stack must be an         *)
(* ancestor of the next, which a git process of its own says for each pair, *)
(* while branches move.  Graphite's status is not part of the verdict.      *)
(***************************************************************************)
EXTENDS GitRepo

CONSTANT Stack   \* the refs on the command line, from the lowest upwards

ASSUME StackAssumption == Stack \in Seq(UNION BranchSets) /\ Len(Stack) \in 2..32   \* MAX_BRANCHES

VARIABLES
    stacked,   \* what the check knows: "idle", or it "runs", or the stack is "ok"
    pair,      \* the pairs it has observed
    linear,    \* all of them were ancestral
    began      \* history: what each branch held when the check began, if it has only moved
               \* forward since then

stacking == <<stacked, pair, linear, began>>
stackVars == <<repo, stacking>>

StackInit ==
    /\ stacked = "idle"
    /\ pair = 0 /\ linear = TRUE
    /\ began = [b \in Branches |-> 0]

\* effective_graft_error() refuses grafts; a shallow clone will do.
StackStart ==
    /\ stacked # "runs"
    /\ depth # "grafted"
    /\ stacked' = "runs"
    /\ pair' = 0 /\ linear' = TRUE
    /\ began' = refs
    /\ UNCHANGED repo

\* git merge-base --is-ancestor; of a ref that is not there it is false as well.
IsAncestor(lower, upper) ==
    lower \in Named /\ upper \in Named /\ refs[lower] \in commits[refs[upper]].past

\* Mutant of Observe: the last pair decides.
ObserveLast ==
    /\ stacked = "runs" /\ pair < Len(Stack) - 1
    /\ pair' = pair + 1
    /\ linear' = IsAncestor(Stack[pair'], Stack[pair' + 1])
    /\ UNCHANGED <<repo, stacked, began>>

Observe ==
    /\ stacked = "runs" /\ pair < Len(Stack) - 1
    /\ pair' = pair + 1
    /\ linear' = (linear /\ IsAncestor(Stack[pair'], Stack[pair' + 1]))
    /\ UNCHANGED <<repo, stacked, began>>

StackOk ==
    /\ stacked = "runs" /\ pair = Len(Stack) - 1
    /\ linear
    /\ stacked' = "ok"
    /\ pair' = 0
    /\ UNCHANGED <<repo, linear, began>>

\* The stack is not linear; or a git process cannot start, writes too much, or reaches its
\* timeout, that of the search for Graphite included.
StackFails ==
    /\ stacked = "runs"
    /\ stacked' = "idle"
    /\ pair' = 0 /\ linear' = TRUE
    /\ began' = [b \in Branches |-> 0]
    /\ UNCHANGED repo

\* Somebody works in the repository; its history is cut between two checks only.
StackPeople ==
    /\ \/ \E parents \in Followed : Commit(parents, {})
       \/ \E b \in Branches : Switch(b)
       \/ \E b \in Branches, c \in Commits \cup {0} : MoveRef(b, c)
       \/ stacked # "runs" /\ CutHistory
    /\ began' = [b \in Branches |->
          IF refs'[b] # 0 /\ refs[b] \in commits'[refs'[b]].past THEN began[b] ELSE 0]
    /\ UNCHANGED <<stacked, pair, linear>>

StackNext ==
    StackStart \/ Observe \/ StackOk \/ StackFails \/ StackPeople

-----------------------------------------------------------------------------
(* Properties *)

\* What a branch of a stack that is "ok" held when the check began is in every branch above
\* it, though no two pairs were looked at together and however far the branches have moved
\* forward meanwhile and since.  (A rebase or a reset takes its branch out of the promise.)
StackIsLinear ==
    stacked = "ok" =>
        \A i, j \in 1..Len(Stack) :
            i < j /\ (\A k \in i..j : began[Stack[k]] # 0) =>
                began[Stack[i]] \in commits[refs[Stack[j]]].past
=============================================================================
