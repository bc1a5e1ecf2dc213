----------------------------- MODULE MCSkillSync -----------------------------
(* SkillSync with two runs; runs of the script and files are interchangeable.  *)
EXTENDS SkillSync, TLC

Way(modes, failures, ofSkills, ofCopies) ==
    [modes |-> modes, failures |-> failures,
     edits |-> [k \in {"source", "dest"} |-> IF k = "source" THEN ofSkills ELSE ofCopies]]

\* Updates, also forced ones, while people edit skills and copies; and updates beside
\* removals, where Ctrl-C is pressed as well but nobody edits a copy: remove() deletes by
\* name what it has compared before.
UpdateAndRemove ==
    { Way({"sync", "force"}, {"error", "crash"}, 1, 1),
      Way({"sync", "remove"}, {"error", "crash", "interrupt"}, 2, 0) }

InterruptedForce == { Way({"force"}, {"interrupt"}, 0, 0) }

Symmetric == Permutations(Processes) \cup Permutations(Files)
=============================================================================
