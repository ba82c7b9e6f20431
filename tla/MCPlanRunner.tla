---------------------------- MODULE MCPlanRunner ----------------------------
(* Values of PlanRunner's constants for model checking.                    *)
EXTENDS PlanRunner

CONSTANTS p1, p2

OnePlan == {p1}
TwoPlans == {p1, p2}

\* Two persons: a limit over all of them is met with fewer plans than each may ask for.
OwnPlans == [p \in Plans |-> p]

\* Files are checked like tests, only that work that changed files never adds them.
TestsThenAnswer == <<"tests", "answer">>
OnlyAnswer == <<"answer">>

\* Every list reads the reply; the tests join it once work has changed files.
AnswerOnly == {{"answer"}}
=============================================================================
