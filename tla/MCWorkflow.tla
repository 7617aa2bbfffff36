----------------------------- MODULE MCWorkflow -----------------------------
(* Values for model checking Workflow and Workbench. *)
EXTENDS Workbench, TLC

\* The delivery template without Discovery and Plan, which behave like every stage that has
\* neither evidence nor a loop.
ShortTemplate == <<"IMPLEMENT", "REVIEW", "QA", "ACCEPTANCE">>
FullTemplate  == <<"DISCOVERY", "PLAN", "IMPLEMENT", "REVIEW", "QA", "ACCEPTANCE">>

\* No definition tells one tree from another.
TreeSymmetry == Permutations(Tree)
=============================================================================
