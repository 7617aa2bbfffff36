---------------------------- MODULE MCExecution ----------------------------
(* Small instances of Execution. *)
EXTENDS Execution

\* Attempts of the stages that write, or all but the last or the second one (ACCEPTANCE, which has
\* no workspace and which another pipeline may follow).
AllInWorkspace == AttemptId
AllButLast     == AttemptId \ {MaxAttempts}
AllButSecond   == AttemptId \ {2}
=============================================================================
