--------------------------------- MODULE Answers ---------------------------------
(***************************************************************************)
(* How the pure algorithms of the daemon are run: the state is one input   *)
(* and, after one step, what the algorithm answers.                        *)
(***************************************************************************)
EXTENDS Sequences

VARIABLES
    task,    \* the input, with the kind of the algorithm
    answer   \* nothing yet, or the one thing it returned

answerVars == <<task, answer>>

Answer(kind, value) == task.kind = kind /\ answer = <<>> /\ answer' = <<value>> /\ UNCHANGED task

answered(kind) == task.kind = kind /\ answer # <<>>
result == Head(answer)
===============================================================================
