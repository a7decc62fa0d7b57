-------------------------- MODULE MCWorkflowEngine --------------------------
(* Small instances of WorkflowEngine for TLC. *)
EXTENDS WorkflowEngine, TLC

Task(max) == [kind |-> "task", max |-> max]
Wait == [kind |-> "wait", max |-> 1]

\* A retried task, then a wait.
TaskThenWait == {<<Task(2), Wait>>}

\* A single task with two attempts.
OneTask == {<<Task(2)>>}

\* Instances are interchangeable.
InstanceSymmetry == Permutations(Instances)
=============================================================================
