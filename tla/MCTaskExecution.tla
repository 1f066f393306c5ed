-------------------------- MODULE MCTaskExecution --------------------------
(***************************************************************************)
(* Small instances of TaskExecution for TLC.                               *)
(***************************************************************************)
EXTENDS TaskExecution, TLC

CONSTANTS Retries       \* the same tasks.max_retries for every task

MCMaxRetries == [t \in Tasks |-> Retries]

RunnerSymmetry == Permutations(Runners)

CONSTANTS MaxQueue,     \* bound: ready messages per task
          MaxAttempt    \* bound: executions a task has begun

SmallInstance ==
    \A t \in Tasks : queue[t] <= MaxQueue /\ attempt[t] <= MaxAttempt

=============================================================================
