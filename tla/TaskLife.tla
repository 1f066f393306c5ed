------------------------------ MODULE TaskLife ------------------------------
(***************************************************************************)
(* The life of a row of the tasks table as the writers of its status leave *)
(* it to anybody who watches the column: which values may follow which.    *)
(* No function of CloudTask enforces these moves, every writer assigns     *)
(* task.status outright; they are what remains of all the writers together *)
(* when each keeps its own checks.  TaskExecution (under a reliable lock)  *)
(* and TaskRelease implement this specification, Submission takes its      *)
(* environment from it, and the tasks of Dashboard and Observers stay      *)
(* within it.                                                              *)
(***************************************************************************)
CONSTANT Tasks          \* rows of the tasks table

VARIABLE status         \* tasks.status

Missing  == {"ABSENT", "GONE"}                  \* not yet inserted, deleted
Existing == {"PENDING", "QUEUED", "RUNNING", "RETRY", "SUCCESS", "CANCELLED",
             "DEAD_LETTERED"}
Status   == Missing \cup Existing

Init == status = [t \in Tasks |-> "ABSENT"]

(* create_task, create_batch_tasks and execute_job insert rows. *)
Inserted == {"ABSENT"} \X {"PENDING", "QUEUED"}

(* QUEUED is written from copies read before, so over anything: by the       *)
(* releases of a waiting task, by retry and replay, after a backoff.         *)
Queued == Existing \X {"QUEUED"}

(* What an execution writes.  It neither takes up nor overwrites a SUCCESS,  *)
(* and nothing executes a task that was never queued.                        *)
Executed == {"QUEUED", "RUNNING", "RETRY", "CANCELLED", "DEAD_LETTERED"}
            \X {"RUNNING", "RETRY", "SUCCESS", "CANCELLED", "DEAD_LETTERED"}

(* cancel_task, which looked at the status one statement earlier. *)
Cancelled == Existing \X {"CANCELLED"}

(* clear_history deletes the ids it found settled, whatever has become of    *)
(* them since; a task does not go back to PENDING.                           *)
Cleared == (Existing \ {"PENDING"}) \X {"GONE"}

Moves == Inserted \cup Queued \cup Executed \cup Cancelled \cup Cleared

(* A commit moves one row or several, and leaves the others alone. *)
Next ==
    /\ status' \in [Tasks -> Status]
    /\ \A t \in Tasks : status'[t] = status[t] \/ <<status[t], status'[t]>> \in Moves

Spec == Init /\ [][Next]_status
=============================================================================
