----------------------------- MODULE MCDashboard -----------------------------
(***************************************************************************)
(* The console with two tasks of one title and type: none yet; one queued  *)
(* beside one that is stuck in RETRY; one that has succeeded, beside room  *)
(* for another; one running while somebody else clears the history.        *)
(***************************************************************************)
EXTENDS Dashboard

CONSTANTS t1, t2

MCTitle  == [t \in Tasks |-> "etl"]
MCOrder  == <<t1, t2>>
MCLoad(s1, s2, m, k, b) ==
    [rows |-> [t \in Tasks |-> IF t = t1 THEN s1 ELSE s2], mode |-> m, token |-> k, busy |-> b]

MCLoads == { MCLoad("ABSENT", "ABSENT", "manual", "none", {}),
             MCLoad("QUEUED", "RETRY", "manual", "stale", {}),
             MCLoad("SUCCESS", "ABSENT", "auto", "stale", {}),
             MCLoad("RUNNING", "GONE", "manual", "none", {1}) }

=============================================================================
