-------------------------- MODULE DistributedLock --------------------------
(***************************************************************************)
(* What callers of distributed_lock (pkg/redis_client.py) rely on: one     *)
(* client at a time is between the two halves of "async with", and the     *)
(* next one enters only after it has left.  Keys, expiry, crashes and the  *)
(* fallback when Redis is down are the business of the implementation.     *)
(***************************************************************************)
CONSTANTS Keys, Clients

VARIABLE inside     \* the clients in the body of "async with", per key

Init == inside = [k \in Keys |-> {}]

Enter(c, k) ==
    /\ inside[k] = {}
    /\ inside' = [inside EXCEPT ![k] = {c}]

(* By the end of the body, an exception, or the death of the process. *)
Leave(c, k) ==
    /\ inside[k] = {c}
    /\ inside' = [inside EXCEPT ![k] = {}]

Next == \E c \in Clients, k \in Keys : Enter(c, k) \/ Leave(c, k)

Spec == Init /\ [][Next]_inside

=============================================================================
