----------------------------- MODULE RateLimiter -----------------------------
(***************************************************************************)
(* check_rate_limit (pkg/redis_client.py) as the gateway's middleware uses *)
(* it for one client address: a counter in Redis that expires with its     *)
(* window.  Normally a script increments it and sees to its expiry at      *)
(* once; where the script cannot run, two commands do, and the second one  *)
(* may fail.  Without Redis everybody passes.                              *)
(***************************************************************************)
EXTENDS Naturals

CONSTANT RateLimit      \* requests in a window (200 in the gateway)

ASSUME RateLimitAssumption == RateLimit \in Nat \ {0}

VARIABLES
    hits,       \* the counter, 0 while there is no key; it stops counting at
                \* RateLimit + 1, from where every request is refused alike
    expiry      \* whether the key expires: "set", or "none"

LimiterTypeOK == hits \in 0 .. RateLimit + 1 /\ expiry \in {"set", "none"}

LimiterInit == hits = 0 /\ expiry = "none"

Incremented(n) == IF hits + n > RateLimit THEN RateLimit + 1 ELSE hits + n

(* Mutant of Expires: a counter left without expiry by a failure is not repaired. *)
ExpiresNew == IF hits = 0 THEN "set" ELSE expiry

Expires == IF hits = 0 \/ expiry = "none" THEN "set" ELSE expiry

\* whether the n-th request from now on passes
Admitted(n) == Incremented(n) <= RateLimit

(* n requests: INCR, and EXPIRE when the key is new or has no expiry. *)
Count(n) == hits' = Incremented(n) /\ expiry' = Expires

(* INCR and TTL go through, EXPIRE does not; the error admits the request. *)
CountOnly ==
    /\ hits = 0 \/ expiry = "none"
    /\ hits' = Incremented(1) /\ expiry' = "none"

(* The window is over and Redis drops the key. *)
WindowEnds ==
    /\ hits > 0 /\ expiry = "set"
    /\ hits' = 0 /\ expiry' = "none"

=============================================================================
