---------------------------- MODULE MCSubmission ----------------------------
(***************************************************************************)
(* Small instances of Submission for TLC.                                  *)
(***************************************************************************)
EXTENDS Submission, TLC

CONSTANTS s1, s2, b, k1, k2, sigA, sigB

Single == [key |-> k1, sig |-> sigA, guard |-> TRUE, gated |-> FALSE]

(* A request and its repetition, and a batch with a key of its own whose     *)
(* first item has the same title and whose second waits for something.       *)
Requests == [c \in Calls |->
    IF c = b THEN << [Single EXCEPT !.key = k2],
                     [key |-> NoKey, sig |-> sigB, guard |-> FALSE, gated |-> TRUE] >>
    ELSE <<Single>>]
=============================================================================
