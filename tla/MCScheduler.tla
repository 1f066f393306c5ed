---------------------------- MODULE MCScheduler ----------------------------
(***************************************************************************)
(* Small instances of Scheduler for TLC: one schedule every two instants   *)
(* on a grid (cron), one with an interval, one that runs once.             *)
(***************************************************************************)
EXTENDS Scheduler, TLC

CONSTANTS cron, every, once

MCInterval == [s \in Schedules |-> IF s = every THEN 2 ELSE 0]

MCCronNext == [s \in Cron |-> [i \in Instants |-> (i \div 2 + 1) * 2]]

=============================================================================
