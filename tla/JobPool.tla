-------------------------------- MODULE JobPool --------------------------------
(***************************************************************************)
(* What the translation dispatcher promises the controller that feeds it:  *)
(* jobs wait in the order they were accepted, a bounded number of them     *)
(* waits and runs, and once the pool is closed nothing is accepted or      *)
(* started.  A job may be withdrawn at any time; it never comes back.      *)
(***************************************************************************)
EXTENDS Naturals, FiniteSets

CONSTANTS Jobs,      \* ids, in the order of acceptance
          Capacity,  \* jobs that may wait
          Limit      \* jobs that may run

VARIABLES waiting, running, newest, closed

poolVars == <<waiting, running, newest, closed>>

PoolInit ==
  /\ waiting = {}
  /\ running = {}
  /\ newest = 0
  /\ closed = FALSE

Accept(j) ==
  /\ ~closed
  /\ j > newest
  /\ Cardinality(waiting) < Capacity
  /\ waiting' = waiting \union {j}
  /\ newest' = j
  /\ UNCHANGED <<running, closed>>

\* The pool starts its oldest waiting job.
Start(j) ==
  /\ ~closed
  /\ j \in waiting
  /\ \A i \in waiting : j <= i
  /\ Cardinality(running) < Limit
  /\ waiting' = waiting \ {j}
  /\ running' = running \union {j}
  /\ UNCHANGED <<newest, closed>>

\* Jobs end, are cancelled or are dropped.
Withdraw ==
  /\ waiting' \in SUBSET waiting
  /\ running' \in SUBSET running
  /\ UNCHANGED <<newest, closed>>

\* Closing withdraws every job but one that is just being started.
Close ==
  /\ ~closed
  /\ closed' = TRUE
  /\ waiting' = {}
  /\ running' \in SUBSET running
  /\ \A i, j \in running' : i = j
  /\ UNCHANGED newest

PoolNext ==
  \/ \E j \in Jobs : Accept(j) \/ Start(j)
  \/ Withdraw
  \/ Close

PoolSpec == PoolInit /\ [][PoolNext]_poolVars

=============================================================================
