-------------------------- MODULE StatusBroadcast --------------------------
(***************************************************************************)
(* RuntimeStatusBroadcaster: the heartbeat and the requests of the user    *)
(* read the runtime status, compare its signature with the last one and    *)
(* publish it, each on its own task and without a common lock, so that an  *)
(* older status may be published after a newer one.  Publications are      *)
(* numbered, and the page keeps the one with the highest number.           *)
(***************************************************************************)
EXTENDS Naturals

CONSTANTS
  Statuses,   \* signatures of the runtime status
  MaxChanges, \* bound on its changes
  BeatsToHeal \* undisturbed heartbeats after which the page is right again

ASSUME HealAssumption == BeatsToHeal \in Nat /\ BeatsToHeal >= 2

VARIABLES
  status,    \* what the runtime would report now
  changes,
  callers,   \* the heartbeat and a request: where broadcast_runtime is
  lastSent,  \* last_runtime_signature, with the age in heartbeats of last_broadcast_at
  dashboard, \* what the page shows
  quiet      \* heartbeats since something else happened

statusVars == <<status, changes, callers, lastSent, dashboard, quiet>>

Nobody == "none"
Callers == {"heartbeat", "request"}
AtRest == [pc |-> "rest"]

StatusInit ==
  /\ status \in Statuses /\ changes = 0
  /\ callers = [c \in Callers |-> AtRest]
  /\ lastSent = [signature |-> Nobody, age |-> 2]
  /\ dashboard = Nobody /\ quiet = 0

StatusChanges ==
  /\ changes < MaxChanges
  /\ status' \in Statuses \ {status}
  /\ changes' = changes + 1 /\ quiet' = 0
  /\ UNCHANGED <<callers, lastSent, dashboard>>

\* The heartbeat ticks, or a request ends with a forced broadcast, or a stop forgets the signature.
Reads(c) ==
  /\ callers[c] = AtRest
  /\ callers' = [callers EXCEPT ![c] = [pc |-> "compare", read |-> status]]
  /\ lastSent' = IF c = "heartbeat" /\ lastSent.age < 2 THEN [lastSent EXCEPT !.age = @ + 1] ELSE lastSent
  /\ IF c = "request" THEN changes < MaxChanges /\ changes' = changes + 1 ELSE UNCHANGED changes
  /\ quiet' = IF c = "request" THEN 0 ELSE quiet
  /\ UNCHANGED <<status, dashboard>>

DueNever == {FALSE}

\* The interval has passed since the last broadcast: one beat later it may just be short.
Due == IF lastSent.age = 1 THEN BOOLEAN ELSE {lastSent.age > 1}

Compares(c) ==
  /\ callers[c].pc = "compare"
  /\ \E due \in Due :
       LET sends == c = "request" \/ callers[c].read # lastSent.signature \/ due
       IN /\ callers' = [callers EXCEPT ![c] = IF sends THEN [@ EXCEPT !.pc = "publish"] ELSE AtRest]
          /\ quiet' = IF ~sends /\ callers["request"] = AtRest /\ quiet < BeatsToHeal THEN quiet + 1 ELSE quiet
          /\ lastSent' = IF sends THEN [signature |-> callers[c].read, age |-> 0] ELSE lastSent
  /\ UNCHANGED <<status, changes, dashboard>>

Publishes(c) ==
  /\ callers[c].pc = "publish"
  /\ dashboard' = callers[c].read
  /\ callers' = [callers EXCEPT ![c] = AtRest]
  /\ quiet' = IF c = "request" THEN 0
              ELSE IF callers["request"] = AtRest /\ callers[c].read = status /\ quiet < BeatsToHeal
              THEN quiet + 1 ELSE quiet
  /\ UNCHANGED <<status, changes, lastSent>>

\* reset_broadcast_state, at a stop.
ForgetsSignature ==
  /\ changes < MaxChanges /\ changes' = changes + 1
  /\ lastSent' = [signature |-> Nobody, age |-> 2]
  /\ quiet' = 0
  /\ UNCHANGED <<status, callers, dashboard>>

StatusNext == StatusChanges \/ ForgetsSignature \/ \E c \in Callers : Reads(c) \/ Compares(c) \/ Publishes(c)

StatusSpec == StatusInit /\ [][StatusNext]_statusVars

-----------------------------------------------------------------------------
\* However the broadcasts of the heartbeat and of the requests overtook each other, a few
\* heartbeats later the page shows the status of the runtime.
HeartbeatsHeal == quiet = BeatsToHeal => dashboard = status
=============================================================================
