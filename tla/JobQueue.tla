------------------------------ MODULE JobQueue ------------------------------
(***************************************************************************)
(* What the persistent job queue promises to the rest of the system,       *)
(* without leases, timers, heartbeats or progress: a job is claimed by at  *)
(* most one holder at a time and at most limit times, it is either        *)
(* given back or settled, a settled job stays settled, and a job somebody  *)
(* has doomed is never given back and never succeeds.                      *)
(***************************************************************************)
EXTENDS Naturals

CONSTANTS Job, Holder, Nobody, Limits

VARIABLES
    phase,    \* [Job -> Phase]
    holder,   \* [Job -> Holder \cup {Nobody}]
    limit,    \* [Job -> Limits \cup {0}], chosen when the job is submitted
    tries,    \* [Job -> Nat]
    doomed    \* the jobs whose cancellation was requested

Phase == {"absent", "waiting", "held", "succeeded", "failed", "cancelled"}

queueVars == <<phase, holder, limit, tries, doomed>>

QueueInit ==
    /\ phase = [j \in Job |-> "absent"]
    /\ holder = [j \in Job |-> Nobody]
    /\ limit = [j \in Job |-> 0]
    /\ tries = [j \in Job |-> 0]
    /\ doomed = {}

Submit(j, n) ==
    /\ phase[j] = "absent"
    /\ phase' = [phase EXCEPT ![j] = "waiting"]
    /\ limit' = [limit EXCEPT ![j] = n]
    /\ UNCHANGED <<holder, tries, doomed>>

Claim(j, h) ==
    /\ phase[j] = "waiting"
    /\ tries[j] < limit[j]
    /\ phase' = [phase EXCEPT ![j] = "held"]
    /\ holder' = [holder EXCEPT ![j] = h]
    /\ tries' = [tries EXCEPT ![j] = @ + 1]
    /\ UNCHANGED <<limit, doomed>>

(* A holder is relieved of its jobs J; each goes back while a try is left. *)
Relieve(J, outcome) ==
    /\ \A j \in J :
        /\ phase[j] = "held"
        /\ outcome[j] = "waiting" => j \notin doomed /\ tries[j] < limit[j]
        /\ outcome[j] = "succeeded" => j \notin doomed
        /\ outcome[j] = "cancelled" => j \in doomed
    /\ phase' = [j \in Job |-> IF j \in J THEN outcome[j] ELSE phase[j]]
    /\ holder' = [j \in Job |-> IF j \in J THEN Nobody ELSE holder[j]]
    /\ UNCHANGED <<limit, tries, doomed>>

(* Jobs J are cancelled: those waiting at once, those held are doomed. *)
Cancel(J) ==
    /\ \A j \in J : phase[j] \in {"waiting", "held"}
    /\ phase' = [j \in Job |-> IF j \in J /\ phase[j] = "waiting"
                               THEN "cancelled" ELSE phase[j]]
    /\ doomed' = doomed \cup J
    /\ UNCHANGED <<holder, limit, tries>>

QueueNext ==
    \/ \E j \in Job, n \in Limits : Submit(j, n)
    \/ \E j \in Job, h \in Holder : Claim(j, h)
    \/ \E J \in SUBSET Job :
         \E outcome \in [J -> {"waiting", "succeeded", "failed", "cancelled"}] :
            Relieve(J, outcome)
    \/ \E J \in SUBSET Job : Cancel(J)

QueueSpec == QueueInit /\ [][QueueNext]_queueVars
=============================================================================
