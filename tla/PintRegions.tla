----------------------------- MODULE PintRegions -----------------------------
(***************************************************************************)
(* What the scheduler of the PLS runtime promises: a stratified event      *)
(* queue.  Events of the active region execute in any order and may        *)
(* schedule events in every region; a later region is activated as a whole *)
(* and only when everything before it is empty; the time advances last, to *)
(* the earliest pending time.                                              *)
(***************************************************************************)
EXTENDS Integers, FiniteSets

CONSTANTS
    Events,       \* what can be scheduled
    Updates,      \* the events that belong to the nonblocking-assignment region
    Background    \* events whose pending delay does not keep the simulation alive

VARIABLES
    now,          \* the simulation time
    active,       \* the active region
    nba,          \* nonblocking assignments to apply
    zero,         \* #0 events
    postponed,    \* $strobe
    future,       \* set of <<event, time>>
    stopped

rvars == <<now, active, nba, zero, postponed, future, stopped>>

Init ==
    /\ now = 0 /\ active \subseteq Events
    /\ nba = {} /\ zero = {} /\ postponed = {} /\ future = {} /\ stopped = FALSE

\* An active event executes (for some steps).  It may schedule anything, a delayed
\* event only after now, and may reschedule a pending delayed event.
Execute ==
    /\ ~stopped
    /\ \E e \in active : active \ {e} \subseteq active'
    /\ active' \subseteq Events
    /\ nba \subseteq nba' /\ zero \subseteq zero' /\ postponed \subseteq postponed'
    /\ \A f \in future' \ future : f[2] > now
    /\ \A f \in future \ future' : \E g \in future' : g[1] = f[1] /\ g[2] > now
    /\ UNCHANGED <<now, stopped>>

ActivateNba ==
    /\ ~stopped /\ active = {} /\ nba # {}
    /\ active' = nba /\ nba' = {}
    /\ UNCHANGED <<now, zero, postponed, future, stopped>>

ActivateZero ==
    /\ ~stopped /\ active = {} /\ nba = {} /\ zero # {}
    /\ active' = zero /\ zero' = {}
    /\ stopped' \in BOOLEAN
    /\ UNCHANGED <<now, nba, postponed, future>>

ActivatePostponed ==
    /\ ~stopped /\ active = {} /\ nba = {} /\ zero = {} /\ postponed # {}
    /\ active' = postponed /\ postponed' = {}
    /\ UNCHANGED <<now, nba, zero, future, stopped>>

Quiet == active = {} /\ nba = {} /\ zero = {} /\ postponed = {}

\* Events due at one time may be released in more than one step.
Advance ==
    /\ ~stopped /\ Quiet
    /\ \E due \in (SUBSET future) \ {{}} :
         /\ \A f \in due : f[2] = now' /\ \A g \in future : f[2] <= g[2]
         /\ future' = future \ due
         /\ active' = {f[1] : f \in due} \ Updates
         /\ nba' = {f[1] : f \in due} \cap Updates
    /\ now' >= now
    /\ stopped' \in BOOLEAN
    /\ UNCHANGED <<zero, postponed>>

\* The simulation ends by itself; the final time is not kept.
Stop ==
    /\ ~stopped /\ Quiet
    /\ \A f \in future : f[1] \in Background
    /\ stopped' = TRUE
    /\ UNCHANGED <<active, nba, zero, postponed, future>>

Next ==
    \/ Execute \/ ActivateNba \/ ActivateZero \/ ActivatePostponed
    \/ Advance \/ Stop

Spec == Init /\ [][Next]_rvars
=============================================================================
