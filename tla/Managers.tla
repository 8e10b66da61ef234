------------------------------ MODULE Managers ------------------------------
(***************************************************************************)
(* Two processes of the operator, A and B, over one resource: a leader and *)
(* its standby, or the old and the new Pod of a rollout.  They share the   *)
(* API server, OCI and the lease.  Each has its own watch stream; both end *)
(* in the stored version, and begin where the cache of the process is.     *)
(***************************************************************************)
EXTENDS Naturals, Sequences

CONSTANTS NoID, InstanceIDs, MaxCreates, MaxInterventions, MaxFaults,
          MaxDisturbances  \* interventions and faults together

ASSUME BoundsAssumption ==
    MaxCreates \in Nat /\ MaxInterventions \in Nat /\ MaxFaults \in Nat

ASSUME IDAssumption == NoID \notin InstanceIDs

VARIABLES
    holder, oci, interventions, faults,
    versionsA, queuedA, timerA, pcA, objA, attemptA, clientA, leadsA,
    versionsB, queuedB, timerB, pcB, objB, attemptB, clientB, leadsB

A == INSTANCE Manager WITH
    Self <- "A", Nobody <- "nobody", versions <- versionsA, queued <- queuedA,
    timer <- timerA, pc <- pcA, obj <- objA, attempt <- attemptA,
    client <- clientA, leads <- leadsA

B == INSTANCE Manager WITH
    Self <- "B", Nobody <- "nobody", versions <- versionsB, queued <- queuedB,
    timer <- timerB, pc <- pcB, obj <- objB, attempt <- attemptB,
    client <- clientB, leads <- leadsB

processA == <<queuedA, timerA, pcA, objA, attemptA, clientA, leadsA>>
processB == <<queuedB, timerB, pcB, objB, attemptB, clientB, leadsB>>

vars == <<holder, oci, interventions, faults, versionsA, processA,
          versionsB, processB>>

(* A is the process that led first.                                        *)
Init ==
    /\ A!Init /\ B!Init
    /\ holder = "A"
    /\ leadsA = TRUE
    /\ leadsB = FALSE

-----------------------------------------------------------------------------
(* A version that one of them writes is on the other's watch as well.      *)
Follows(mine, theirs) ==
    theirs' = IF A!Stored(mine') = A!Stored(mine) THEN theirs
              ELSE Append(theirs, A!Stored(mine'))

ProcessA ==
    /\ A!Process
    /\ Follows(versionsA, versionsB)
    /\ UNCHANGED processB

ProcessB ==
    /\ B!Process
    /\ Follows(versionsB, versionsA)
    /\ UNCHANGED processA

(* Users, and OCI at work.  Labels, other controllers' finalizers and the  *)
(* console are left to the specification of one process.                   *)
World ==
    /\ \/ /\ A!Create \/ A!EditSpec \/ A!Delete
          /\ ~A!Stored(versionsA').held
          /\ UNCHANGED <<faults, oci>>
       \/ \E i \in InstanceIDs : A!Progress(i) \/ A!Purge(i)
    /\ Follows(versionsA, versionsB)
    /\ UNCHANGED <<holder, processA, processB>>

Disturbances == (MaxInterventions - interventions) + (MaxFaults - faults)

Next ==
    /\ ProcessA \/ ProcessB \/ World
    /\ Disturbances' <= MaxDisturbances

Spec == Init /\ [][Next]_vars
=============================================================================
