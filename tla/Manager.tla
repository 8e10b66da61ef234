------------------------------ MODULE Manager ------------------------------
(***************************************************************************)
(* One process of cmd/main.go run with --leader-elect, as the Deployment   *)
(* does: it starts its controllers when it has acquired the lease, and     *)
(* ends when it finds that it has lost it, to be started again.  Other     *)
(* processes may campaign for the same lease.                              *)
(***************************************************************************)
EXTENDS OCIInstance

CONSTANTS Self,   \* the identity the process campaigns with
          Nobody  \* the holder of a lease that is free or has run out

VARIABLES holder,  \* whom the lease names
          leads    \* the process runs its controllers

(* What dies with the process.                                             *)
process == <<queued, timer, pc, obj, attempt, client, leads>>

(* Variation: the default of the flag, no leader election.                 *)
LeadAtOnce ==
    /\ ~leads
    /\ leads' = TRUE
    /\ \E k \in 1 .. Len(versions) : versions' = SubSeq(versions, k, Len(versions))
    /\ queued' = Cached(versions').live
    /\ UNCHANGED <<timer, workerVars, attempt, client, holder, oci, interventions,
                   faults>>

(* The controllers start: each enqueues what the cache lists, and until    *)
(* then nobody looks at how far along the watch the cache has come.        *)
Lead ==
    /\ ~leads
    /\ leads' = TRUE
    /\ holder = Nobody
    /\ holder' = Self
    /\ \E k \in 1 .. Len(versions) : versions' = SubSeq(versions, k, Len(versions))
    /\ queued' = Cached(versions').live
    /\ UNCHANGED <<timer, workerVars, attempt, client, oci, interventions, faults>>

(* The resync, hours apart, is left to the specification of one process.   *)
Work ==
    /\ leads
    /\ \/ Worker
       \/ (Deliver \/ TimerFires) /\ UNCHANGED <<attempt, client, oci>>
    /\ UNCHANGED <<holder, leads>>

-----------------------------------------------------------------------------
(* The leader is paused, or cut off from the API server, for longer than   *)
(* the lease lasts, and goes on without noticing; if nobody has taken the  *)
(* lease by then it renews it.                                             *)
Lapse ==
    /\ Fault
    /\ leads
    /\ holder = Self
    /\ holder' = Nobody
    /\ UNCHANGED <<versions, process, oci, interventions>>

Renew ==
    /\ leads
    /\ holder = Nobody
    /\ holder' = Self
    /\ UNCHANGED <<versions, process, oci, interventions, faults>>

Exit ==
    /\ leads
    /\ leads' = FALSE
    /\ queued' = FALSE
    /\ timer' = FALSE
    /\ pc' = "idle"
    /\ obj' = NoObject
    /\ attempt' = 0
    /\ client' = FALSE
    /\ UNCHANGED <<versions, oci, interventions>>

(* mgr.Start returns an error to a process that lost the lease.            *)
LoseLease ==
    /\ holder # Self
    /\ Exit
    /\ UNCHANGED <<holder, faults>>

(* LeaderElectionReleaseOnCancel is not set: a lease is not released on    *)
(* exit, and goes on naming the process that died until it has run out.    *)
(* The process that is started in its place has an identity of its own     *)
(* and waits as everybody does.                                            *)
Crash ==
    /\ Fault
    /\ Exit
    /\ UNCHANGED holder

Expire ==
    /\ ~leads
    /\ holder = Self
    /\ holder' = Nobody
    /\ UNCHANGED <<versions, process, oci, interventions, faults>>

Process == Lead \/ Work \/ Lapse \/ Renew \/ LoseLease \/ Crash \/ Expire
=============================================================================
