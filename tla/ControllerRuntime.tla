-------------------------- MODULE ControllerRuntime --------------------------
(***************************************************************************)
(* What controller-runtime, client-go and the users of a cluster do around *)
(* one reconciler and one resource name: the work queue with its delayed   *)
(* additions, the single worker (MaxConcurrentReconciles is left at 1),    *)
(* the watch, the reads and writes of the manager's client, and the        *)
(* changes other clients make to the resource.                             *)
(***************************************************************************)
EXTENDS APIServer

CONSTANTS MaxCreates,        \* incarnations of the name users create
          MaxInterventions,  \* changes by users of the cluster or the cloud
          MaxFaults          \* failed calls, lost answers and crashes

ASSUME BoundsAssumption ==
    MaxCreates \in Nat /\ MaxInterventions \in Nat /\ MaxFaults \in Nat

VARIABLES versions,       \* the watch stream of the resource, see APIServer
          queued,         \* the key is in the work queue
          timer,          \* a delayed addition (requeue or backoff) is pending
          pc,             \* the next external call of the worker, or "idle"
          obj,            \* the worker's in-memory copy of the resource
          interventions,  \* remaining interventions
          faults          \* remaining faults

RuntimeInit ==
    /\ versions = <<NoObject>>
    /\ queued = FALSE
    /\ timer = FALSE
    /\ pc = "idle"
    /\ obj = NoObject
    /\ interventions = MaxInterventions
    /\ faults = MaxFaults

Intervention == interventions > 0 /\ interventions' = interventions - 1
Fault == faults > 0 /\ faults' = faults - 1

-----------------------------------------------------------------------------
(* The worker takes the key; Get then answers from the informer cache.     *)
Dequeue == pc = "idle" /\ queued /\ queued' = FALSE

(* The handler goes on to its next external call with this copy.           *)
Proceed(step, o) == pc' = step /\ obj' = o /\ UNCHANGED timer

(* An error or a RequeueAfter leaves a delayed addition of the key; the    *)
(* delayed queue holds a key at most once.                                 *)
Return(requeue) ==
    /\ pc' = "idle"
    /\ obj' = NoObject
    /\ timer' = (timer \/ requeue)

(* Update and Status().Update of the copy, changed into o, that succeed.   *)
Writes(o) ==
    /\ Accepts(versions, obj)
    /\ versions' = Commit(versions, o)
    /\ UNCHANGED faults

(* Variation: the error of a failed update is swallowed.                   *)
WriteFailsSilently(o) ==
    /\ Return(FALSE)
    /\ \/ ~Accepts(versions, obj) /\ UNCHANGED <<versions, faults>>
       \/ Fault /\ UNCHANGED versions

(* ... and that fail: on a conflict or a missing object, or on a transport *)
(* fault that may hit before or after the API server applied the update.   *)
WriteFails(o) ==
    /\ Return(TRUE)
    /\ \/ ~Accepts(versions, obj) /\ UNCHANGED <<versions, faults>>
       \/ Fault /\ UNCHANGED versions
       \/ Fault /\ Accepts(versions, obj) /\ versions' = Commit(versions, o)

-----------------------------------------------------------------------------
workerVars == <<pc, obj>>

(* The informer moves to the next version and its handler adds the key.    *)
Deliver ==
    /\ Len(versions) > 1
    /\ versions' = Tail(versions)
    /\ queued' = TRUE
    /\ UNCHANGED <<timer, workerVars, interventions, faults>>

TimerFires ==
    /\ timer
    /\ timer' = FALSE
    /\ queued' = TRUE
    /\ UNCHANGED <<versions, workerVars, interventions, faults>>

(* The informer's periodic resync adds every key of the cache.             *)
Resync ==
    /\ Cached(versions).live
    /\ queued' = TRUE
    /\ UNCHANGED <<versions, timer, workerVars, interventions, faults>>

(* The manager dies or loses its lease: queue, timers and the handler in   *)
(* flight are gone; the next one lists the resource, possibly an old       *)
(* version of it, and enqueues it.                                         *)
RuntimeRestart ==
    /\ Fault
    /\ pc' = "idle"
    /\ obj' = NoObject
    /\ timer' = FALSE
    /\ queued' = Cached(versions).live
    /\ UNCHANGED <<versions, interventions>>

-----------------------------------------------------------------------------
Create ==
    LET o == Stored(versions) IN
    /\ ~o.live
    /\ o.uid < MaxCreates
    /\ \E held \in BOOLEAN : versions' = NewVersion(versions, Created(o, held))
    /\ UNCHANGED interventions

EditSpec ==
    /\ Intervention
    /\ Stored(versions).live
    /\ versions' = NewVersion(versions, Edited(Stored(versions)))

(* A change of labels, annotations or any other field no handler reads.    *)
Touch ==
    /\ Intervention
    /\ Stored(versions).live
    /\ versions' = NewVersion(versions, Stored(versions))

Delete ==
    /\ Intervention
    /\ Stored(versions).live
    /\ ~Stored(versions).deleting
    /\ versions' = NewVersion(versions, Deleted(Stored(versions)))

ReleaseHold ==
    /\ Intervention
    /\ Stored(versions).live
    /\ Stored(versions).held
    /\ versions' = NewVersion(versions, Released(Stored(versions)))

Users ==
    /\ Create \/ EditSpec \/ Touch \/ Delete \/ ReleaseHold
    /\ UNCHANGED <<queued, timer, workerVars, faults>>
=============================================================================
