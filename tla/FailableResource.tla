-------------------------- MODULE FailableResource --------------------------
(***************************************************************************)
(* setFailedStatus, the helper both reconcilers call when a client cannot  *)
(* be built or OCI refuses a request: it fetches the resource again, from  *)
(* the same cache, and writes phase Failed to the copy it got.             *)
(***************************************************************************)
EXTENDS ControllerRuntime

VARIABLE attempt  \* history: the generation whose failure is being recorded, or 0

(* The handler gives up on the generation in its hands.                    *)
GiveUp == Proceed("refetch", obj) /\ attempt' = obj.gen

Refetch ==
    LET c == Cached(versions) IN
    /\ pc = "refetch"
    /\ \/ c.live /\ Proceed("setFailed", c) /\ UNCHANGED attempt
       \/ ~c.live /\ Return(TRUE) /\ attempt' = 0
    /\ UNCHANGED <<versions, queued, interventions, faults>>

(* Variation: the failure starts a fresh status.                           *)
SetFailedStatusAfresh(o) == [o EXCEPT !.phase = "Failed", !.id = NoID]

SetFailedStatus(o) == [o EXCEPT !.phase = "Failed"]
SetObservedGeneration(o, generation) == [o EXCEPT !.obsGen = generation]
MarkedFailed(o) == SetObservedGeneration(SetFailedStatus(o), o.gen)

SetFailed ==
    /\ pc = "setFailed"
    /\ \/ Writes(MarkedFailed(obj)) /\ Return(FALSE)
       \/ WriteFails(MarkedFailed(obj))
    /\ attempt' = 0
    /\ UNCHANGED <<queued, interventions>>
=============================================================================
