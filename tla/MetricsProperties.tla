------------------------- MODULE MetricsProperties -------------------------
(***************************************************************************)
(* What a reader of the operator's metrics may conclude from them.         *)
(***************************************************************************)
EXTENDS Metrics, OCIInstanceProperties

(* The type invariant of the reconciler and of its counters.               *)
MeteredTypeOK ==
    /\ TypeOK
    /\ reconcileTotal \in [{"success", "error"} -> 0 .. MaxReconciles]
    /\ apiErrors \in Nat
    /\ phaseTransitions \in [Phases -> Nat]
    /\ entered \in [Phases -> Nat]
    /\ unbuilt \in Nat

(* metrics.go, of phaseTransitions: no phase the resource enters is        *)
(* missed, though the update that enters it may be refused, or applied and *)
(* its answer lost.  Failed is the exception: a client that cannot be      *)
(* built makes the resource Failed without being counted.                  *)
EntriesAreCounted ==
    \A p \in Phases :
      entered[p] <= phaseTransitions[p] + IF p = "Failed" THEN unbuilt ELSE 0

(* Failed OCI calls do not pass unseen, although setFailedStatus turns the *)
(* error of a launch into a successful reconcile: between two reconciles   *)
(* there have been no more of them than reconciles with an error and       *)
(* entries into phase Failed together.  Refused updates are errors too, so *)
(* this compares totals and does not match one by one.                     *)
FailuresShow ==
    pc = "idle" => apiErrors <= reconcileTotal["error"] + entered["Failed"]

-----------------------------------------------------------------------------
(* The inductive invariant.  While a handler is on its way the counters    *)
(* are ahead of the stored phase, or behind the errors, by one: a phase    *)
(* has been counted that the update to come may enter, and a failed launch *)
(* has still to bring the resource into phase Failed.                      *)
AboutToEnter(p) ==
    \/ pc = "syncStatus" /\ obj.phase = p
    \/ pc \in {"refetch", "setFailed"} /\ p = "Failed"

CountedAhead ==
    \A p \in Phases :
      entered[p] + (IF AboutToEnter(p) THEN 1 ELSE 0) <=
        phaseTransitions[p] + (IF p = "Failed" THEN unbuilt ELSE 0)

AboutToFail == pc \in {"refetch", "setFailed"} /\ Phase # "Failed"

FailuresAreDue ==
    apiErrors <= reconcileTotal["error"] + entered["Failed"] + (IF AboutToFail THEN 1 ELSE 0)

(* The reconcile in hand is one of those the bound allows.                 *)
ReconcilesAreBounded ==
    reconcileTotal["success"] + reconcileTotal["error"] + (IF pc = "idle" THEN 0 ELSE 1)
      <= MaxReconciles

MeteredIInv ==
    IInv /\ MeteredTypeOK /\ CountedAhead /\ FailuresAreDue /\ ReconcilesAreBounded
=============================================================================
