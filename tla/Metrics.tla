------------------------------ MODULE Metrics ------------------------------
(***************************************************************************)
(* The Prometheus counters of metrics.go as the OCIInstance reconciler     *)
(* drives them.  They belong to the process and start again at zero with   *)
(* it; nothing reads them but a dashboard.  Beside them, history           *)
(* variables count what the counters are meant to show.                    *)
(***************************************************************************)
EXTENDS OCIInstance

CONSTANT MaxReconciles  \* reconciles of one process

ASSUME ReconcilesAssumption == MaxReconciles \in Nat

VARIABLES reconcileTotal,    \* finished reconciles by result
          apiErrors,         \* OCI calls measured with result error
          phaseTransitions,  \* per phase
          entered,           \* history: phases the stored resource has entered
          unbuilt            \* history: clients that could not be built

counters == <<reconcileTotal, apiErrors, phaseTransitions, entered, unbuilt>>

Zero ==
    /\ reconcileTotal = [result \in {"success", "error"} |-> 0]
    /\ apiErrors = 0
    /\ phaseTransitions = [p \in Phases |-> 0]
    /\ entered = [p \in Phases |-> 0]
    /\ unbuilt = 0

MeteredInit == Init /\ Zero

Reset ==
    /\ reconcileTotal' = [result \in {"success", "error"} |-> 0]
    /\ apiErrors' = 0
    /\ phaseTransitions' = [p \in Phases |-> 0]
    /\ entered' = [p \in Phases |-> 0]
    /\ unbuilt' = 0

Increment(counter, labels) ==
    [l \in DOMAIN counter |-> counter[l] + IF l \in labels THEN 1 ELSE 0]

-----------------------------------------------------------------------------
(* An update fails when the API server refuses it, or by a fault.          *)
UpdateFails == ~Accepts(versions, obj) \/ faults' # faults

(* Variation: the errors of OCI calls are left to the requeue.             *)
ReturnsUpdateError ==
    pc \notin {"idle", "terminate", "getInstance", "refetch"} /\ UpdateFails

(* The worker's step ends the reconcile with an error: that of an OCI call *)
(* other than a launch, of the second fetch, or of an update.              *)
ReturnsError ==
    \/ pc \in {"terminate", "getInstance", "refetch"}
    \/ pc # "idle" /\ UpdateFails

(* The deferred function of Reconcile counts every return.                 *)
CountsReconcile ==
    reconcileTotal' =
        IF pc' # "idle" THEN reconcileTotal
        ELSE Increment(reconcileTotal, {IF ReturnsError THEN "error" ELSE "success"})

(* measureOCICall counts each call by its result.  A termination that      *)
(* fails because its client cannot be built is not a call.                 *)
CountsCall ==
    LET failed == pc \in {"terminate", "launch", "getInstance"} /\ pc' \in {"idle", "refetch"}
        uncalled == pc = "terminate" /\ ~client /\ faults' # faults /\ oci' = oci
    IN \/ apiErrors' = apiErrors + IF failed THEN 1 ELSE 0
       \/ uncalled /\ UNCHANGED apiErrors

(* Variation: a phase is counted when its update has succeeded.            *)
CountedOnceWritten ==
    CASE pc = "markProvisioning" /\ ~UpdateFails -> {"Provisioning"}
      [] pc = "launch" /\ pc' = "refetch" -> {"Failed"}
      [] pc = "syncStatus" /\ ~UpdateFails -> {obj.phase}
      [] OTHER -> {}

(* The phase that is counted on the way to the next call: before the       *)
(* update that enters it, and not when a client cannot be built.           *)
Counted ==
    CASE pc = "markProvisioning" -> {"Provisioning"}
      [] pc = "launch" /\ pc' = "refetch" -> {"Failed"}
      [] pc = "getInstance" /\ pc' = "syncStatus" -> {obj'.phase}
      [] OTHER -> {}

-----------------------------------------------------------------------------
Phase == Stored(versions).phase

MeteredWorker ==
    /\ Worker
    /\ pc = "idle" => reconcileTotal["success"] + reconcileTotal["error"] < MaxReconciles
    /\ CountsReconcile
    /\ CountsCall
    /\ phaseTransitions' = Increment(phaseTransitions, Counted)
    /\ entered' = Increment(entered, IF Phase' = Phase THEN {} ELSE {Phase'})
    /\ unbuilt' = unbuilt + IF pc = "idle" /\ pc' = "refetch" THEN 1 ELSE 0

MeteredNext ==
    \/ MeteredWorker
    \/ Cloud /\ UNCHANGED counters
    \/ Runtime /\ UNCHANGED <<attempt, client, oci, counters>>
    \/ Restart /\ Reset

MeteredSpec == MeteredInit /\ [][MeteredNext]_<<vars, counters>>
=============================================================================
