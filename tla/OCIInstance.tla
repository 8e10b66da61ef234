---------------------------- MODULE OCIInstance ----------------------------
(***************************************************************************)
(* The OCIInstance reconciler for one resource name, together with the     *)
(* compute instances OCI has launched for it.  An action of the worker is  *)
(* the code between two external calls, the later one included, so that    *)
(* users, OCI, the informer and crashes can come between any two calls.    *)
(***************************************************************************)
EXTENDS FailableResource, FiniteSets

CONSTANT InstanceIDs  \* the OCIDs OCI can hand out, hence the tenancy's quota

ASSUME IDAssumption == NoID \notin InstanceIDs

VARIABLES client,  \* the reconciler has built its compute client
          oci      \* per OCID: lifecycle state, and the resource it was launched for

vars == <<versions, queued, timer, pc, obj, interventions, faults, attempt,
          client, oci>>

Phases == {"", "Provisioning", "Running", "Terminating", "Terminated", "Failed"}

(* STOPPED stands for every state the reconciler's switch leaves to its    *)
(* default; PURGED is an instance OCI no longer answers for.               *)
States == {"NONE", "PROVISIONING", "STARTING", "RUNNING", "STOPPED",
           "TERMINATING", "TERMINATED", "PURGED"}
Ending == {"TERMINATING", "TERMINATED", "PURGED"}

Steps == {"idle", "addFinalizer", "terminate", "removeFinalizer",
          "markProvisioning", "launch", "record", "getInstance", "syncStatus",
          "refetch", "setFailed"}

Init ==
    /\ RuntimeInit
    /\ attempt = 0
    /\ client = FALSE
    /\ oci = [i \in InstanceIDs |-> [state |-> "NONE", uid |-> 0, gen |-> 0]]

-----------------------------------------------------------------------------
(* The Failed phase guard: this generation has already been given up.      *)
GivenUp(o) == o.phase = "Failed" /\ o.obsGen = o.gen

(* Reconcile finds nothing to do: no resource, no finalizer left to act    *)
(* on, or a generation already given up.                                   *)
ReconcileNothing ==
    LET c == Cached(versions) IN
    /\ Dequeue
    /\ \/ ~c.live
       \/ c.deleting /\ ~c.fin
       \/ ~c.deleting /\ c.fin /\ GivenUp(c)
    /\ UNCHANGED <<versions, timer, pc, obj, interventions, faults, attempt,
                   client, oci>>

(* Variation: the deletionTimestamp is not looked at.                      *)
HandleDeletionOfAll ==
    LET c == Cached(versions) IN
    /\ Dequeue
    /\ c.live /\ c.fin
    /\ Proceed(IF c.id = NoID THEN "removeFinalizer" ELSE "terminate", c)
    /\ UNCHANGED <<versions, interventions, faults, attempt, client, oci>>

HandleDeletion ==
    LET c == Cached(versions) IN
    /\ Dequeue
    /\ c.live /\ c.deleting /\ c.fin
    /\ Proceed(IF c.id = NoID THEN "removeFinalizer" ELSE "terminate", c)
    /\ UNCHANGED <<versions, interventions, faults, attempt, client, oci>>

EnsureFinalizer ==
    LET c == Cached(versions) IN
    /\ Dequeue
    /\ c.live /\ ~c.deleting /\ ~c.fin
    /\ Proceed("addFinalizer", c)
    /\ UNCHANGED <<versions, interventions, faults, attempt, client, oci>>

(* Variation: without the Failed phase guard.                              *)
ReconcileUnguarded ==
    LET c == Cached(versions) IN
    /\ Dequeue
    /\ c.live /\ ~c.deleting /\ c.fin
    /\ client' = TRUE
    /\ Proceed(IF c.id = NoID THEN "markProvisioning" ELSE "getInstance", c)
    /\ UNCHANGED <<versions, interventions, faults, attempt, oci>>

(* The client is built by the first reconcile that needs it; when that     *)
(* fails the resource is marked Failed.                                    *)
ReconcileInstance ==
    LET c == Cached(versions) IN
    /\ Dequeue
    /\ c.live /\ ~c.deleting /\ c.fin /\ ~GivenUp(c)
    /\ \/ /\ client' = TRUE
          /\ Proceed(IF c.id = NoID THEN "markProvisioning" ELSE "getInstance", c)
          /\ UNCHANGED <<faults, attempt>>
       \/ /\ ~client
          /\ Fault
          /\ Proceed("refetch", c)
          /\ attempt' = c.gen
          /\ UNCHANGED client
    /\ UNCHANGED <<versions, interventions, oci>>

(* The worker performs the Update or Status().Update of o it has come to,  *)
(* and on success does Next; on failure the handler returns the error.     *)
Write(step, o, Then) ==
    /\ pc = step
    /\ \/ Writes(o) /\ Then
       \/ WriteFails(o)
    /\ UNCHANGED <<queued, interventions, attempt, client, oci>>

AddFinalizer ==
    Write("addFinalizer", [obj EXCEPT !.fin = TRUE], Return(FALSE))

-----------------------------------------------------------------------------
(* TerminateInstance is idempotent while OCI knows the instance.  A fault  *)
(* is a client that cannot be built, or a request or an answer lost.       *)
Terminated(i) ==
    IF oci[i].state = "TERMINATED" THEN oci
    ELSE [oci EXCEPT ![i].state = "TERMINATING"]

(* Variation: the finalizer is removed although TerminateInstance failed.  *)
TerminateIgnoringErrors ==
    /\ pc = "terminate"
    /\ \/ oci' = Terminated(obj.id) /\ UNCHANGED faults
       \/ Fault /\ UNCHANGED oci
    /\ Proceed("removeFinalizer", obj)
    /\ UNCHANGED <<versions, queued, interventions, attempt, client>>

Terminate ==
    /\ pc = "terminate"
    /\ LET known == oci[obj.id].state # "PURGED" IN
       \/ /\ known
          /\ oci' = Terminated(obj.id)
          /\ Proceed("removeFinalizer", obj)
          /\ UNCHANGED faults
       \/ ~known /\ Return(TRUE) /\ UNCHANGED <<oci, faults>>
       \/ Fault /\ Return(TRUE) /\ UNCHANGED oci
       \/ Fault /\ known /\ Return(TRUE) /\ oci' = Terminated(obj.id)
    /\ UNCHANGED <<versions, queued, interventions, attempt, client>>

RemoveFinalizer ==
    Write("removeFinalizer", [obj EXCEPT !.fin = FALSE], Return(FALSE))

-----------------------------------------------------------------------------
(* Variation: the launch without the write of Provisioning before it.      *)
LaunchAtOnce ==
    /\ pc = "markProvisioning"
    /\ Proceed("launch", [obj EXCEPT !.phase = "Provisioning"])
    /\ UNCHANGED <<versions, queued, interventions, faults, attempt, client, oci>>

(* reconcileNew: the write of Provisioning comes before the launch, and    *)
(* the copy the launch goes on with is the one the API server returned.    *)
MarkProvisioning ==
    Write("markProvisioning", [obj EXCEPT !.phase = "Provisioning"],
          Proceed("launch", Stored(versions')))

Recorded(o, i) ==
    SetObservedGeneration([o EXCEPT !.id = i, !.phase = "Provisioning"], o.gen)

(* Variation: the error of LaunchInstance is not looked at.                *)
LaunchIgnoringErrors ==
    LET free == {i \in InstanceIDs : oci[i].state = "NONE"}
        new == [state |-> "PROVISIONING", uid |-> obj.uid, gen |-> obj.gen]
    IN
    /\ pc = "launch"
    /\ \E i \in free :
         /\ \/ oci' = [oci EXCEPT ![i] = new] /\ UNCHANGED faults
            \/ Fault /\ UNCHANGED oci
         /\ Proceed("record", Recorded(obj, i))
    /\ UNCHANGED <<versions, queued, interventions, attempt, client>>

(* OCI refuses a launch when the quota is spent; a fault is a refusal for  *)
(* another reason, or the answer to a launch that did happen, lost.        *)
Launch ==
    LET free == {i \in InstanceIDs : oci[i].state = "NONE"}
        new == [state |-> "PROVISIONING", uid |-> obj.uid, gen |-> obj.gen]
    IN
    /\ pc = "launch"
    /\ \/ \E i \in free :
            /\ oci' = [oci EXCEPT ![i] = new]
            /\ \/ Proceed("record", Recorded(obj, i)) /\ UNCHANGED <<faults, attempt>>
               \/ Fault /\ GiveUp
       \/ free = {} /\ GiveUp /\ UNCHANGED <<faults, oci>>
       \/ Fault /\ GiveUp /\ UNCHANGED oci
    /\ UNCHANGED <<versions, queued, interventions, client>>

RecordInstance == Write("record", obj, Return(TRUE))

-----------------------------------------------------------------------------
(* Variation: OCI's own name for the state is cast to a phase.             *)
PhaseAsReported(state) == state

PhaseOf(state) ==
    CASE state = "RUNNING" -> "Running"
      [] state \in {"PROVISIONING", "STARTING"} -> "Provisioning"
      [] state = "TERMINATING" -> "Terminating"
      [] state = "TERMINATED" -> "Terminated"
      [] OTHER -> "Failed"

(* Variation: while OCI is still provisioning, the status starts afresh.   *)
SyncedAfresh(o, state) ==
    LET s == [o EXCEPT !.phase = PhaseOf(state)] IN
    SetObservedGeneration(s, IF s.phase = "Provisioning" THEN 0 ELSE o.gen)

(* While OCI is still provisioning, the handler returns before it sets     *)
(* observedGeneration.                                                     *)
Synced(o, state) ==
    LET s == [o EXCEPT !.phase = PhaseOf(state)] IN
    IF s.phase = "Provisioning" THEN s ELSE SetObservedGeneration(s, o.gen)

GetInstance ==
    LET state == oci[obj.id].state IN
    /\ pc = "getInstance"
    /\ \/ /\ state # "PURGED"
          /\ Proceed("syncStatus", Synced(obj, state))
          /\ UNCHANGED faults
       \/ state = "PURGED" /\ Return(TRUE) /\ UNCHANGED faults
       \/ Fault /\ Return(TRUE)
    /\ UNCHANGED <<versions, queued, interventions, attempt, client, oci>>

(* Variation: a synced status is not looked at again.                      *)
SyncStatusOnce == Write("syncStatus", obj, Return(FALSE))

SyncStatus == Write("syncStatus", obj, Return(TRUE))

-----------------------------------------------------------------------------
(* What OCI does on its own, and what users do in its console.             *)
Progress(i) ==
    /\ \/ /\ oci[i].state \in {"PROVISIONING", "STARTING"}
          /\ oci' = [oci EXCEPT ![i].state = "RUNNING"]
       \/ /\ oci[i].state = "TERMINATING"
          /\ oci' = [oci EXCEPT ![i].state = "TERMINATED"]
    /\ UNCHANGED <<versions, queued, timer, workerVars, interventions, faults,
                   attempt, client>>

Purge(i) ==
    /\ oci[i].state = "TERMINATED"
    /\ oci' = [oci EXCEPT ![i].state = "PURGED"]
    /\ UNCHANGED <<versions, queued, timer, workerVars, interventions, faults,
                   attempt, client>>

Console(i) ==
    /\ Intervention
    /\ \/ oci[i].state = "RUNNING" /\ oci' = [oci EXCEPT ![i].state = "STOPPED"]
       \/ oci[i].state = "STOPPED" /\ oci' = [oci EXCEPT ![i].state = "STARTING"]
       \/ /\ oci[i].state \in {"PROVISIONING", "STARTING", "RUNNING", "STOPPED"}
          /\ oci' = [oci EXCEPT ![i].state = "TERMINATING"]
    /\ UNCHANGED <<versions, queued, timer, workerVars, faults, attempt, client>>

Restart ==
    /\ RuntimeRestart
    /\ client' = FALSE
    /\ attempt' = 0
    /\ UNCHANGED oci

-----------------------------------------------------------------------------
Worker ==
    \/ ReconcileNothing \/ HandleDeletion \/ EnsureFinalizer \/ ReconcileInstance
    \/ AddFinalizer \/ Terminate \/ RemoveFinalizer
    \/ MarkProvisioning \/ Launch \/ RecordInstance
    \/ GetInstance \/ SyncStatus
    \/ (Refetch \/ SetFailed) /\ UNCHANGED <<client, oci>>

Cloud == \E i \in InstanceIDs : Progress(i) \/ Purge(i) \/ Console(i)

Runtime == Deliver \/ TimerFires \/ Resync \/ Users

Next ==
    \/ Worker
    \/ Cloud
    \/ Runtime /\ UNCHANGED <<attempt, client, oci>>
    \/ Restart

Spec == Init /\ [][Next]_vars

(* Go schedules the one worker and the informer's goroutines, timers run   *)
(* out, and OCI finishes what it has started.  Users, consoles, faults,    *)
(* resyncs and the purge of terminated instances are never required.       *)
Fairness ==
    /\ WF_vars(Worker)
    /\ WF_vars(Deliver /\ UNCHANGED <<attempt, client, oci>>)
    /\ WF_vars(TimerFires /\ UNCHANGED <<attempt, client, oci>>)
    /\ \A i \in InstanceIDs : WF_vars(Progress(i))

FairSpec == Spec /\ Fairness
=============================================================================
