------------------------- MODULE OCISecurityPolicy -------------------------
(***************************************************************************)
(* The OCISecurityPolicy reconciler for one resource name, together with   *)
(* the security lists OCI has created for it.  It is laid out as the       *)
(* OCIInstance reconciler is, and differs in its phases, in what counts as *)
(* success, and in what users can do to a security list behind its back.   *)
(***************************************************************************)
EXTENDS FailableResource, FiniteSets

CONSTANT ListIDs  \* the OCIDs OCI can hand out to security lists

ASSUME ListIDAssumption == NoID \notin ListIDs

VARIABLES client,  \* the reconciler has built its virtual network client
          lists    \* per OCID: lifecycle state, the resource it was created for,
                   \* and the generation whose rules it has (0: someone else's)

vars == <<versions, queued, timer, pc, obj, interventions, faults, attempt,
          client, lists>>

Phases == {"", "Creating", "Active", "Deleting", "Deleted", "Failed"}

(* PURGED is a security list OCI no longer answers for.                    *)
States == {"NONE", "PROVISIONING", "AVAILABLE", "TERMINATING", "TERMINATED", "PURGED"}
Ending == {"TERMINATING", "TERMINATED", "PURGED"}

Steps == {"idle", "addFinalizer", "delete", "removeFinalizer", "markCreating",
          "create", "record", "getList", "syncStatus", "refetch", "setFailed"}

Init ==
    /\ RuntimeInit
    /\ attempt = 0
    /\ client = FALSE
    /\ lists = [i \in ListIDs |-> [state |-> "NONE", uid |-> 0, gen |-> 0]]

-----------------------------------------------------------------------------
GivenUp(o) == o.phase = "Failed" /\ o.obsGen = o.gen

ReconcileNothing ==
    LET c == Cached(versions) IN
    /\ Dequeue
    /\ \/ ~c.live
       \/ c.deleting /\ ~c.fin
       \/ ~c.deleting /\ c.fin /\ GivenUp(c)
    /\ UNCHANGED <<versions, timer, pc, obj, interventions, faults, attempt,
                   client, lists>>

HandleDeletion ==
    LET c == Cached(versions) IN
    /\ Dequeue
    /\ c.live /\ c.deleting /\ c.fin
    /\ Proceed(IF c.id = NoID THEN "removeFinalizer" ELSE "delete", c)
    /\ UNCHANGED <<versions, interventions, faults, attempt, client, lists>>

EnsureFinalizer ==
    LET c == Cached(versions) IN
    /\ Dequeue
    /\ c.live /\ ~c.deleting /\ ~c.fin
    /\ Proceed("addFinalizer", c)
    /\ UNCHANGED <<versions, interventions, faults, attempt, client, lists>>

(* Variation: without the Failed phase guard.                              *)
ReconcileUnguarded ==
    LET c == Cached(versions) IN
    /\ Dequeue
    /\ c.live /\ ~c.deleting /\ c.fin
    /\ client' = TRUE
    /\ Proceed(IF c.id = NoID THEN "markCreating" ELSE "getList", c)
    /\ UNCHANGED <<versions, interventions, faults, attempt, lists>>

ReconcilePolicy ==
    LET c == Cached(versions) IN
    /\ Dequeue
    /\ c.live /\ ~c.deleting /\ c.fin /\ ~GivenUp(c)
    /\ \/ /\ client' = TRUE
          /\ Proceed(IF c.id = NoID THEN "markCreating" ELSE "getList", c)
          /\ UNCHANGED <<faults, attempt>>
       \/ /\ ~client
          /\ Fault
          /\ Proceed("refetch", c)
          /\ attempt' = c.gen
          /\ UNCHANGED client
    /\ UNCHANGED <<versions, interventions, lists>>

Write(step, o, Then) ==
    /\ pc = step
    /\ \/ Writes(o) /\ Then
       \/ WriteFails(o)
    /\ UNCHANGED <<queued, interventions, attempt, client, lists>>

AddFinalizer ==
    Write("addFinalizer", [obj EXCEPT !.fin = TRUE], Return(FALSE))

-----------------------------------------------------------------------------
(* DeleteSecurityList is idempotent while OCI knows the list.              *)
Deletes(i) ==
    IF lists[i].state = "TERMINATED" THEN lists
    ELSE [lists EXCEPT ![i].state = "TERMINATING"]

(* Variation: the finalizer is removed although DeleteSecurityList failed. *)
DeleteIgnoringErrors ==
    /\ pc = "delete"
    /\ \/ lists' = Deletes(obj.id) /\ UNCHANGED faults
       \/ Fault /\ UNCHANGED lists
    /\ Proceed("removeFinalizer", obj)
    /\ UNCHANGED <<versions, queued, interventions, attempt, client>>

DeleteList ==
    /\ pc = "delete"
    /\ LET known == lists[obj.id].state # "PURGED" IN
       \/ /\ known
          /\ lists' = Deletes(obj.id)
          /\ Proceed("removeFinalizer", obj)
          /\ UNCHANGED faults
       \/ ~known /\ Return(TRUE) /\ UNCHANGED <<lists, faults>>
       \/ Fault /\ Return(TRUE) /\ UNCHANGED lists
       \/ Fault /\ known /\ Return(TRUE) /\ lists' = Deletes(obj.id)
    /\ UNCHANGED <<versions, queued, interventions, attempt, client>>

RemoveFinalizer ==
    Write("removeFinalizer", [obj EXCEPT !.fin = FALSE], Return(FALSE))

-----------------------------------------------------------------------------
(* Variation: the creation without the write of Creating before it.        *)
CreateAtOnce ==
    /\ pc = "markCreating"
    /\ Proceed("create", [obj EXCEPT !.phase = "Creating"])
    /\ UNCHANGED <<versions, queued, interventions, faults, attempt, client, lists>>

MarkCreating ==
    Write("markCreating", [obj EXCEPT !.phase = "Creating"],
          Proceed("create", Stored(versions')))

(* The created list is Active at once, whatever state OCI reported.        *)
Recorded(o, i) ==
    SetObservedGeneration([o EXCEPT !.id = i, !.phase = "Active"], o.gen)

CreateList ==
    LET free == {i \in ListIDs : lists[i].state = "NONE"}
        new == [state |-> "PROVISIONING", uid |-> obj.uid, gen |-> obj.gen]
    IN
    /\ pc = "create"
    /\ \/ \E i \in free :
            /\ lists' = [lists EXCEPT ![i] = new]
            /\ \/ Proceed("record", Recorded(obj, i)) /\ UNCHANGED <<faults, attempt>>
               \/ Fault /\ GiveUp
       \/ free = {} /\ GiveUp /\ UNCHANGED <<faults, lists>>
       \/ Fault /\ GiveUp /\ UNCHANGED lists
    /\ UNCHANGED <<versions, queued, interventions, client>>

(* Variation: the list's ID is written to whatever version is stored.      *)
RecordListOnLatest ==
    /\ pc = "record"
    /\ Stored(versions).live
    /\ versions' = Commit(versions, Recorded(Stored(versions), obj.id))
    /\ Return(TRUE)
    /\ UNCHANGED <<queued, interventions, faults, attempt, client, lists>>

RecordList == Write("record", obj, Return(TRUE))

-----------------------------------------------------------------------------
(* Variation: OCI's own state is shown where no phase fits.                *)
PhaseOrState(state) ==
    CASE state = "AVAILABLE" -> "Active"
      [] state = "PROVISIONING" -> "Creating"
      [] state = "TERMINATING" -> "Deleting"
      [] OTHER -> state

PhaseOf(state) ==
    CASE state = "AVAILABLE" -> "Active"
      [] state = "PROVISIONING" -> "Creating"
      [] state = "TERMINATING" -> "Deleting"
      [] state = "TERMINATED" -> "Deleted"
      [] OTHER -> "Failed"

Synced(o, state) ==
    LET s == [o EXCEPT !.phase = PhaseOf(state)] IN
    IF s.phase = "Creating" THEN s ELSE SetObservedGeneration(s, o.gen)

GetList ==
    LET state == lists[obj.id].state IN
    /\ pc = "getList"
    /\ \/ /\ state # "PURGED"
          /\ Proceed("syncStatus", Synced(obj, state))
          /\ UNCHANGED faults
       \/ state = "PURGED" /\ Return(TRUE) /\ UNCHANGED faults
       \/ Fault /\ Return(TRUE)
    /\ UNCHANGED <<versions, queued, interventions, attempt, client, lists>>

(* Variation: a synced status is not looked at again.                      *)
SyncStatusOnce == Write("syncStatus", obj, Return(FALSE))

SyncStatus == Write("syncStatus", obj, Return(TRUE))

-----------------------------------------------------------------------------
Progress(i) ==
    /\ \/ /\ lists[i].state = "PROVISIONING"
          /\ lists' = [lists EXCEPT ![i].state = "AVAILABLE"]
       \/ /\ lists[i].state = "TERMINATING"
          /\ lists' = [lists EXCEPT ![i].state = "TERMINATED"]
    /\ UNCHANGED <<versions, queued, timer, workerVars, interventions, faults,
                   attempt, client>>

Purge(i) ==
    /\ lists[i].state = "TERMINATED"
    /\ lists' = [lists EXCEPT ![i].state = "PURGED"]
    /\ UNCHANGED <<versions, queued, timer, workerVars, interventions, faults,
                   attempt, client>>

(* In the console users change a list's rules, or delete it.               *)
Console(i) ==
    /\ Intervention
    /\ lists[i].state \in {"PROVISIONING", "AVAILABLE"}
    /\ \/ lists' = [lists EXCEPT ![i].gen = 0]
       \/ lists' = [lists EXCEPT ![i].state = "TERMINATING"]
    /\ UNCHANGED <<versions, queued, timer, workerVars, faults, attempt, client>>

Restart ==
    /\ RuntimeRestart
    /\ client' = FALSE
    /\ attempt' = 0
    /\ UNCHANGED lists

-----------------------------------------------------------------------------
Worker ==
    \/ ReconcileNothing \/ HandleDeletion \/ EnsureFinalizer \/ ReconcilePolicy
    \/ AddFinalizer \/ DeleteList \/ RemoveFinalizer
    \/ MarkCreating \/ CreateList \/ RecordList
    \/ GetList \/ SyncStatus
    \/ (Refetch \/ SetFailed) /\ UNCHANGED <<client, lists>>

Cloud == \E i \in ListIDs : Progress(i) \/ Purge(i) \/ Console(i)

Runtime == Deliver \/ TimerFires \/ Resync \/ Users

Next ==
    \/ Worker
    \/ Cloud
    \/ Runtime /\ UNCHANGED <<attempt, client, lists>>
    \/ Restart

Spec == Init /\ [][Next]_vars

(* As for the OCIInstance reconciler.                                      *)
Fairness ==
    /\ WF_vars(Worker)
    /\ WF_vars(Deliver /\ UNCHANGED <<attempt, client, lists>>)
    /\ WF_vars(TimerFires /\ UNCHANGED <<attempt, client, lists>>)
    /\ \A i \in ListIDs : WF_vars(Progress(i))

FairSpec == Spec /\ Fairness
=============================================================================
