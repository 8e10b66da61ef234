----------------------- MODULE OCIInstanceProperties -----------------------
(***************************************************************************)
(* What the OCIInstance reconciler promises, and what its documents say.   *)
(***************************************************************************)
EXTENDS OCIInstance

current == Stored(versions)

OCIRecord == [state: States, uid: Nat, gen: Nat]

(* The type invariant of the reconciler, its runtime and OCI.              *)
TypeOK ==
    /\ versions \in Seq(Object(InstanceIDs, Phases)) /\ Len(versions) > 0
    /\ queued \in BOOLEAN
    /\ timer \in BOOLEAN
    /\ pc \in Steps
    /\ obj \in Object(InstanceIDs, Phases)
    /\ interventions \in Nat
    /\ faults \in Nat
    /\ attempt \in Nat
    /\ client \in BOOLEAN
    /\ oci \in [InstanceIDs -> OCIRecord]

-----------------------------------------------------------------------------
(* An instance is launched only for the resource that exists now, while it *)
(* holds the finalizer, records no instance and has not been given up,     *)
(* however old the cached copy was that the reconcile started from: the    *)
(* write of Provisioning before LaunchInstance is what ensures it.         *)
LaunchIsSafe ==
    [][\A i \in InstanceIDs :
         oci[i].state = "NONE" /\ oci'[i].state # "NONE" =>
           /\ current.live /\ current.fin /\ current.uid = oci'[i].uid
           /\ current.id = NoID
           /\ ~GivenUp(current)]_vars

(* Once status.instanceId is recorded, nothing the reconciler writes later *)
(* from an older copy changes or clears it.                                *)
RecordedIDIsKept ==
    [][current.id # NoID /\ current'.uid = current.uid
         => current'.id = current.id]_vars

(* The recorded instance was launched for this incarnation of the resource *)
(* and for a spec it has had: after a delete and a create under the same   *)
(* name, a late write of the old incarnation's ID cannot reach the new.    *)
RecordedIsOwn ==
    current.id # NoID =>
      /\ oci[current.id].state # "NONE"
      /\ oci[current.id].uid = current.uid
      /\ oci[current.id].gen <= current.gen

(* status.observedGeneration never goes back and never runs ahead of the   *)
(* resource's generation, whichever copy a status update was made from.    *)
ObservedGenerationGrows ==
    [][current'.uid = current.uid =>
         current.obsGen <= current'.obsGen /\ current'.obsGen <= current'.gen]_vars

(* The Failed phase guard: a generation marked Failed stays marked until   *)
(* the spec changes; a reconcile that began from an older copy of the      *)
(* resource neither revives it nor launches for it.                        *)
GivenUpIsFinal ==
    [][GivenUp(current) /\ current'.uid = current.uid /\ current'.gen = current.gen
         => GivenUp(current')]_vars

(* The reconciler's TerminateInstance ends only the instance the resource  *)
(* records, and only once the resource is being deleted.                   *)
TerminateIsWanted ==
    [][\A i \in InstanceIDs :
         /\ pc = "terminate" /\ pc' # "terminate"
         /\ oci[i].state \notin Ending /\ oci'[i].state \in Ending
         => current.id = i /\ current.deleting]_vars

(* A resource that records an instance loses the finalizer, and so can     *)
(* leave the store, only when OCI is terminating that instance or has.     *)
ReleasedIsEnding ==
    current.id # NoID /\ ~current.fin => oci[current.id].state \in Ending

(* Instances OCI runs that no resource records and no handler is about to  *)
(* record.                                                                 *)
Orphans ==
    {i \in InstanceIDs : /\ oci[i].state \notin {"NONE"} \cup Ending
                         /\ current.id # i
                         /\ ~(pc = "record" /\ obj.id = i)}

(* Every orphan is paid for by one change, fault or crash that fell in the *)
(* window between LaunchInstance and the write of its ID: a single one     *)
(* never costs two instances, for the retry's write of Provisioning fails  *)
(* until the cache has caught up.                                          *)
OrphansArePaidFor ==
    Cardinality(Orphans) <=
      (MaxInterventions - interventions) + (MaxFaults - faults)

(* The reconciler implements ManagedResource: stale reads, conflicts, lost *)
(* answers, retries and restarts amount to steps decided on the resource   *)
(* as it is stored.                                                        *)
ClaimOf(o) ==
    [uid |-> o.uid, live |-> o.live, deleting |-> o.deleting, fin |-> o.fin, id |-> o.id]

SeenAs(state) ==
    CASE state = "NONE" -> "none" [] state \in Ending -> "ending" [] OTHER -> "up"

CloudOf(records) ==
    [i \in InstanceIDs |-> [is |-> SeenAs(records[i].state), uid |-> records[i].uid]]

Contract == INSTANCE ManagedResource WITH
    ResourceIDs <- InstanceIDs, claim <- ClaimOf(current), cloud <- CloudOf(oci)

ImplementsManagedResource == Contract!Spec

-----------------------------------------------------------------------------
(* The inductive invariant of the safety properties.  A copy a handler or  *)
(* the cache holds is never ahead of the store; the copy that still has    *)
(* the stored version is the stored object; and an old copy's instance is  *)
(* either ending or still the one recorded.                                *)
Known(w, stored, cloud) ==
    /\ w.rv <= stored.rv
    /\ w.rv = stored.rv => w = stored
    /\ w.id # NoID =>
         \/ cloud[w.id].state \in Ending
         \/ stored.id = w.id /\ (w.deleting => stored.deleting)

StreamIsKnown == \A k \in 1 .. Len(versions) : Known(versions[k], current, oci)

StoreIsSound ==
    /\ current.live \/ ~current.fin
    /\ current.obsGen <= current.gen
    /\ RecordedIsOwn
    /\ ReleasedIsEnding

(* What a handler knows of its copy, and through it of the store, at each  *)
(* of its external calls.                                                  *)
HandDeletes ==
    pc \in {"terminate", "removeFinalizer"} =>
      /\ Known(obj, current, oci)
      /\ obj.deleting
      /\ pc = "terminate" => obj.id # NoID
      /\ pc = "removeFinalizer" /\ obj.id # NoID => oci[obj.id].state \in Ending

HandReads ==
    pc \in {"addFinalizer", "markProvisioning", "getInstance", "refetch",
           "setFailed"} =>
      /\ Known(obj, current, oci)
      /\ pc \in {"addFinalizer", "markProvisioning"} => ~obj.deleting
      /\ pc = "markProvisioning" => obj.fin /\ obj.id = NoID
      /\ pc = "getInstance" => obj.id # NoID
      /\ pc \in {"markProvisioning", "getInstance"} => ~GivenUp(obj)

HandLaunches ==
    pc \in {"launch", "record"} =>
      /\ obj.rv <= current.rv
      /\ obj.rv = current.rv =>
           /\ current.live /\ ~current.deleting /\ current.fin /\ current.id = NoID
           /\ current.phase = "Provisioning"
           /\ obj = IF pc = "launch" THEN current ELSE Recorded(current, obj.id)
      /\ pc = "launch" => obj.id = NoID
      /\ pc = "record" =>
           /\ obj.id # NoID
           /\ oci[obj.id].state # "NONE"
           /\ oci[obj.id].uid = obj.uid
           /\ oci[obj.id].gen = obj.gen

HandSyncs ==
    pc = "syncStatus" =>
      /\ obj.rv <= current.rv
      /\ obj.id # NoID
      /\ obj.rv = current.rv =>
           /\ obj = [current EXCEPT !.phase = obj.phase, !.obsGen = obj.obsGen]
           /\ obj.obsGen \in {current.obsGen, current.gen}
           /\ ~GivenUp(current)

(* All this holds of a process whoever else works on the resource.         *)
SharedInv ==
    /\ TypeOK
    /\ StreamIsKnown
    /\ StoreIsSound
    /\ HandDeletes /\ HandReads /\ HandLaunches /\ HandSyncs

(* A worker that is alone knows more: from the write of Provisioning until *)
(* it returns users may edit or delete the resource, but nobody records    *)
(* another instance, gives it up or takes the finalizer away.              *)
LaunchesAlone ==
    pc \in {"launch", "record"} =>
      /\ current.live /\ current.fin /\ current.id = NoID
      /\ current.uid = obj.uid
      /\ current.phase = "Provisioning"

IInv == SharedInv /\ LaunchesAlone

-----------------------------------------------------------------------------
Managed == current.live /\ ~current.deleting
Forgotten == current.id # NoID /\ oci[current.id].state = "PURGED"
InSync == current.id # NoID /\ current.phase = PhaseOf(oci[current.id].state)

(* A deleted resource gets rid of the finalizer, through lost events,      *)
(* conflicts, failed calls and restarts, unless OCI has come to forget the *)
(* instance, for which TerminateInstance then answers an error.            *)
DeletionCompletes ==
    current.deleting /\ current.fin ~> ~current.fin \/ Forgotten

(* Once users and faults are quiet the reconciler settles: it has observed *)
(* the last generation, and either has given it up or shows the phase of   *)
(* the instance OCI runs.                                                  *)
Settles ==
    <>[](Managed =>
           \/ GivenUp(current)
           \/ Forgotten
           \/ InSync /\ current.obsGen = current.gen)

-----------------------------------------------------------------------------
(* README.md, "Finalizer pattern": the finalizer prevents orphaned cloud   *)
(* resources.                                                              *)
NoOrphans == Orphans = {}

(* README.md, "Failed phase guard": retries stop until the user changes    *)
(* the spec.  The generation setFailedStatus stops is then the one that    *)
(* failed.                                                                 *)
OnlyTriedSpecsFail ==
    [][pc = "setFailed" /\ pc' = "idle" /\ current' # current
         => current'.obsGen = attempt]_vars

(* README.md, "Level-triggered reconciliation": the operator is self-      *)
(* healing.  The status comes to agree with OCI once OCI is left alone.    *)
SelfHeals == <>[](Managed /\ current.id # NoID => InSync \/ Forgotten)

(* README.md, "Level-triggered reconciliation": the desired spec is always *)
(* compared with OCI.  A running instance comes to have the spec that the  *)
(* status says was observed.                                               *)
SpecReachesOCI ==
    <>[](Managed /\ InSync /\ current.obsGen = current.gen
           => oci[current.id].gen = current.gen)
=============================================================================
