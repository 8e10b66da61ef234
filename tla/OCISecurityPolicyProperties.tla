-------------------- MODULE OCISecurityPolicyProperties --------------------
(***************************************************************************)
(* What the OCISecurityPolicy reconciler promises, and what its documents  *)
(* say.                                                                    *)
(***************************************************************************)
EXTENDS OCISecurityPolicy

current == Stored(versions)

ListRecord == [state: States, uid: Nat, gen: Nat]

(* The type invariant of the reconciler, its runtime and OCI.              *)
TypeOK ==
    /\ versions \in Seq(Object(ListIDs, Phases)) /\ Len(versions) > 0
    /\ queued \in BOOLEAN
    /\ timer \in BOOLEAN
    /\ pc \in Steps
    /\ obj \in Object(ListIDs, Phases)
    /\ interventions \in Nat
    /\ faults \in Nat
    /\ attempt \in Nat
    /\ client \in BOOLEAN
    /\ lists \in [ListIDs -> ListRecord]

-----------------------------------------------------------------------------
(* The write that records a new list reports its generation as observed    *)
(* only if the list got that generation's rules: a spec edited while       *)
(* CreateSecurityList ran is noticed before the status calls it Active.    *)
RecordedRulesAreCurrent ==
    [][current.id = NoID /\ current'.id # NoID =>
         /\ lists[current'.id].gen \in {0, current'.gen}
         /\ current'.obsGen = current'.gen]_vars

(* A generation marked Failed stays marked until the spec changes, and no  *)
(* list is created for it, whichever copy the reconcile started from.      *)
GivenUpIsFinal ==
    [][GivenUp(current) /\ current'.uid = current.uid /\ current'.gen = current.gen
         => /\ GivenUp(current')
            /\ \A i \in ListIDs : lists[i].state = "NONE" => lists'[i].state = "NONE"]_vars

(* Lists OCI has that no resource records and no handler is about to       *)
(* record.                                                                 *)
Orphans ==
    {i \in ListIDs : /\ lists[i].state \notin {"NONE"} \cup Ending
                     /\ current.id # i
                     /\ ~(pc = "record" /\ obj.id = i)}

(* The status claims the latest generation for a list with other rules.    *)
Drifted ==
    /\ current.id # NoID
    /\ current.obsGen = current.gen
    /\ lists[current.id].gen # current.gen

(* Every orphaned list, and a drift of the recorded one, is paid for by a  *)
(* change, a fault or a crash of its own: no retry adds another, and an    *)
(* edit that costs the list being created does not also leave the next one *)
(* with rules the status wrongly calls observed.                           *)
OrphansAndDriftArePaidFor ==
    Cardinality(Orphans) + (IF Drifted THEN 1 ELSE 0) <=
      (MaxInterventions - interventions) + (MaxFaults - faults)

(* The reconciler implements ManagedResource, as the other one does.       *)
ClaimOf(o) ==
    [uid |-> o.uid, live |-> o.live, deleting |-> o.deleting, fin |-> o.fin, id |-> o.id]

SeenAs(state) ==
    CASE state = "NONE" -> "none" [] state \in Ending -> "ending" [] OTHER -> "up"

CloudOf(records) ==
    [i \in ListIDs |-> [is |-> SeenAs(records[i].state), uid |-> records[i].uid]]

Contract == INSTANCE ManagedResource WITH
    ResourceIDs <- ListIDs, claim <- ClaimOf(current), cloud <- CloudOf(lists)

ImplementsManagedResource == Contract!Spec

-----------------------------------------------------------------------------
(* The inductive invariant of the safety properties, after that of the     *)
(* OCIInstance reconciler.  A copy a handler or the cache holds is never   *)
(* ahead of the store; the copy that still has the stored version is the   *)
(* stored object; and an old copy's list is either ending or still the one *)
(* recorded.                                                               *)
Known(w, stored, cloud) ==
    /\ w.rv <= stored.rv
    /\ w.rv = stored.rv => w = stored
    /\ w.id # NoID =>
         \/ cloud[w.id].state \in Ending
         \/ stored.id = w.id /\ (w.deleting => stored.deleting)

StreamIsKnown == \A k \in 1 .. Len(versions) : Known(versions[k], current, lists)

(* The recorded list was created for this incarnation of the resource and  *)
(* for a spec it has had, unless someone changed its rules; and it is      *)
(* ending once the finalizer is gone.                                      *)
Sound(c, cloud) ==
    /\ c.live \/ ~c.fin
    /\ c.obsGen <= c.gen
    /\ c.id # NoID => /\ cloud[c.id].state # "NONE"
                      /\ cloud[c.id].uid = c.uid
                      /\ cloud[c.id].gen <= c.gen
    /\ c.id # NoID /\ ~c.fin => cloud[c.id].state \in Ending

(* What a handler knows of its copy, and through it of the store, at each  *)
(* of its external calls.                                                  *)
HandDeletes ==
    pc \in {"delete", "removeFinalizer"} =>
      /\ Known(obj, current, lists)
      /\ obj.deleting
      /\ pc = "delete" => obj.id # NoID
      /\ pc = "removeFinalizer" /\ obj.id # NoID => lists[obj.id].state \in Ending

HandReads ==
    pc \in {"addFinalizer", "markCreating", "getList", "refetch", "setFailed"} =>
      /\ Known(obj, current, lists)
      /\ pc = "addFinalizer" => ~obj.deleting
      /\ pc = "markCreating" => obj.fin /\ obj.id = NoID
      /\ pc \in {"markCreating", "getList"} => ~GivenUp(obj)

HandCreates ==
    pc \in {"create", "record"} =>
      /\ obj.rv <= current.rv
      /\ current.live /\ current.fin /\ current.id = NoID
      /\ current.uid = obj.uid
      /\ current.phase = "Creating"
      /\ obj.rv = current.rv =>
           obj = IF pc = "create" THEN current ELSE Recorded(current, obj.id)
      /\ pc = "create" => obj.id = NoID
      /\ pc = "record" =>
           /\ obj.id # NoID
           /\ lists[obj.id].state # "NONE"
           /\ lists[obj.id].uid = obj.uid
           /\ lists[obj.id].gen \in {0, obj.gen}

HandSyncs ==
    pc = "syncStatus" =>
      /\ obj.rv <= current.rv
      /\ obj.rv = current.rv =>
           /\ obj = [current EXCEPT !.phase = obj.phase, !.obsGen = obj.obsGen]
           /\ obj.obsGen \in {current.obsGen, current.gen}
           /\ ~GivenUp(current)

IInv ==
    /\ TypeOK
    /\ StreamIsKnown
    /\ Sound(current, lists)
    /\ HandDeletes /\ HandReads /\ HandCreates /\ HandSyncs

-----------------------------------------------------------------------------
Managed == current.live /\ ~current.deleting
Forgotten == current.id # NoID /\ lists[current.id].state = "PURGED"
InSync == current.id # NoID /\ current.phase = PhaseOf(lists[current.id].state)

(* A deleted resource gets rid of the finalizer, through lost events,      *)
(* conflicts, failed calls and restarts, unless OCI has come to forget the *)
(* list, for which DeleteSecurityList then answers an error.               *)
DeletionCompletes ==
    current.deleting /\ current.fin ~> ~current.fin \/ Forgotten

(* Once users and faults are quiet the reconciler settles: it has observed *)
(* the last generation, and either has given it up or shows the phase of   *)
(* the list OCI has.                                                       *)
Settles ==
    <>[](Managed =>
           \/ GivenUp(current)
           \/ Forgotten
           \/ InSync /\ current.obsGen = current.gen)

=============================================================================
