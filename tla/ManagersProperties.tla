------------------------- MODULE ManagersProperties -------------------------
(***************************************************************************)
(* What remains of the reconciler's promises when a lease runs out under a *)
(* leader that works on: those that rest on the API server's conflict      *)
(* check survive; those that rest on there being one worker are paid for   *)
(* with the lapse.                                                         *)
(***************************************************************************)
EXTENDS Managers, FiniteSets

P == INSTANCE OCIInstanceProperties WITH
    versions <- versionsA, queued <- queuedA, timer <- timerA, pc <- pcA,
    obj <- objA, attempt <- attemptA, client <- clientA

Q == INSTANCE OCIInstanceProperties WITH
    versions <- versionsB, queued <- queuedB, timer <- timerB, pc <- pcB,
    obj <- objB, attempt <- attemptB, client <- clientB

(* The type invariant; the two streams end in the stored version.          *)
TypeOK ==
    /\ P!TypeOK /\ Q!TypeOK
    /\ P!current = Q!current
    /\ leadsA \in BOOLEAN /\ leadsB \in BOOLEAN
    /\ holder \in {"nobody", "A", "B"}

(* Instances OCI runs that no resource records and no handler of either    *)
(* process is about to record.                                             *)
Orphans == {i \in P!Orphans : ~(pcB = "record" /\ objB.id = i)}

(* A change to the resource costs at most one instance for each process    *)
(* that works on it, which is two only after a fault; a lapse of the lease *)
(* or a crash costs one: when the old and the new leader both launch,      *)
(* whichever records its own first makes the other's update fail.          *)
Allowance ==
    (IF faults = MaxFaults THEN 1 ELSE 2) * (MaxInterventions - interventions)
    + (MaxFaults - faults)

OrphansArePaidFor == Cardinality(Orphans) <= Allowance

(* A launch that the contract of one reconciler does not allow: its        *)
(* resource has been recorded, given up or removed by the other leader.    *)
Stray(i) ==
    /\ faults < MaxFaults
    /\ oci[i].state = "NONE" /\ oci'[i].state # "NONE"
    /\ P!current' = P!current

(* Under a lapsed lease every step of the two leaders is one that a single *)
(* one could take, decided on the resource as it is stored, but for stray  *)
(* launches: finalizers, recorded instances and terminations rest on the   *)
(* API server's conflict check and not on there being one leader.          *)
OnlyLaunchesStray ==
    [][P!Contract!Next \/ \E i \in InstanceIDs : Stray(i)]_<<P!ClaimOf(P!current), P!CloudOf(oci)>>

(* A generation one leader gave up is not revived by the other, whatever   *)
(* copy it holds.                                                          *)
GivenUpIsFinal ==
    [][/\ P!GivenUp(P!current)
       /\ P!current'.uid = P!current.uid /\ P!current'.gen = P!current.gen
       => P!GivenUp(P!current')]_vars

(* Neither leader terminates an instance but the recorded one of a         *)
(* resource being deleted.                                                 *)
TerminateIsWanted ==
    [][\A i \in InstanceIDs :
         /\ \/ pcA = "terminate" /\ pcA' # "terminate"
            \/ pcB = "terminate" /\ pcB' # "terminate"
         /\ oci[i].state \notin P!Ending /\ oci'[i].state \in P!Ending
         => P!current.id = i /\ P!current.deleting]_vars

-----------------------------------------------------------------------------
(* The inductive invariant.  A process does its work while it leads, and   *)
(* until a first fault the process that led first leads alone.             *)
LeadersWork == (leadsA \/ pcA = "idle") /\ (leadsB \/ pcB = "idle")

FirstLeads ==
    /\ interventions <= MaxInterventions /\ faults <= MaxFaults
    /\ faults = MaxFaults => holder = "A" /\ leadsA /\ ~leadsB /\ P!LaunchesAlone

(* What holds of a process, and through it of the store, survives whatever *)
(* the other one does.                                                     *)
SharedInv == TypeOK /\ P!SharedInv /\ Q!SharedInv /\ LeadersWork /\ FirstLeads

Count(condition) == IF condition THEN 1 ELSE 0

(* The lease names a leader, and not a process that died.                  *)
Held == (holder = "A" /\ leadsA) \/ (holder = "B" /\ leadsB)

(* How many IDs can still be lost for no further change or fault: one by a *)
(* second leader, one by a leader that the lease does not name.            *)
Risk == Count(leadsA /\ leadsB) + Count(~Held /\ (leadsA \/ leadsB))

(* A resource for which no launch is called for: whoever holds a copy from *)
(* before is bound to fail, and no new launch begins.                      *)
Closed(o) == o.live /\ ~o.deleting /\ (o.id # NoID \/ P!GivenUp(o))

Exposed == IF Closed(P!current) /\ Risk > 0 THEN Risk - 1 ELSE Risk

(* The resource has changed since the handler's copy of it was written:    *)
(* the ID it launches or is about to record is bound to be lost.           *)
OutdatedA == pcA \in {"launch", "record"} /\ objA.rv # P!current.rv
OutdatedB == pcB \in {"launch", "record"} /\ objB.rv # P!current.rv

(* Every ID that is bound to be lost, or can be, has been paid for.        *)
PaidFor ==
    /\ IsFiniteSet(Orphans)
    /\ Cardinality(Orphans) + Count(OutdatedA) + Count(OutdatedB) + Exposed <= Allowance

IInv == SharedInv /\ PaidFor
=============================================================================
