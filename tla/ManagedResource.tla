-------------------------- MODULE ManagedResource --------------------------
(***************************************************************************)
(* What both reconcilers promise, told without a cache, a queue, a worker  *)
(* or a fault: a claim, which users make and withdraw, and the cloud       *)
(* resources provisioned for it.  Every step is decided on the claim as it *)
(* is now; that the reconcilers, which decide on old copies of it, take no *)
(* other steps is what implementing this specification means.              *)
(***************************************************************************)
EXTENDS Naturals

CONSTANTS ResourceIDs, NoID

VARIABLES claim,  \* the custom resource: incarnation, life, finalizer, recorded ID
          cloud   \* per ID: whether it is up, ending or none, and for whom

cvars == <<claim, cloud>>

Init ==
    /\ claim = [uid |-> 0, live |-> FALSE, deleting |-> FALSE, fin |-> FALSE, id |-> NoID]
    /\ cloud = [i \in ResourceIDs |-> [is |-> "none", uid |-> 0]]

(* Users claim a resource, and withdraw the claim.  A withdrawn claim that *)
(* no finalizer holds is gone at once.                                     *)
Request ==
    /\ ~claim.live
    /\ claim' = [uid |-> claim.uid + 1, live |-> TRUE, deleting |-> FALSE,
                 fin |-> FALSE, id |-> NoID]
    /\ UNCHANGED cloud

Withdraw ==
    /\ claim.live /\ ~claim.deleting
    /\ \E stays \in {TRUE, claim.fin} :
         claim' = [claim EXCEPT !.deleting = TRUE, !.live = stays]
    /\ UNCHANGED cloud

Vanish ==
    /\ claim.live /\ claim.deleting /\ ~claim.fin
    /\ claim' = [claim EXCEPT !.live = FALSE]
    /\ UNCHANGED cloud

(* The finalizer is added to a claim that stands, and taken off one that   *)
(* is withdrawn and whose resource, if it ever recorded one, is ending.    *)
Protect ==
    /\ claim.live /\ ~claim.deleting
    /\ claim' = [claim EXCEPT !.fin = TRUE]
    /\ UNCHANGED cloud

Release ==
    /\ claim.live /\ claim.deleting
    /\ claim.id # NoID => cloud[claim.id].is = "ending"
    /\ \E stays \in BOOLEAN :
         claim' = [claim EXCEPT !.fin = FALSE, !.live = stays]
    /\ UNCHANGED cloud

(* A resource is provisioned for a protected claim that records none yet,  *)
(* and then recorded, or lost from sight.                                  *)
Provision(i) ==
    /\ claim.live /\ claim.fin /\ claim.id = NoID
    /\ cloud[i].is = "none"
    /\ cloud' = [cloud EXCEPT ![i] = [is |-> "up", uid |-> claim.uid]]
    /\ UNCHANGED claim

Bind(i) ==
    /\ claim.live /\ claim.fin /\ claim.id = NoID
    /\ cloud[i].is # "none" /\ cloud[i].uid = claim.uid
    /\ claim' = [claim EXCEPT !.id = i]
    /\ UNCHANGED cloud

(* A resource is terminated, for its withdrawn claim or by someone else.   *)
Terminate(i) ==
    /\ cloud[i].is = "up"
    /\ cloud' = [cloud EXCEPT ![i].is = "ending"]
    /\ UNCHANGED claim

Next ==
    \/ Request \/ Withdraw \/ Vanish \/ Protect \/ Release
    \/ \E i \in ResourceIDs : Provision(i) \/ Bind(i) \/ Terminate(i)

Spec == Init /\ [][Next]_cvars
=============================================================================
