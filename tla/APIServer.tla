----------------------------- MODULE APIServer -----------------------------
(***************************************************************************)
(* One custom resource name as the Kubernetes API server stores it and as  *)
(* the manager's informer cache has seen it.  Both are one value: the      *)
(* watch stream v, the sequence of versions the informer has not moved     *)
(* past.  Its head is what the cache answers, its last element what etcd   *)
(* holds, so a read through the cache may be any number of versions old.   *)
(* The API server and the informer are external to this repository; the    *)
(* model keeps what the reconcilers rely on: optimistic concurrency on     *)
(* resourceVersion, generation, finalizers and deletionTimestamp.          *)
(***************************************************************************)
EXTENDS Naturals, Sequences

CONSTANT NoID  \* the empty status.instanceId or status.securityListId

(* rv, uid, gen: resourceVersion, the incarnation of the name, generation. *)
(* live: the name exists.  deleting: deletionTimestamp is set.  fin: this  *)
(* operator's finalizer; held: a finalizer of another party.  id, phase,   *)
(* and obsGen are the status; failureReason, which nothing reads, is not.  *)
Object(ids, phases) ==
    [rv: Nat, uid: Nat, live: BOOLEAN, deleting: BOOLEAN, fin: BOOLEAN,
     held: BOOLEAN, gen: Nat, id: ids \cup {NoID}, phase: phases,
     obsGen: Nat]

NoObject ==
    [rv |-> 0, uid |-> 0, live |-> FALSE, deleting |-> FALSE, fin |-> FALSE,
     held |-> FALSE, gen |-> 0, id |-> NoID, phase |-> "",
     obsGen |-> 0]

Stored(v) == v[Len(v)]
Cached(v) == v[1]

-----------------------------------------------------------------------------
(* Variation: the resourceVersion is not compared.                         *)
AcceptsAnyVersion(v, o) == Stored(v).live /\ o.live

(* An update is accepted when it carries the stored resourceVersion.       *)
Accepts(v, o) == Stored(v).live /\ Stored(v).rv = o.rv

(* A deleted object leaves the store with its last finalizer.              *)
Gone(o) == o.deleting /\ ~o.fin /\ ~o.held

NewVersion(v, o) ==
    Append(v, [o EXCEPT !.rv = Stored(v).rv + 1, !.live = ~Gone(o)])

(* An update that changes nothing produces no new version and no event.    *)
Commit(v, o) == IF o = Stored(v) THEN v ELSE NewVersion(v, o)

(* A created object is a new incarnation of its name at generation 1.      *)
Created(o, held) ==
    [NoObject EXCEPT !.uid = o.uid + 1, !.held = held, !.gen = 1]

(* Editing the spec and setting deletionTimestamp increment generation.    *)
Edited(o) == [o EXCEPT !.gen = @ + 1]
Deleted(o) == [o EXCEPT !.gen = @ + 1, !.deleting = TRUE]
Released(o) == [o EXCEPT !.held = FALSE]
=============================================================================
