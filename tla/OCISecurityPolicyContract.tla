---------------------- MODULE OCISecurityPolicyContract ----------------------
(***************************************************************************)
(* Proofs that the OCISecurityPolicy reconciler implements ManagedResource *)
(* and that every orphaned list and every drift is paid for, for any set   *)
(* of OCIDs and any bounds.                                                *)
(***************************************************************************)
EXTENDS OCISecurityPolicyProofs, FiniteSetTheorems

Claims == [uid: Nat, live: BOOLEAN, deleting: BOOLEAN, fin: BOOLEAN,
           id: ListIDs \cup {NoID}]

Clouds == [ListIDs -> [is: {"none", "up", "ending"}, uid: Nat]]

(* A step of the claim and its lists, or none.                             *)
ContractStep == [Contract!Next]_(Contract!cvars)

-----------------------------------------------------------------------------
(* The claim of a resource, field by field.                                *)
LEMMA ClaimFields ==
  ASSUME NEW o \in Objects
  PROVE  /\ ClaimOf(o) \in Claims
         /\ ClaimOf(o).uid = o.uid /\ ClaimOf(o).live = o.live
         /\ ClaimOf(o).deleting = o.deleting /\ ClaimOf(o).fin = o.fin
         /\ ClaimOf(o).id = o.id
BY DEF ClaimOf, Claims, Objects, Object

(* What is seen of the lists OCI has.                                      *)
LEMMA CloudFields ==
  ASSUME NEW r \in [ListIDs -> ListRecord]
  PROVE  /\ CloudOf(r) \in Clouds
         /\ \A i \in ListIDs :
              /\ CloudOf(r)[i].uid = r[i].uid
              /\ CloudOf(r)[i].is = SeenAs(r[i].state)
<1>1. \A s : SeenAs(s) \in {"none", "up", "ending"}
  BY DEF SeenAs
<1> QED BY <1>1 DEF CloudOf, Clouds, ListRecord

(* The three ways a list is seen.                                          *)
LEMMA Seen ==
  /\ SeenAs("NONE") = "none"
  /\ \A s \in Ending : SeenAs(s) = "ending"
  /\ \A s : s # "NONE" /\ s \notin Ending => SeenAs(s) = "up"
BY DEF SeenAs, Ending

(* The claim and its lists as they are after a step.                       *)
LEMMA Mapped ==
  /\ ClaimOf(current)' = ClaimOf(current')
  /\ CloudOf(lists)' = CloudOf(lists')
BY DEF ClaimOf, CloudOf, SeenAs, Ending

-----------------------------------------------------------------------------
(* Nothing happens to the claim when neither the store nor what OCI is     *)
(* seen to run changes.                                                    *)
LEMMA Stutter ==
  ASSUME current' = current, CloudOf(lists') = CloudOf(lists)
  PROVE  ContractStep
BY Mapped DEF ContractStep, Contract!cvars

(* A change of something else than the claim leaves it alone, or removes   *)
(* the resource because no finalizer holds it any more.                    *)
LEMMA SameClaim ==
  ASSUME UNCHANGED lists, current \in Objects, current' \in Objects,
         current.live,
         current'.uid = current.uid, current'.deleting = current.deleting,
         current'.fin = current.fin, current'.id = current.id,
         current'.live \/ (current.deleting /\ ~current.fin)
  PROVE  ContractStep
<1>1. CASE current'.live
  <2>1. ClaimOf(current') = ClaimOf(current)
    BY <1>1, ClaimFields DEF Claims
  <2> QED BY <2>1, Mapped DEF ContractStep, Contract!cvars
<1>2. CASE ~current'.live
  <2>1. ClaimOf(current') = [ClaimOf(current) EXCEPT !.live = FALSE]
    BY <1>2, ClaimFields DEF Claims
  <2>2. ClaimOf(current).live /\ ClaimOf(current).deleting /\ ~ClaimOf(current).fin
    BY <1>2, ClaimFields
  <2>3. Contract!Vanish
    BY <2>1, <2>2, Mapped DEF Contract!Vanish
  <2> QED BY <2>3 DEF ContractStep, Contract!Next
<1> QED BY <1>1, <1>2

(* What users do to the resource.                                          *)
LEMMA UsersRefine ==
  ASSUME TypeOK, Sound(current, lists), Users, UNCHANGED lists
  PROVE  ContractStep
<1>0. current \in Objects /\ current' \in Objects
  BY StoreTyped, UsersStep
<1>1. CASE Create
  <2>1. PICK h \in BOOLEAN : versions' = NewVersion(versions, Created(current, h))
    BY <1>1 DEF Create, current
  <2>2. Created(current, h) \in Objects
    BY <1>0, CopyType
  <2>3. current' = [Created(current, h) EXCEPT !.rv = current.rv + 1,
                                               !.live = ~Gone(Created(current, h))]
    BY <2>1, <2>2, NewStored
  <2>4. /\ ~Created(current, h).deleting /\ ~Created(current, h).fin
        /\ Created(current, h).id = NoID /\ Created(current, h).uid = current.uid + 1
    BY <1>0 DEF Created, NoObject
  <2>5. ~Gone(Created(current, h))
    BY <2>4 DEF Gone
  <2>6. /\ current'.live /\ ~current'.deleting /\ ~current'.fin
        /\ current'.id = NoID /\ current'.uid = current.uid + 1
    BY <2>2, <2>3, <2>4, <2>5 DEF Objects, Object
  <2>7. ~current.live
    BY <1>1 DEF Create, current
  <2>8. Contract!Request
    <3>1. ClaimOf(current') = [uid |-> ClaimOf(current).uid + 1, live |-> TRUE,
                               deleting |-> FALSE, fin |-> FALSE, id |-> NoID]
      BY <1>0, <2>6, ClaimFields DEF Claims
    <3>2. ~ClaimOf(current).live
      BY <1>0, <2>7, ClaimFields
    <3> QED BY <3>1, <3>2, Mapped DEF Contract!Request
  <2> QED BY <2>8 DEF ContractStep, Contract!Next
<1>2. CASE Delete
  <2>1. /\ versions' = NewVersion(versions, Deleted(current))
        /\ current.live /\ ~current.deleting
    BY <1>2 DEF Delete, current
  <2>2. Deleted(current) \in Objects
    BY <1>0, CopyType
  <2>3. current' = [Deleted(current) EXCEPT !.rv = current.rv + 1,
                                            !.live = ~Gone(Deleted(current))]
    BY <2>1, <2>2, NewStored
  <2>4. /\ Deleted(current).deleting /\ Deleted(current).fin = current.fin
        /\ Deleted(current).id = current.id /\ Deleted(current).uid = current.uid
    BY <1>0 DEF Deleted, Objects, Object
  <2>5. /\ current'.deleting /\ current'.fin = current.fin
        /\ current'.id = current.id /\ current'.uid = current.uid
        /\ current'.live \/ ~current.fin
    BY <2>2, <2>3, <2>4 DEF Gone, Objects, Object
  <2>6. Contract!Withdraw
    <3> DEFINE c == ClaimOf(current)
               d == ClaimOf(current')
    <3>1. /\ c \in Claims /\ d \in Claims
          /\ c.live /\ ~c.deleting
          /\ d.deleting /\ d.uid = c.uid /\ d.fin = c.fin /\ d.id = c.id
          /\ d.live \/ ~c.fin
      BY <1>0, <2>1, <2>5, ClaimFields
    <3>2. d = [c EXCEPT !.deleting = TRUE, !.live = d.live] /\ d.live \in {TRUE, c.fin}
      <4> HIDE DEF c, d
      <4> QED BY <3>1 DEF Claims
    <3> QED BY <3>1, <3>2, Mapped DEF Contract!Withdraw
  <2> QED BY <2>6 DEF ContractStep, Contract!Next
<1>3. CASE EditSpec \/ Touch \/ ReleaseHold
  <2>1. PICK o \in {Edited(current), current, Released(current)} :
          versions' = NewVersion(versions, o) /\ current.live
    BY <1>3 DEF EditSpec, Touch, ReleaseHold, current
  <2>2. o \in Objects
    BY <1>0, <2>1, CopyType
  <2>3. /\ o.uid = current.uid /\ o.fin = current.fin /\ o.id = current.id
        /\ o.deleting = current.deleting
    <3>1. CASE o = current
      BY <3>1
    <3>2. CASE o = Edited(current)
      BY <1>0, <3>2 DEF Edited, Objects, Object
    <3>3. CASE o = Released(current)
      BY <1>0, <3>3 DEF Released, Objects, Object
    <3> QED BY <2>1, <3>1, <3>2, <3>3
  <2>4. current' = [o EXCEPT !.rv = current.rv + 1, !.live = ~Gone(o)]
    BY <2>1, <2>2, NewStored
  <2>5. /\ current'.uid = current.uid /\ current'.deleting = current.deleting
        /\ current'.fin = current.fin /\ current'.id = current.id
        /\ current'.live \/ (current.deleting /\ ~current.fin)
    BY <2>2, <2>3, <2>4 DEF Gone, Objects, Object
  <2> QED BY <1>0, <2>1, <2>5, SameClaim
<1> QED BY <1>1, <1>2, <1>3 DEF Users

-----------------------------------------------------------------------------
(* What an update leaves in the store, said of the copy it writes.         *)
LEMMA Written ==
  ASSUME TypeOK, NEW o \in Objects, Writes(o) \/ WriteFails(o)
  PROVE  \/ current' = current
         \/ /\ obj.rv = current.rv /\ current.live /\ current' \in Objects
            /\ current'.uid = o.uid /\ current'.deleting = o.deleting
            /\ current'.fin = o.fin /\ current'.id = o.id
            /\ current'.live \/ (o.deleting /\ ~o.fin)
<1>1. CASE versions' = versions
  BY <1>1 DEF current
<1>2. CASE versions' # versions
  <2>1. /\ obj.rv = current.rv /\ current.live /\ current' \in Objects
        /\ current' = [o EXCEPT !.rv = current.rv + 1, !.live = ~Gone(o)]
    BY <1>2, WriteStore
  <2> QED BY <2>1 DEF Gone, Objects, Object
<1> QED BY <1>1, <1>2

(* An update of the phase or of observedGeneration is no step of the claim *)
(* but, at most, its removal.                                              *)
LEMMA StatusRefines ==
  ASSUME TypeOK, UNCHANGED lists, NEW o \in Objects, Writes(o) \/ WriteFails(o),
         obj.rv = current.rv => /\ o.uid = current.uid /\ o.id = current.id
                                /\ o.deleting = current.deleting /\ o.fin = current.fin
  PROVE  ContractStep
<1>1. current \in Objects
  BY StoreTyped
<1>2. CASE current' = current
  BY <1>2, Stutter DEF CloudOf
<1>3. CASE current' # current
  <2>1. /\ obj.rv = current.rv /\ current.live /\ current' \in Objects
        /\ current'.uid = o.uid /\ current'.deleting = o.deleting
        /\ current'.fin = o.fin /\ current'.id = o.id
        /\ current'.live \/ (o.deleting /\ ~o.fin)
    BY <1>3, Written
  <2> QED BY <1>1, <2>1, SameClaim
<1> QED BY <1>2, <1>3

(* The updates that set the status only.                                   *)
LEMMA StatusUpdatesRefine ==
  ASSUME IInv, MarkCreating \/ SyncStatus \/ (SetFailed /\ UNCHANGED <<client, lists>>)
  PROVE  ContractStep
<1>0. TypeOK /\ obj \in Objects /\ current \in Objects
  BY StoreTyped DEF IInv
<1>1. CASE MarkCreating
  <2>1. pc = "markCreating" /\ UNCHANGED lists
    BY <1>1 DEF MarkCreating, Write
  <2>2. obj.rv = current.rv => obj = current
    BY <2>1 DEF IInv, HandReads, Known
  <2> DEFINE o == [obj EXCEPT !.phase = "Creating"]
  <2>3. /\ o \in Objects
        /\ Writes(o) \/ WriteFails(o)
    BY <1>0, <1>1, CopyType DEF MarkCreating, Write
  <2>4. /\ o.uid = obj.uid /\ o.id = obj.id
        /\ o.deleting = obj.deleting /\ o.fin = obj.fin
    BY <1>0 DEF Objects, Object
  <2> HIDE DEF o
  <2> QED BY <1>0, <2>1, <2>2, <2>3, <2>4, StatusRefines
<1>2. CASE SyncStatus
  <2>1. pc = "syncStatus" /\ UNCHANGED lists
    BY <1>2 DEF SyncStatus, Write
  <2>2. obj.rv = current.rv =>
          obj = [current EXCEPT !.phase = obj.phase, !.obsGen = obj.obsGen]
    BY <2>1 DEF IInv, HandSyncs
  <2>3. obj.rv = current.rv => /\ obj.uid = current.uid /\ obj.id = current.id
                               /\ obj.deleting = current.deleting /\ obj.fin = current.fin
    BY <1>0, <2>2 DEF Objects, Object
  <2> QED BY <1>0, <1>2, <2>1, <2>3, StatusRefines DEF SyncStatus, Write
<1>3. CASE SetFailed /\ UNCHANGED <<client, lists>>
  <2>1. pc = "setFailed"
    BY <1>3 DEF SetFailed
  <2>2. obj.rv = current.rv => obj = current
    BY <2>1 DEF IInv, HandReads, Known
  <2>3. /\ MarkedFailed(obj).uid = obj.uid /\ MarkedFailed(obj).id = obj.id
        /\ MarkedFailed(obj).deleting = obj.deleting /\ MarkedFailed(obj).fin = obj.fin
    BY <1>0 DEF MarkedFailed, SetFailedStatus, SetObservedGeneration, Objects, Object
  <2> QED BY <1>0, <1>3, <2>2, <2>3, CopyType, StatusRefines DEF SetFailed
<1> QED BY <1>1, <1>2, <1>3

(* The finalizer is added to a claim that stands.                          *)
LEMMA AddFinalizerRefines ==
  ASSUME IInv, AddFinalizer
  PROVE  ContractStep
<1>0. TypeOK /\ obj \in Objects /\ current \in Objects
  BY StoreTyped DEF IInv
<1> DEFINE o == [obj EXCEPT !.fin = TRUE]
           c == ClaimOf(current)
           d == ClaimOf(current')
<1>1. /\ pc = "addFinalizer" /\ UNCHANGED lists
      /\ Writes(o) \/ WriteFails(o)
  BY DEF AddFinalizer, Write
<1>2. ~obj.deleting /\ (obj.rv = current.rv => obj = current)
  BY <1>1 DEF IInv, HandReads, Known
<1>3. CASE current' = current
  BY <1>1, <1>3, Stutter DEF CloudOf
<1>4. CASE current' # current
  <2>0. o \in Objects
    BY <1>0, CopyType, Zenon
  <2>1. /\ o \in Objects /\ o.uid = obj.uid /\ o.deleting = obj.deleting
        /\ o.fin /\ o.id = obj.id
    BY <1>0, <2>0 DEF Objects, Object
  <2> HIDE DEF o
  <2>2. /\ obj.rv = current.rv /\ current.live /\ current' \in Objects
        /\ current'.uid = o.uid /\ current'.deleting = o.deleting
        /\ current'.fin = o.fin /\ current'.id = o.id
        /\ current'.live \/ (o.deleting /\ ~o.fin)
    BY <1>0, <1>1, <1>4, <2>1, Written
  <2>3. /\ c \in Claims /\ d \in Claims
        /\ c.live /\ ~c.deleting
        /\ d.uid = c.uid /\ d.live /\ ~d.deleting /\ d.fin /\ d.id = c.id
    BY <1>0, <1>2, <2>1, <2>2, ClaimFields
  <2>4. d = [c EXCEPT !.fin = TRUE]
    <3> HIDE DEF c, d
    <3> QED BY <2>3 DEF Claims
  <2>5. Contract!Protect
    BY <1>1, <2>3, <2>4, Mapped DEF Contract!Protect, CloudOf
  <2> QED BY <2>5 DEF ContractStep, Contract!Next
<1> QED BY <1>3, <1>4

(* It is taken off a withdrawn claim whose list, if any, is ending.        *)
LEMMA RemoveFinalizerRefines ==
  ASSUME IInv, RemoveFinalizer
  PROVE  ContractStep
<1>0. /\ TypeOK /\ obj \in Objects /\ current \in Objects
      /\ lists \in [ListIDs -> ListRecord]
  BY StoreTyped DEF IInv
<1> DEFINE o == [obj EXCEPT !.fin = FALSE]
           c == ClaimOf(current)
           d == ClaimOf(current')
<1>1. /\ pc = "removeFinalizer" /\ UNCHANGED lists
      /\ Writes(o) \/ WriteFails(o)
  BY DEF RemoveFinalizer, Write
<1>2. /\ obj.deleting /\ (obj.rv = current.rv => obj = current)
      /\ obj.id # NoID => lists[obj.id].state \in Ending
  BY <1>1 DEF IInv, HandDeletes, Known
<1>3. CASE current' = current
  BY <1>1, <1>3, Stutter DEF CloudOf
<1>4. CASE current' # current
  <2>0. o \in Objects
    BY <1>0, CopyType, Zenon
  <2>1. /\ o \in Objects /\ o.uid = obj.uid /\ o.deleting = obj.deleting
        /\ ~o.fin /\ o.id = obj.id
    BY <1>0, <2>0 DEF Objects, Object
  <2> HIDE DEF o
  <2>2. /\ obj.rv = current.rv /\ current.live /\ current' \in Objects
        /\ current'.uid = o.uid /\ current'.deleting = o.deleting
        /\ current'.fin = o.fin /\ current'.id = o.id
    BY <1>0, <1>1, <1>4, <2>1, Written
  <2>3. /\ c \in Claims /\ d \in Claims
        /\ c.live /\ c.deleting
        /\ d.uid = c.uid /\ d.deleting /\ ~d.fin /\ d.id = c.id
    BY <1>0, <1>2, <2>1, <2>2, ClaimFields
  <2>4. d = [c EXCEPT !.fin = FALSE, !.live = d.live] /\ d.live \in BOOLEAN
    <3> HIDE DEF c, d
    <3> QED BY <2>3 DEF Claims
  <2>5. c.id # NoID => CloudOf(lists)[c.id].is = "ending"
    <3>1. c.id = obj.id /\ c.id \in ListIDs \cup {NoID}
      BY <1>0, <1>2, <2>2, ClaimFields DEF Objects, Object
    <3> HIDE DEF c
    <3> QED BY <1>0, <1>2, <3>1, CloudFields, Seen
  <2>6. Contract!Release
    BY <1>1, <2>3, <2>4, <2>5, Mapped DEF Contract!Release, CloudOf
  <2> QED BY <2>6 DEF ContractStep, Contract!Next
<1> QED BY <1>3, <1>4

-----------------------------------------------------------------------------
(* The list a handler records is one that was created for the claim.       *)
LEMMA RecordRefines ==
  ASSUME IInv, RecordList
  PROVE  ContractStep
<1>0. /\ TypeOK /\ obj \in Objects /\ current \in Objects
      /\ lists \in [ListIDs -> ListRecord]
  BY StoreTyped DEF IInv
<1> DEFINE c == ClaimOf(current)
           d == ClaimOf(current')
<1>1. /\ pc = "record" /\ UNCHANGED lists
      /\ Writes(obj) \/ WriteFails(obj)
  BY DEF RecordList, Write
<1>2. /\ current.live /\ current.fin /\ current.id = NoID /\ current.uid = obj.uid
      /\ obj.rv = current.rv => obj = Recorded(current, obj.id)
      /\ obj.id # NoID /\ lists[obj.id].state # "NONE" /\ lists[obj.id].uid = obj.uid
  BY <1>1 DEF IInv, HandCreates
<1>3. CASE current' = current
  BY <1>1, <1>3, Stutter DEF CloudOf
<1>4. CASE current' # current
  <2>1. /\ obj.rv = current.rv /\ current' \in Objects
        /\ current'.uid = obj.uid /\ current'.deleting = obj.deleting
        /\ current'.fin = obj.fin /\ current'.id = obj.id
        /\ current'.live \/ (obj.deleting /\ ~obj.fin)
    BY <1>0, <1>1, <1>4, Written
  <2>2. obj.fin /\ obj.deleting = current.deleting
    BY <1>0, <1>2, <2>1 DEF Recorded, SetObservedGeneration, Objects, Object
  <2>3. /\ c \in Claims /\ d \in Claims
        /\ c.live /\ c.fin /\ c.id = NoID /\ c.uid = current.uid
        /\ d.uid = c.uid /\ d.live /\ d.deleting = c.deleting /\ d.fin /\ d.id = obj.id
    BY <1>0, <1>2, <2>1, <2>2, ClaimFields
  <2>4. obj.id \in ListIDs
    BY <1>0, <1>2 DEF Objects, Object
  <2>5. d = [c EXCEPT !.id = obj.id]
    <3> HIDE DEF c, d
    <3> QED BY <2>3 DEF Claims
  <2>6. CloudOf(lists)[obj.id].is # "none" /\ CloudOf(lists)[obj.id].uid = c.uid
    <3> HIDE DEF c
    <3> QED BY <1>0, <1>2, <2>3, <2>4, CloudFields, Seen
  <2>7. Contract!Bind(obj.id)
    BY <1>1, <2>3, <2>5, <2>6, Mapped DEF Contract!Bind, CloudOf
  <2> QED BY <2>4, <2>7 DEF ContractStep, Contract!Next
<1> QED BY <1>3, <1>4

-----------------------------------------------------------------------------
(* What is seen of the lists is what it was, but for one of them.          *)
LEMMA SeenCreated ==
  ASSUME NEW r \in [ListIDs -> ListRecord], NEW q \in [ListIDs -> ListRecord],
         NEW i \in ListIDs, \A j \in ListIDs \ {i} : q[j] = r[j]
  PROVE  CloudOf(q) = [CloudOf(r) EXCEPT ![i] = [is |-> SeenAs(q[i].state),
                                                 uid |-> q[i].uid]]
BY DEF CloudOf, ListRecord

(* A list is created for a protected claim that records none.              *)
LEMMA CreateRefines ==
  ASSUME IInv, TypeOK', CreateList
  PROVE  ContractStep
<1>0. /\ current \in Objects
      /\ lists \in [ListIDs -> ListRecord] /\ lists' \in [ListIDs -> ListRecord]
  BY StoreTyped DEF IInv, TypeOK
<1>1. pc = "create" /\ current' = current
  BY DEF CreateList, current
<1>2. /\ current.live /\ current.fin /\ current.id = NoID /\ current.uid = obj.uid
  BY <1>1 DEF IInv, HandCreates
<1>3. CASE lists' = lists
  BY <1>1, <1>3, Stutter
<1>4. CASE lists' # lists
  <2>1. PICK i \in ListIDs :
          /\ lists[i].state = "NONE"
          /\ lists' = [lists EXCEPT ![i] = [state |-> "PROVISIONING", uid |-> obj.uid,
                                        gen |-> obj.gen]]
    BY <1>4 DEF CreateList
  <2>2. /\ lists'[i].state = "PROVISIONING" /\ lists'[i].uid = current.uid
        /\ \A j \in ListIDs \ {i} : lists'[j] = lists[j]
    BY <1>0, <1>2, <2>1
  <2>3. SeenAs("PROVISIONING") = "up"
    BY Seen DEF Ending
  <2>4. CloudOf(lists') = [CloudOf(lists) EXCEPT ![i] = [is |-> "up", uid |-> current.uid]]
    BY <1>0, <2>2, <2>3, SeenCreated
  <2>5. CloudOf(lists)[i].is = "none"
    BY <1>0, <2>1, CloudFields, Seen
  <2>6. /\ ClaimOf(current).live /\ ClaimOf(current).fin
        /\ ClaimOf(current).id = NoID /\ ClaimOf(current).uid = current.uid
    BY <1>0, <1>2, ClaimFields
  <2>7. Contract!Provision(i)
    BY <1>1, <2>4, <2>5, <2>6, Mapped DEF Contract!Provision
  <2> QED BY <2>7 DEF ContractStep, Contract!Next
<1> QED BY <1>3, <1>4

(* A list goes from one state to another: it begins to end, or what is     *)
(* seen of it does not change.                                             *)
LEMMA CloudRefines ==
  ASSUME TypeOK, TypeOK', UNCHANGED versions, NEW i \in ListIDs, NEW s \in States,
         lists' = [lists EXCEPT ![i].state = s],
         lists[i].state # "NONE", s # "NONE", lists[i].state \in Ending => s \in Ending
  PROVE  ContractStep
<1>0. lists \in [ListIDs -> ListRecord] /\ lists' \in [ListIDs -> ListRecord]
  BY DEF TypeOK
<1>1. current' = current
  BY DEF current
<1>2. /\ lists'[i].state = s /\ lists'[i].uid = lists[i].uid
      /\ \A j \in ListIDs \ {i} : lists'[j] = lists[j]
  BY <1>0 DEF ListRecord
<1> DEFINE k == CloudOf(lists)
           l == CloudOf(lists')
<1>3. /\ k \in Clouds /\ l \in Clouds
      /\ l[i].is = SeenAs(s) /\ l[i].uid = k[i].uid /\ k[i].is = SeenAs(lists[i].state)
      /\ \A j \in ListIDs \ {i} : l[j].is = k[j].is /\ l[j].uid = k[j].uid
  BY <1>0, <1>2, CloudFields
<1>4. CASE SeenAs(s) = SeenAs(lists[i].state)
  <2>1. l = k
    <3> HIDE DEF k, l
    <3> QED BY <1>3, <1>4 DEF Clouds
  <2> QED BY <1>1, <2>1, Stutter
<1>5. CASE SeenAs(s) # SeenAs(lists[i].state)
  <2>1. SeenAs(s) = "ending" /\ SeenAs(lists[i].state) = "up"
    BY <1>5, Seen
  <2>2. l = [k EXCEPT ![i].is = "ending"]
    <3> HIDE DEF k, l
    <3> QED BY <1>3, <2>1 DEF Clouds
  <2>3. Contract!Terminate(i)
    BY <1>1, <1>3, <2>1, <2>2, Mapped DEF Contract!Terminate
  <2> QED BY <2>3 DEF ContractStep, Contract!Next
<1> QED BY <1>4, <1>5

(* The handler of a deletion deletes the list the resource records.        *)
LEMMA DeleteRefines ==
  ASSUME IInv, TypeOK', DeleteList
  PROVE  ContractStep
<1>0. /\ TypeOK /\ Sound(current, lists) /\ obj \in Objects
      /\ lists \in [ListIDs -> ListRecord]
  BY StoreTyped DEF IInv
<1>1. pc = "delete" /\ UNCHANGED versions
  BY DEF DeleteList
<1>2. CASE lists' = lists
  BY <1>1, <1>2, Stutter DEF current
<1>3. CASE lists' # lists
  <2>1. /\ Known(obj, current, lists) /\ obj.id # NoID /\ obj.id \in ListIDs
    BY <1>0, <1>1 DEF IInv, HandDeletes, Objects, Object
  <2>2. lists' = [lists EXCEPT ![obj.id].state = "TERMINATING"]
    BY <1>3 DEF DeleteList, Deletes
  <2>3. lists[obj.id].state # "NONE"
    BY <1>0, <2>1 DEF Known, Sound, Ending
  <2>4. "TERMINATING" \in States /\ "TERMINATING" \in Ending
    BY DEF States, Ending
  <2> QED BY <1>0, <1>1, <2>1, <2>2, <2>3, <2>4, CloudRefines
<1> QED BY <1>2, <1>3

-----------------------------------------------------------------------------
(* Every step of the reconciler, its runtime, its users and OCI is a step  *)
(* of the claim and its lists, or none ...                                 *)
LEMMA RefinementStep ==
  ASSUME IInv, TypeOK', [Next]_vars
  PROVE  ContractStep
<1>0. TypeOK /\ Sound(current, lists) /\ versions \in Streams
  BY StoreTyped DEF IInv
<1>1. CASE AddFinalizer \/ RemoveFinalizer \/ RecordList \/ CreateList \/ DeleteList
  BY <1>1, AddFinalizerRefines, RemoveFinalizerRefines, RecordRefines, CreateRefines,
     DeleteRefines
<1>2. CASE MarkCreating \/ SyncStatus \/ (SetFailed /\ UNCHANGED <<client, lists>>)
  BY <1>2, StatusUpdatesRefine
<1>3. CASE Users /\ UNCHANGED <<attempt, client, lists>>
  BY <1>0, <1>3, UsersRefine
<1>4. CASE Cloud
  <2>1. PICK i \in ListIDs : Progress(i) \/ Purge(i) \/ Console(i)
    BY <1>4 DEF Cloud
  <2>2. UNCHANGED versions /\ current' = current
    BY <2>1 DEF Progress, Purge, Console, current
  <2>3. CASE lists' = [lists EXCEPT ![i].gen = 0]
    <3>1. CloudOf(lists') = CloudOf(lists)
      BY <1>0, <2>3 DEF CloudOf, TypeOK, ListRecord
    <3> QED BY <2>2, <3>1, Stutter
  <2>4. CASE lists' # [lists EXCEPT ![i].gen = 0]
    <3>1. PICK s \in States :
            /\ lists' = [lists EXCEPT ![i].state = s]
            /\ lists[i].state # "NONE" /\ s # "NONE"
            /\ lists[i].state \in Ending => s \in Ending
      BY <2>1, <2>4 DEF Progress, Purge, Console, States, Ending
    <3> QED BY <1>0, <2>2, <3>1, CloudRefines
  <2> QED BY <2>3, <2>4
<1>5. CASE Deliver /\ UNCHANGED <<attempt, client, lists>>
  <2>1. current' = current
    BY <1>0, <1>5, TailStream DEF Deliver, current
  <2> QED BY <1>5, <2>1, Stutter
<1>6. CASE \/ ReconcileNothing \/ HandleDeletion \/ EnsureFinalizer \/ ReconcilePolicy
           \/ (Refetch /\ UNCHANGED <<client, lists>>) \/ GetList \/ Restart
           \/ ((TimerFires \/ Resync) /\ UNCHANGED <<attempt, client, lists>>)
           \/ UNCHANGED vars
  <2>1. UNCHANGED versions /\ UNCHANGED lists
    BY <1>6 DEF ReconcileNothing, HandleDeletion, EnsureFinalizer, ReconcilePolicy,
                Refetch, GetList, Restart, RuntimeRestart, TimerFires, Resync, vars
  <2>2. current' = current
    BY <2>1 DEF current
  <2> QED BY <2>1, <2>2, Stutter
<1> QED BY <1>1, <1>2, <1>3, <1>4, <1>5, <1>6 DEF Next, Worker, Runtime

(* ... and it starts with a name nobody has claimed and an empty tenancy.  *)
LEMMA RefinementInit == Init => Contract!Init
<1> SUFFICES ASSUME Init PROVE Contract!Init
  OBVIOUS
<1>1. current = NoObject
  BY DEF Init, RuntimeInit, current, Stored
<1>2. ClaimOf(NoObject) = [uid |-> 0, live |-> FALSE, deleting |-> FALSE, fin |-> FALSE,
                           id |-> NoID]
  BY DEF ClaimOf, NoObject
<1>3. CloudOf(lists) = [i \in ListIDs |-> [is |-> "none", uid |-> 0]]
  BY Seen DEF Init, CloudOf
<1> QED BY <1>1, <1>2, <1>3 DEF Contract!Init

(* Stale reads, conflicts, lost answers, retries and restarts amount to    *)
(* steps decided on the resource as it is stored.                          *)
THEOREM Refinement == Spec => ImplementsManagedResource
<1>1. IInv /\ [Next]_vars => [Contract!Next]_(Contract!cvars)
  <2> SUFFICES ASSUME IInv, [Next]_vars PROVE ContractStep
    BY DEF ContractStep
  <2>1. TypeOK'
    BY TypeStep DEF IInv
  <2> QED BY <2>1, RefinementStep
<1> QED BY <1>1, RefinementInit, InvCorrect, PTL
       DEF Spec, ImplementsManagedResource, Contract!Spec

-----------------------------------------------------------------------------
(* Changes, faults and crashes so far.                                     *)
Spent == (MaxInterventions - interventions) + (MaxFaults - faults)

(* Somebody has changed the resource since the handler's copy of it was    *)
(* written: the write of the list's ID is bound to fail.                   *)
Outdated == pc \in {"create", "record"} /\ obj.rv # current.rv

(* The recorded list, or the one about to be, has other rules than the     *)
(* generation of its resource.                                             *)
Stale ==
    \/ current.id # NoID /\ lists[current.id].gen # current.gen
    \/ pc = "record" /\ lists[obj.id].gen # obj.gen

(* The inductive strengthening: an ID that is bound to be lost has been    *)
(* paid for already, by the change that outdated the handler's copy, and   *)
(* so have rules that are out of date, noticed or not.                     *)
Owed == Outdated \/ Stale

PaidFor ==
    /\ IsFiniteSet(Orphans)
    /\ Cardinality(Orphans) + (IF Owed THEN 1 ELSE 0) <= Spent

-----------------------------------------------------------------------------
(* The budgets are numbers.                                                *)
LEMMA SpentType ==
  ASSUME TypeOK, TypeOK'
  PROVE  Spent \in Int /\ Spent' \in Int
BY BoundsAssumption DEF TypeOK, Spent

(* A step that orphans nothing.                                            *)
LEMMA NoneOrphaned ==
  ASSUME TypeOK, TypeOK', PaidFor, Orphans' \subseteq Orphans, Spent <= Spent',
         Owed' => Owed \/ Spent < Spent'
  PROVE  PaidFor'
<1>1. IsFiniteSet(Orphans') /\ Cardinality(Orphans') <= Cardinality(Orphans)
  BY FS_Subset DEF PaidFor
<1>2. Cardinality(Orphans) \in Nat /\ Cardinality(Orphans') \in Nat
  BY <1>1, FS_CardinalityType DEF PaidFor
<1> QED BY <1>1, <1>2, SpentType DEF PaidFor

(* A step that orphans one list: it is paid for now, or has been.          *)
LEMMA OneOrphaned ==
  ASSUME TypeOK, TypeOK', PaidFor, NEW i, Orphans' \subseteq Orphans \cup {i},
         Spent <= Spent', Owed' => Owed, (Owed /\ ~Owed') \/ Spent < Spent'
  PROVE  PaidFor'
<1>0. IsFiniteSet(Orphans) /\ Cardinality(Orphans) \in Nat
  BY FS_CardinalityType DEF PaidFor
<1>1. /\ IsFiniteSet(Orphans \cup {i})
      /\ Cardinality(Orphans \cup {i}) <= Cardinality(Orphans) + 1
  <2>1. /\ IsFiniteSet(Orphans \cup {i})
        /\ Cardinality(Orphans \cup {i}) =
             IF i \in Orphans THEN Cardinality(Orphans) ELSE Cardinality(Orphans) + 1
    BY <1>0, FS_AddElement, Zenon
  <2> QED BY <1>0, <2>1
<1>2. IsFiniteSet(Orphans') /\ Cardinality(Orphans') <= Cardinality(Orphans \cup {i})
  BY <1>1, FS_Subset
<1>3. Cardinality(Orphans') \in Nat /\ Cardinality(Orphans \cup {i}) \in Nat
  BY <1>1, <1>2, FS_CardinalityType
<1> QED BY <1>0, <1>1, <1>2, <1>3, SpentType DEF PaidFor

-----------------------------------------------------------------------------
(* A list is orphaned by the creation of it, or while a handler is about   *)
(* to record it; a resource that records it never lets go of it.           *)
LEMMA NewOrphan ==
  ASSUME IInv, [Next]_vars, NEW i \in ListIDs, i \in Orphans', i \notin Orphans
  PROVE  CreateList \/ (pc = "record" /\ obj.id = i)
<1>0. /\ Sound(current, lists) /\ StoreStep /\ current \in Objects
      /\ lists \in [ListIDs -> ListRecord]
  BY InvStep, StoreTyped DEF IInv
<1>1. lists'[i].state \notin {"NONE"} \cup Ending /\ current'.id # i
  BY DEF Orphans
<1>2. lists[i].state \notin Ending
  BY <1>0, <1>1 DEF StoreStep, OCIKeeps
<1>3. CASE lists[i].state = "NONE"
  BY <1>1, <1>3, OnlyCreate
<1>4. CASE lists[i].state # "NONE"
  <2>1. current.id # i
    <3> SUFFICES ASSUME current.id = i PROVE FALSE
      OBVIOUS
    <3>1. i # NoID
      BY ListIDAssumption
    <3>2. current.live
      BY <1>0, <1>2, <3>1 DEF Sound
    <3> QED BY <1>0, <1>1, <3>1, <3>2 DEF StoreStep, Evolves
  <2> QED BY <1>2, <1>4, <2>1 DEF Orphans
<1> QED BY <1>3, <1>4

(* What is left of two budgets shrinks, what is spent of them grows.       *)
LEMMA SpentSum ==
  ASSUME NEW a \in Nat, NEW b \in Nat, NEW i \in Nat, NEW f \in Nat,
         NEW j \in Nat, NEW g \in Nat, j <= i, g <= f
  PROVE  (a - i) + (b - f) <= (a - j) + (b - g)
OBVIOUS

(* No step gives back what has been spent.                                 *)
LEMMA SpentGrows ==
  ASSUME TypeOK, TypeOK', [Next]_vars
  PROVE  Spent <= Spent'
<1>1. interventions' = interventions \/ interventions' = interventions - 1
  <2>1. CASE Worker \/ Restart \/ UNCHANGED vars
    BY <2>1 DEF Worker, ReconcileNothing, HandleDeletion, EnsureFinalizer, ReconcilePolicy,
                AddFinalizer, DeleteList, RemoveFinalizer, MarkCreating, CreateList,
                RecordList, GetList, SyncStatus, Refetch, SetFailed, Write,
                Restart, RuntimeRestart, vars
  <2>2. CASE Cloud
    BY <2>2 DEF Cloud, Progress, Purge, Console, Intervention
  <2>3. CASE Runtime
    BY <2>3 DEF Runtime, Deliver, TimerFires, Resync, Users, Create, EditSpec, Touch,
                Delete, ReleaseHold, Intervention
  <2> QED BY <2>1, <2>2, <2>3 DEF Next
<1>2. faults' = faults \/ faults' = faults - 1
  <2>1. \A o : Writes(o) \/ WriteFails(o) => faults' = faults \/ faults' = faults - 1
    BY DEF Writes, WriteFails, Fault
  <2>2. CASE \/ AddFinalizer \/ RemoveFinalizer \/ MarkCreating \/ RecordList
             \/ SyncStatus \/ SetFailed
    BY <2>1, <2>2 DEF AddFinalizer, RemoveFinalizer, MarkCreating, RecordList,
                      SyncStatus, SetFailed, Write
  <2>3. CASE \/ ReconcileNothing \/ HandleDeletion \/ EnsureFinalizer \/ ReconcilePolicy
             \/ Refetch \/ UNCHANGED vars
    BY <2>3 DEF ReconcileNothing, HandleDeletion, EnsureFinalizer, ReconcilePolicy, Refetch,
                Fault, vars
  <2>5. CASE DeleteList \/ CreateList \/ GetList \/ Restart
    <3>1. Fault => faults' = faults - 1
      BY DEF Fault
    <3>2. CASE DeleteList \/ GetList \/ Restart
      BY <3>1, <3>2, Zenon DEF DeleteList, GetList, Restart, RuntimeRestart
    <3>3. CASE CreateList
      BY <3>1, <3>3, Zenon DEF CreateList
    <3> QED BY <2>5, <3>2, <3>3
  <2>4. CASE Cloud \/ Runtime
    BY <2>4 DEF Cloud, Progress, Purge, Console, Runtime, Deliver, TimerFires, Resync, Users
  <2> QED BY <2>2, <2>3, <2>4, <2>5 DEF Next, Worker
<1>3. /\ interventions \in Nat /\ interventions' \in Nat /\ faults \in Nat /\ faults' \in Nat
      /\ MaxInterventions \in Nat /\ MaxFaults \in Nat
  BY BoundsAssumption DEF TypeOK
<1>4. interventions' <= interventions /\ faults' <= faults
  BY <1>1, <1>2, <1>3
<1> QED BY <1>3, <1>4, SpentSum DEF Spent

-----------------------------------------------------------------------------
(* The creation: its list is in the handler's hands, with the rules of the *)
(* spec that was asked for, or the answer was lost to a fault.             *)
LEMMA CreatePays ==
  ASSUME IInv, TypeOK', [Next]_vars, PaidFor, CreateList
  PROVE  PaidFor'
<1>0. TypeOK /\ obj \in Objects /\ lists \in [ListIDs -> ListRecord]
  BY StoreTyped DEF IInv
<1>1. /\ pc = "create" /\ UNCHANGED <<versions, interventions>>
      /\ current' = current /\ current.id = NoID
  BY DEF CreateList, current, IInv, HandCreates
<1>2. Orphans = {i \in ListIDs : /\ lists[i].state \notin {"NONE"} \cup Ending
                                     /\ current.id # i}
  BY <1>1 DEF Orphans
<1>3. CASE pc' = "record"
  <2>1. PICK i \in ListIDs :
          /\ obj' = Recorded(obj, i)
          /\ lists' = [lists EXCEPT ![i] = [state |-> "PROVISIONING", uid |-> obj.uid,
                                        gen |-> obj.gen]]
          /\ UNCHANGED faults
    BY <1>3 DEF CreateList, Proceed, GiveUp
  <2>2. obj'.id = i /\ obj'.rv = obj.rv
    BY <1>0, <2>1 DEF Recorded, SetObservedGeneration, Objects, Object
  <2>5. obj'.gen = obj.gen /\ lists'[i].gen = obj.gen
    BY <1>0, <2>1 DEF Recorded, SetObservedGeneration, Objects, Object
  <2>3. Orphans' \subseteq Orphans
    <3> SUFFICES ASSUME NEW j \in ListIDs, j \in Orphans' PROVE j \in Orphans
      BY DEF Orphans
    <3>1. j # i /\ lists'[j] = lists[j]
      BY <1>0, <1>3, <2>1, <2>2 DEF Orphans
    <3> QED BY <1>1, <1>2, <3>1 DEF Orphans
  <2>4. Spent' = Spent /\ (Owed' => Owed)
    BY <1>1, <2>1, <2>2, <2>5 DEF Spent, Owed, Outdated, Stale
  <2> QED BY <1>0, <2>3, <2>4, NoneOrphaned, SpentType
<1>4. CASE pc' = "refetch"
  <2>1. ~Owed'
    BY <1>1, <1>4 DEF Owed, Outdated, Stale
  <2>2. CASE UNCHANGED lists
    <3>1. Orphans' \subseteq Orphans
      BY <1>1, <1>2, <1>4, <2>2 DEF Orphans
    <3> QED BY <1>0, <2>1, <3>1, SpentGrows, NoneOrphaned
  <2>3. CASE lists' # lists
    <3>1. PICK i \in ListIDs :
            /\ lists' = [lists EXCEPT ![i] = [state |-> "PROVISIONING", uid |-> obj.uid,
                                          gen |-> obj.gen]]
            /\ Fault
      BY <1>4, <2>3 DEF CreateList, Proceed
    <3>2. Orphans' \subseteq Orphans \cup {i}
      BY <1>0, <1>1, <1>2, <3>1 DEF Orphans
    <3>3. Spent < Spent'
      BY <1>0, <1>1, <3>1, BoundsAssumption DEF Spent, TypeOK, Fault
    <3> QED BY <1>0, <2>1, <3>2, <3>3, OneOrphaned, SpentType
  <2> QED BY <2>2, <2>3
<1> QED BY <1>3, <1>4 DEF CreateList, Proceed, GiveUp

(* The record of the ID: it succeeds, or fails for a reason paid for.      *)
LEMMA RecordPays ==
  ASSUME IInv, TypeOK', [Next]_vars, PaidFor, RecordList
  PROVE  PaidFor'
<1>0. TypeOK /\ obj \in Objects /\ current \in Objects
  BY StoreTyped DEF IInv
<1>1. pc = "record" /\ pc' = "idle" /\ UNCHANGED interventions
  BY DEF RecordList, Write, WriteFails, Return
<1>2. /\ current.live /\ current.id = NoID /\ obj.id # NoID
  BY <1>1 DEF IInv, HandCreates
<1>3. UNCHANGED lists /\ ~Outdated'
  BY <1>1 DEF RecordList, Write, Outdated
<1>4. Orphans' \subseteq Orphans \cup {obj.id}
  BY <1>1, NewOrphan DEF CreateList, Orphans
<1>7. Writes(obj) \/ WriteFails(obj)
  BY DEF RecordList, Write
<1>8. /\ current'.id # NoID => current'.id = obj.id /\ current'.gen = obj.gen
      /\ versions' = versions => current' = current
  <2>1. CASE versions' = versions
    BY <1>2, <2>1 DEF current
  <2>2. CASE versions' # versions
    <3>1. current' = [obj EXCEPT !.rv = current.rv + 1, !.live = ~Gone(obj)]
      BY <1>0, <1>7, <2>2, WriteStore
    <3> QED BY <1>0, <2>2, <3>1 DEF Objects, Object
  <2> QED BY <2>1, <2>2
<1>9. Owed' => Owed
  BY <1>1, <1>3, <1>8 DEF Owed, Stale
<1>5. CASE Writes(obj)
  <2>1. current'.id = obj.id
    <3>1. \/ versions' = versions
          \/ /\ versions' = NewVersion(versions, obj)
             /\ current' = [obj EXCEPT !.rv = current.rv + 1, !.live = ~Gone(obj)]
      BY <1>0, <1>5, WriteStore
    <3>2. versions' = versions => obj = current
      BY <1>0, <1>5, WriteStore
    <3> QED BY <1>0, <1>2, <3>1, <3>2 DEF Objects, Object
  <2>2. Orphans' \subseteq Orphans
    BY <1>4, <2>1 DEF Orphans
  <2>3. Spent' = Spent
    BY <1>1, <1>5 DEF Writes, Spent
  <2> QED BY <1>0, <1>9, <2>2, <2>3, NoneOrphaned, SpentType
<1>6. CASE WriteFails(obj)
  <2>1. CASE Fault
    <3>1. Spent < Spent'
      BY <1>0, <1>1, <2>1, BoundsAssumption DEF Spent, TypeOK, Fault
    <3> QED BY <1>0, <1>4, <1>9, <3>1, OneOrphaned, SpentType
  <2>2. CASE ~Accepts(versions, obj) /\ UNCHANGED <<versions, faults>>
    <3>1. Outdated
      BY <1>1, <1>2, <2>2 DEF Outdated, Accepts, current
    <3>2. Spent' = Spent
      BY <1>1, <2>2 DEF Spent
    <3>3. ~Owed'
      BY <1>1, <1>2, <1>3, <1>8, <2>2 DEF Owed, Stale
    <3> QED BY <1>0, <1>4, <3>1, <3>2, <3>3, OneOrphaned, SpentType DEF Owed
  <2> QED BY <1>6, <2>1, <2>2 DEF WriteFails
<1> QED BY <1>5, <1>6 DEF RecordList, Write

(* A crash loses the ID in the handler's hands, and is itself a fault.     *)
LEMMA RestartPays ==
  ASSUME IInv, TypeOK', [Next]_vars, PaidFor, Restart
  PROVE  PaidFor'
<1>0. TypeOK
  BY DEF IInv
<1>1. pc' = "idle" /\ Fault /\ UNCHANGED <<interventions, lists, versions>>
  BY DEF Restart, RuntimeRestart
<1>2. Owed' => Owed
  BY <1>1 DEF Owed, Outdated, Stale, current
<1>3. Orphans' \subseteq Orphans \cup {obj.id}
  BY <1>1 DEF Orphans, current
<1>4. Spent < Spent'
  BY <1>0, <1>1, BoundsAssumption DEF Spent, TypeOK, Fault
<1> QED BY <1>0, <1>2, <1>3, <1>4, OneOrphaned, SpentType

(* A new incarnation records no list.                                      *)
LEMMA CreatedUnbound ==
  ASSUME TypeOK, Create
  PROVE  current'.id = NoID
<1>1. PICK h \in BOOLEAN : versions' = NewVersion(versions, Created(current, h))
  BY DEF Create, current
<1>2. current \in Objects /\ Created(current, h) \in Objects
  BY StoreTyped, CopyType
<1>3. Created(current, h).id = NoID
  BY DEF Created, NoObject
<1>4. current' = [Created(current, h) EXCEPT !.rv = current.rv + 1,
                                             !.live = ~Gone(Created(current, h))]
  BY <1>1, <1>2, NewStored
<1> QED BY <1>2, <1>3, <1>4 DEF Objects, Object

(* The IDs a resource records and a handler holds are OCI's.               *)
LEMMA HeldIDs ==
  ASSUME IInv
  PROVE  /\ current.id # NoID => current.id \in ListIDs
         /\ pc = "record" => obj.id \in ListIDs
BY StoreTyped DEF IInv, HandCreates, Objects, Object

(* While the worker stands still only users outdate its copy or a list's   *)
(* rules, by a change that is counted.                                     *)
LEMMA WorldPays ==
  ASSUME IInv, TypeOK', [Next]_vars, PaidFor,
         \/ ReconcileNothing \/ Cloud \/ UNCHANGED vars
         \/ Runtime /\ UNCHANGED <<attempt, client, lists>>
  PROVE  PaidFor'
<1>0. TypeOK /\ versions \in Streams /\ lists \in [ListIDs -> ListRecord]
  BY StoreTyped DEF IInv
<1>1. UNCHANGED <<pc, obj>>
  BY DEF ReconcileNothing, Cloud, Progress, Purge, Console, Runtime, Deliver, TimerFires,
         Resync, Users, workerVars, vars
<1>2. Orphans' \subseteq Orphans
  <2> SUFFICES ASSUME NEW i \in ListIDs, i \in Orphans', i \notin Orphans
               PROVE  FALSE
    BY DEF Orphans
  <2>1. (pc = "record" /\ obj.id = i) \/ CreateList
    BY NewOrphan
  <2>2. ~CreateList
    BY <1>1 DEF CreateList, Proceed, GiveUp
  <2> QED BY <1>1, <2>1, <2>2 DEF Orphans
<1>3. CASE Users /\ UNCHANGED lists
  <2>1. UNCHANGED faults
    BY <1>3 DEF Users
  <2>2. CASE Create
    <3>1. ~current.live /\ ~(pc \in {"create", "record"})
      BY <2>2 DEF Create, current, IInv, HandCreates
    <3>2. current'.id = NoID
      BY <1>0, <2>2, CreatedUnbound
    <3>3. ~Owed'
      BY <1>1, <3>1, <3>2 DEF Owed, Outdated, Stale
    <3> QED BY <1>0, <1>2, <3>3, SpentGrows, NoneOrphaned
  <2>3. CASE Intervention
    <3>1. Spent < Spent'
      BY <1>0, <2>1, <2>3, BoundsAssumption DEF Spent, TypeOK, Intervention
    <3> QED BY <1>0, <1>2, <3>1, SpentGrows, NoneOrphaned
  <2> QED BY <1>3, <2>2, <2>3 DEF Users, EditSpec, Touch, Delete, ReleaseHold
<1>4. CASE Cloud
  <2>1. PICK i \in ListIDs : Progress(i) \/ Purge(i) \/ Console(i)
    BY <1>4 DEF Cloud
  <2>2. UNCHANGED <<versions, faults>> /\ current' = current
    BY <2>1 DEF Progress, Purge, Console, current
  <2>3. CASE Console(i)
    <3>1. Spent < Spent'
      BY <1>0, <2>2, <2>3, BoundsAssumption DEF Spent, TypeOK, Console, Intervention
    <3> QED BY <1>0, <1>2, <3>1, SpentGrows, NoneOrphaned
  <2>4. CASE Progress(i) \/ Purge(i)
    <3>1. \A j \in ListIDs : lists'[j].gen = lists[j].gen
      BY <1>0, <2>4 DEF Progress, Purge, ListRecord
    <3>2. Owed' => Owed
      BY <1>0, <1>1, <2>2, <3>1, HeldIDs DEF Owed, Outdated, Stale
    <3> QED BY <1>0, <1>2, <3>2, SpentGrows, NoneOrphaned
  <2> QED BY <2>1, <2>3, <2>4
<1>5. CASE \/ ReconcileNothing \/ UNCHANGED vars
           \/ (Deliver \/ TimerFires \/ Resync) /\ UNCHANGED lists
  <2>1. UNCHANGED lists
    BY <1>5 DEF ReconcileNothing, vars
  <2>2. current' = current
    <3>1. Deliver => current' = current
      BY <1>0, TailStream DEF Deliver, current
    <3>2. ReconcileNothing \/ TimerFires \/ Resync \/ UNCHANGED vars => UNCHANGED versions
      BY DEF ReconcileNothing, TimerFires, Resync, vars
    <3> QED BY <1>5, <3>1, <3>2 DEF current
  <2>3. Owed' => Owed
    BY <1>1, <2>1, <2>2 DEF Owed, Outdated, Stale
  <2> QED BY <1>0, <1>2, <2>3, SpentGrows, NoneOrphaned
<1> QED BY <1>3, <1>4, <1>5 DEF Runtime

(* Work that is neither the creation nor the record of it orphans nothing, *)
(* and the creation begins with an up-to-date copy.                        *)
LEMMA WorkPays ==
  ASSUME IInv, TypeOK', [Next]_vars, PaidFor,
         \/ HandleDeletion \/ EnsureFinalizer \/ ReconcilePolicy
         \/ AddFinalizer \/ DeleteList \/ RemoveFinalizer
         \/ MarkCreating \/ GetList \/ SyncStatus
         \/ (Refetch \/ SetFailed) /\ UNCHANGED <<client, lists>>
  PROVE  PaidFor'
<1>0. TypeOK /\ lists \in [ListIDs -> ListRecord]
  BY StoreTyped DEF IInv
<1>1. pc \notin {"create", "record"}
  BY DEF HandleDeletion, EnsureFinalizer, ReconcilePolicy, Dequeue, AddFinalizer,
         DeleteList, RemoveFinalizer, MarkCreating, GetList, SyncStatus, Refetch,
         SetFailed, Write
<1>2. ~Outdated'
  <2>1. CASE MarkCreating
    BY <2>1 DEF MarkCreating, Write, WriteFails, Return, Proceed, Outdated, current
  <2>2. CASE AddFinalizer \/ RemoveFinalizer \/ SyncStatus \/ SetFailed
    BY <2>2 DEF AddFinalizer, RemoveFinalizer, SyncStatus, SetFailed, Write, WriteFails,
                Return, Outdated
  <2>3. CASE \/ HandleDeletion \/ EnsureFinalizer \/ ReconcilePolicy \/ DeleteList
             \/ GetList \/ Refetch
    BY <2>3 DEF HandleDeletion, EnsureFinalizer, ReconcilePolicy, DeleteList, GetList,
                Refetch, Return, Proceed, Outdated
  <2> QED BY <2>1, <2>2, <2>3
<1>3. Orphans' \subseteq Orphans
  <2> SUFFICES ASSUME NEW i \in ListIDs, i \in Orphans', i \notin Orphans
               PROVE  FALSE
    BY DEF Orphans
  <2> QED BY <1>1, NewOrphan DEF CreateList
<1>4. \A i \in ListIDs : lists'[i].gen = lists[i].gen
  <2>1. CASE DeleteList
    <3>1. \/ lists' = lists
          \/ lists' = [lists EXCEPT ![obj.id].state = "TERMINATING"]
      BY <2>1 DEF DeleteList, Deletes
    <3> QED BY <1>0, <3>1 DEF ListRecord
  <2>2. CASE UNCHANGED lists
    BY <2>2
  <2>3. DeleteList \/ UNCHANGED lists
    BY DEF HandleDeletion, EnsureFinalizer, ReconcilePolicy, AddFinalizer, RemoveFinalizer,
           MarkCreating, GetList, SyncStatus, Write
  <2> QED BY <2>1, <2>2, <2>3
<1>5. current'.id = current.id /\ current'.gen = current.gen
  <2>1. ~RecordList
    BY <1>1 DEF RecordList, Write
  <2> QED BY <2>1, WorkKeeps DEF Worker
<1>6. pc' # "record"
  BY DEF HandleDeletion, EnsureFinalizer, ReconcilePolicy, AddFinalizer, DeleteList,
         RemoveFinalizer, MarkCreating, GetList, SyncStatus, Refetch, SetFailed, Write,
         WriteFails, Return, Proceed
<1>7. Owed' => Owed
  BY <1>2, <1>4, <1>5, <1>6, HeldIDs DEF Owed, Stale
<1> QED BY <1>0, <1>3, <1>7, SpentGrows, NoneOrphaned

-----------------------------------------------------------------------------
(* Nothing is orphaned at the start, and every step is accounted for.      *)
LEMMA PaidInit == Init => PaidFor
<1> SUFFICES ASSUME Init PROVE PaidFor
  OBVIOUS
<1>1. current.id = NoID
  BY DEF Init, RuntimeInit, current, Stored, NoObject
<1>2. Orphans = {} /\ ~Owed /\ Spent = 0
  BY <1>1, BoundsAssumption DEF Init, RuntimeInit, Orphans, Owed, Outdated, Stale, Spent
<1> QED BY <1>2, FS_EmptySet DEF PaidFor

LEMMA PaidStep ==
  ASSUME IInv, [Next]_vars, PaidFor
  PROVE  PaidFor'
<1>1. TypeOK'
  BY TypeStep DEF IInv
<1> QED BY <1>1, CreatePays, RecordPays, RestartPays, WorldPays, WorkPays DEF Next, Worker

(* However many incarnations, retries and restarts there are, the lists    *)
(* nobody will ever delete are at most as many as the changes, faults and  *)
(* crashes that there were, one fewer while the status is wrong about the  *)
(* rules of the recorded list.                                             *)
THEOREM OrphansAndDriftArePaidForCorrect == Spec => []OrphansAndDriftArePaidFor
<1>1. IInv /\ PaidFor => OrphansAndDriftArePaidFor
  <2> SUFFICES ASSUME TypeOK, PaidFor PROVE OrphansAndDriftArePaidFor
    BY DEF IInv
  <2>1. Cardinality(Orphans) \in Nat
    BY FS_CardinalityType DEF PaidFor
  <2>2. Drifted => Owed
    BY DEF Drifted, Owed, Stale
  <2> QED BY <2>1, <2>2, BoundsAssumption
          DEF PaidFor, OrphansAndDriftArePaidFor, Spent, TypeOK
<1> QED BY <1>1, PaidInit, PaidStep, InvCorrect, PTL DEF Spec
=============================================================================
