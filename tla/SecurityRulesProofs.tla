------------------------ MODULE SecurityRulesProofs ------------------------
(***************************************************************************)
(* Proofs about convertRules, for rule lists of any length over any CIDRs  *)
(* and ports.                                                              *)
(***************************************************************************)
EXTENDS SecurityRulesProperties, FiniteSetTheorems, TLAPS

-----------------------------------------------------------------------------
(* A request for a well-formed rule is well-formed.                        *)
LEMMA ConvertedType ==
  ASSUME NEW r \in SecurityRule
  PROVE  /\ RemoteEnd(r) \in CIDRs
         /\ Converted(r, RemoteEnd(r)) \in OCIRule
BY DEF SecurityRule, OCIRule, RemoteEnd, Converted, TCPOptions

(* The rules of a direction are finitely many.                             *)
LEMMA GivenFinite ==
  ASSUME NEW direction, NEW n \in Nat
  PROVE  IsFiniteSet(Given(rules, direction, n)) /\ Cardinality(Given(rules, direction, n)) \in Nat
<1>1. IsFiniteSet(1 .. n)
  BY FS_Interval
<1>2. Given(rules, direction, n) \subseteq 1 .. n
  BY DEF Given
<1> QED BY <1>1, <1>2, FS_Subset, FS_CardinalityType

(* One more rule counts in its own direction only.                         *)
LEMMA GivenNext ==
  ASSUME NEW direction, NEW n \in Nat \ {0}
  PROVE  IF rules[n].direction = direction
         THEN /\ Given(rules, direction, n) = Given(rules, direction, n - 1) \cup {n}
              /\ Cardinality(Given(rules, direction, n)) = Cardinality(Given(rules, direction, n - 1)) + 1
         ELSE Given(rules, direction, n) = Given(rules, direction, n - 1)
<1>1. CASE rules[n].direction = direction
  <2>1. Given(rules, direction, n) = Given(rules, direction, n - 1) \cup {n}
    BY <1>1 DEF Given
  <2>2. n \notin Given(rules, direction, n - 1) /\ n - 1 \in Nat
    BY DEF Given
  <2>3. IsFiniteSet(Given(rules, direction, n - 1))
    BY <2>2, GivenFinite
  <2>4. Cardinality(Given(rules, direction, n - 1) \cup {n}) = Cardinality(Given(rules, direction, n - 1)) + 1
    BY <2>2, <2>3, FS_AddElement
  <2> QED BY <1>1, <2>1, <2>4
<1>2. CASE rules[n].direction # direction
  BY <1>2 DEF Given
<1> QED BY <1>1, <1>2

-----------------------------------------------------------------------------
(* The loop's two branches, for the list a rule goes to ...                *)
LEMMA Appended ==
  ASSUME TypeOK, next <= Len(rules),
         NEW direction, NEW list \in Seq(OCIRule), NEW new,
         rules[next].direction = direction,
         Holds(list, rules, direction, next - 1),
         new = Append(list, Request(rules[next]))
  PROVE  new \in Seq(OCIRule) /\ Holds(new, rules, direction, next)
<1> DEFINE past == Given(rules, direction, next - 1)
           count == Cardinality(past)
<1>1. next \in Nat \ {0} /\ next \in 1 .. Len(rules) /\ rules[next] \in SecurityRule
  BY DEF TypeOK
<1>2. /\ Given(rules, direction, next) = past \cup {next}
      /\ Cardinality(Given(rules, direction, next)) = count + 1
  BY <1>1, GivenNext
<1>3. /\ Len(list) = count /\ count \in Nat
      /\ \A k \in past : /\ Cardinality(Given(rules, direction, k)) \in 1 .. Len(list)
                         /\ list[Cardinality(Given(rules, direction, k))] = Request(rules[k])
      /\ \A at \in 1 .. Len(list) : \E k \in past : list[at] = Request(rules[k])
  BY <1>1, GivenFinite DEF Holds
<1> HIDE DEF past, count
<1>4. /\ new \in Seq(OCIRule) /\ Len(new) = count + 1 /\ new[count + 1] = Request(rules[next])
      /\ \A at \in 1 .. count : new[at] = list[at]
  <2>1. Request(rules[next]) \in OCIRule
    BY <1>1, ConvertedType DEF Request
  <2> QED BY <1>3, <2>1
<1>5. ASSUME NEW k \in Given(rules, direction, next)
      PROVE  /\ Cardinality(Given(rules, direction, k)) \in 1 .. Len(new)
             /\ new[Cardinality(Given(rules, direction, k))] = Request(rules[k])
  <2>1. CASE k = next
    <3>1. Cardinality(Given(rules, direction, k)) = count + 1
      BY <1>2, <2>1
    <3> QED BY <1>3, <1>4, <2>1, <3>1
  <2>2. CASE k \in past
    BY <1>3, <1>4, <2>2
  <2> QED BY <1>2, <1>5, <2>1, <2>2
<1>6. ASSUME NEW at \in 1 .. Len(new)
      PROVE  \E k \in Given(rules, direction, next) : new[at] = Request(rules[k])
  <2>1. CASE at = count + 1
    BY <1>2, <1>4, <2>1
  <2>2. CASE at \in 1 .. count
    BY <1>2, <1>3, <1>4, <2>2
  <2> QED BY <1>3, <1>4, <1>6, <2>1, <2>2
<1> QED BY <1>2, <1>4, <1>5, <1>6 DEF Holds

(* ... and for the other.                                                  *)
LEMMA Passed ==
  ASSUME TypeOK, NEW direction, NEW list,
         rules[next].direction # direction, Holds(list, rules, direction, next - 1)
  PROVE  Holds(list, rules, direction, next)
<1>1. next \in Nat \ {0}
  BY DEF TypeOK
<1>2. Given(rules, direction, next) = Given(rules, direction, next - 1)
  BY <1>1, GivenNext
<1> QED BY <1>2 DEF Holds

(* Every turn of the loop keeps the invariant ...                          *)
LEMMA LoopStep ==
  ASSUME IInv, [Next]_vars
  PROVE  IInv'
<1>0. TypeOK /\ next \in 1 .. Len(rules) + 1 /\ Len(rules) \in Nat
  BY DEF IInv, TypeOK
<1>1. CASE ConvertIngress
  <2>1. /\ next <= Len(rules) /\ rules[next].direction = "INGRESS"
        /\ ingressRules' = Append(ingressRules, Request(rules[next]))
        /\ next' = next + 1 /\ rules' = rules /\ egressRules' = egressRules
    BY <1>1 DEF ConvertIngress, Request, RemoteEnd, IsIngress
  <2>2. ingressRules' \in Seq(OCIRule) /\ Holds(ingressRules', rules, "INGRESS", next)
    BY <1>0, <2>1, Appended DEF IInv, TypeOK
  <2>3. Holds(egressRules', rules, "EGRESS", next)
    BY <1>0, <2>1, Passed DEF IInv
  <2>4. TypeOK'
    BY <1>0, <2>1, <2>2 DEF TypeOK
  <2>5. next' - 1 = next
    BY <1>0, <2>1
  <2> QED BY <2>1, <2>2, <2>3, <2>4, <2>5 DEF IInv
<1>2. CASE ConvertEgress
  <2>1. /\ next <= Len(rules) /\ rules[next].direction = "EGRESS"
        /\ egressRules' = Append(egressRules, Request(rules[next]))
        /\ next' = next + 1 /\ rules' = rules /\ ingressRules' = ingressRules
    <3>1. next <= Len(rules) /\ rules[next].direction # "INGRESS"
      BY <1>2 DEF ConvertEgress
    <3>2. rules[next] \in SecurityRule
      BY <1>0, <3>1 DEF TypeOK
    <3>3. rules[next].direction = "EGRESS"
      BY <3>1, <3>2 DEF SecurityRule
    <3> QED BY <1>2, <3>1, <3>3 DEF ConvertEgress, Request, RemoteEnd, IsIngress
  <2>2. egressRules' \in Seq(OCIRule) /\ Holds(egressRules', rules, "EGRESS", next)
    BY <1>0, <2>1, Appended DEF IInv, TypeOK
  <2>3. Holds(ingressRules', rules, "INGRESS", next)
    BY <1>0, <2>1, Passed DEF IInv
  <2>4. TypeOK'
    BY <1>0, <2>1, <2>2 DEF TypeOK
  <2>5. next' - 1 = next
    BY <1>0, <2>1
  <2> QED BY <2>1, <2>2, <2>3, <2>4, <2>5 DEF IInv
<1>3. CASE UNCHANGED vars
  BY <1>3 DEF vars, IInv, TypeOK
<1> QED BY <1>1, <1>2, <1>3 DEF Next

(* ... with which it starts.                                               *)
LEMMA LoopInit == Init => IInv
<1> SUFFICES ASSUME Init PROVE IInv
  OBVIOUS
<1>1. PICK n \in 1 .. MaxRules : rules \in [1 .. n -> SecurityRule]
  BY DEF Init
<1>2. TypeOK
  BY <1>1, PortAssumption DEF Init, TypeOK
<1>3. next - 1 = 0
  BY DEF Init
<1>4. \A direction : Given(rules, direction, next - 1) = {}
  BY <1>3 DEF Given
<1>5. \A direction : Holds(<<>>, rules, direction, next - 1)
  BY <1>4, FS_EmptySet DEF Holds
<1> QED BY <1>2, <1>5 DEF Init, IInv

(* At every turn of the loop each list holds the requests for the rules of *)
(* its direction so far, in their order, and no others.                    *)
THEOREM InvCorrect == Spec => []IInv
BY LoopInit, LoopStep, PTL DEF Spec

(* The loop's index never leaves the rules, and the lists hold requests.   *)
THEOREM TypeCorrect == Spec => []TypeOK
BY InvCorrect, PTL DEF IInv

-----------------------------------------------------------------------------
(* When the loop ends every rule has its request, at the place its order   *)
(* among the rules of its direction gives it.                              *)
THEOREM KeepsOrderCorrect == Spec => []KeepsOrder
<1>1. IInv => KeepsOrder
  <2> SUFFICES ASSUME IInv, Done PROVE KeepsOrder
    BY DEF KeepsOrder
  <2>1. next - 1 = Len(rules)
    BY DEF IInv, TypeOK, Done
  <2>2. \A r : Request(r).protocol = r.protocol /\ Request(r).peer = RemoteEnd(r)
    BY DEF Request, Converted
  <2> QED BY <2>1, <2>2 DEF IInv, Holds, KeepsOrder
<1> QED BY <1>1, InvCorrect, PTL

(* A request admits what its rule asks for, and nothing else if the rule   *)
(* is complete.                                                            *)
LEMMA RequestAdmits ==
  ASSUME NEW r \in SecurityRule, NEW peer \in CIDRs, NEW packet \in Packets
  PROVE  LET request == Converted(r, peer)
             admits == /\ request.protocol \in {"all", packet.protocol}
                       /\ request.peer = packet.peer
                       /\ packet.protocol = "6" /\ request.min # Unset =>
                            request.min <= packet.port /\ packet.port <= request.max
         IN /\ Asks(r, peer, packet) => admits
            /\ Complete(r) /\ admits => Asks(r, peer, packet)
<1>1. /\ r.minPort \in Nat /\ r.maxPort \in Nat /\ packet.port \in Nat
      /\ r.protocol \in {"6", "17", "all"} /\ packet.protocol \in {"6", "17"}
  <2>1. /\ r.minPort \in Ports \cup {0} /\ r.maxPort \in Ports \cup {0}
        /\ packet.port \in Ports
        /\ r.protocol \in {"6", "17", "all"} /\ packet.protocol \in {"6", "17"}
    BY DEF SecurityRule, Packets, Unset
  <2>2. Ports \cup {0} \subseteq Nat
    BY PortAssumption
  <2> QED BY <2>1, <2>2
<1>2. /\ Converted(r, peer).protocol = r.protocol /\ Converted(r, peer).peer = peer
      /\ IF r.minPort # Unset /\ r.maxPort # Unset
         THEN Converted(r, peer).min = r.minPort /\ Converted(r, peer).max = r.maxPort
         ELSE Converted(r, peer).min = Unset
  BY DEF Converted, TCPOptions
<1> QED BY <1>1, <1>2 DEF Asks, Complete

(* What one list admits, once the loop has ended.                          *)
LEMMA ListAdmits ==
  ASSUME TypeOK, NEW direction, NEW list, Holds(list, rules, direction, Len(rules)),
         NEW packet \in Packets
  PROVE  LET asked == \E k \in Given(rules, direction, Len(rules)) :
                        Asks(rules[k], RemoteEnd(rules[k]), packet)
         IN /\ asked => Admits(list, packet)
            /\ (\A k \in 1 .. Len(rules) : Complete(rules[k])) /\ Admits(list, packet)
                 => asked
<1> DEFINE given == Given(rules, direction, Len(rules))
<1>1. \A k \in given : rules[k] \in SecurityRule /\ k \in 1 .. Len(rules)
  BY DEF TypeOK, Given
<1>2. \A k \in given : RemoteEnd(rules[k]) \in CIDRs
  BY <1>1, ConvertedType
<1>3. ASSUME NEW k \in given, Asks(rules[k], RemoteEnd(rules[k]), packet)
      PROVE  Admits(list, packet)
  <2>1. PICK at \in 1 .. Len(list) : list[at] = Converted(rules[k], RemoteEnd(rules[k]))
    BY DEF Holds, Request
  <2> QED BY <1>1, <1>2, <1>3, <2>1, RequestAdmits DEF Admits
<1>4. ASSUME \A k \in 1 .. Len(rules) : Complete(rules[k]), Admits(list, packet)
      PROVE  \E k \in given : Asks(rules[k], RemoteEnd(rules[k]), packet)
  <2>1. PICK at \in 1 .. Len(list) :
          /\ list[at].protocol \in {"all", packet.protocol}
          /\ list[at].peer = packet.peer
          /\ packet.protocol = "6" /\ list[at].min # Unset =>
               list[at].min <= packet.port /\ packet.port <= list[at].max
    BY <1>4 DEF Admits
  <2>2. PICK k \in given : list[at] = Converted(rules[k], RemoteEnd(rules[k]))
    BY DEF Holds, Request
  <2> QED BY <1>1, <1>2, <1>4, <2>1, <2>2, RequestAdmits
<1> QED BY <1>3, <1>4

(* OCI admits whatever the policy asks for, and, when every rule that      *)
(* gives ports is a TCP rule that gives both, nothing else.                *)
THEOREM AdmitsWhatIsAskedCorrect == Spec => []AdmitsWhatIsAsked
<1>1. IInv => AdmitsWhatIsAsked
  <2> SUFFICES ASSUME IInv, Done, NEW packet \in Packets
               PROVE  LET ingress == \E k \in 1 .. Len(rules) :
                            IsIngress(rules[k]) /\ Asks(rules[k], rules[k].source, packet)
                          egress == \E k \in 1 .. Len(rules) :
                            IsEgress(rules[k]) /\ Asks(rules[k], rules[k].destination, packet)
                      IN /\ ingress => Admits(ingressRules, packet)
                         /\ egress => Admits(egressRules, packet)
                         /\ (\A k \in 1 .. Len(rules) : Complete(rules[k])) =>
                              /\ Admits(ingressRules, packet) => ingress
                              /\ Admits(egressRules, packet) => egress
    BY DEF AdmitsWhatIsAsked
  <2>1. next - 1 = Len(rules)
    BY DEF IInv, TypeOK, Done
  <2>2. /\ Holds(ingressRules, rules, "INGRESS", Len(rules))
        /\ Holds(egressRules, rules, "EGRESS", Len(rules))
    BY <2>1 DEF IInv
  <2>3. \A k \in 1 .. Len(rules) :
          /\ k \in Given(rules, "INGRESS", Len(rules)) <=> IsIngress(rules[k])
          /\ k \in Given(rules, "EGRESS", Len(rules)) <=> IsEgress(rules[k])
          /\ IsIngress(rules[k]) => RemoteEnd(rules[k]) = rules[k].source
          /\ IsEgress(rules[k]) => RemoteEnd(rules[k]) = rules[k].destination
    BY DEF Given, IsIngress, IsEgress, RemoteEnd
  <2>4. \A direction : Given(rules, direction, Len(rules)) \subseteq 1 .. Len(rules)
    BY DEF Given
  <2>5. (\E k \in 1 .. Len(rules) : IsIngress(rules[k]) /\ Asks(rules[k], rules[k].source, packet))
          <=> \E k \in Given(rules, "INGRESS", Len(rules)) :
                Asks(rules[k], RemoteEnd(rules[k]), packet)
    BY <2>3, <2>4
  <2>6. (\E k \in 1 .. Len(rules) : IsEgress(rules[k]) /\ Asks(rules[k], rules[k].destination, packet))
          <=> \E k \in Given(rules, "EGRESS", Len(rules)) :
                Asks(rules[k], RemoteEnd(rules[k]), packet)
    BY <2>3, <2>4
  <2> QED BY <2>2, <2>5, <2>6, ListAdmits DEF IInv
<1> QED BY <1>1, InvCorrect, PTL
=============================================================================
