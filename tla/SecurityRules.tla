--------------------------- MODULE SecurityRules ---------------------------
(***************************************************************************)
(* convertRules: the loop that turns the rules of an OCISecurityPolicy     *)
(* into the ingress and egress rules of the CreateSecurityList request,    *)
(* and what OCI then lets through.                                         *)
(***************************************************************************)
EXTENDS Naturals, Sequences

CONSTANTS CIDRs,    \* sources and destinations
          Ports,    \* ports of rules and of packets
          MaxRules  \* the longest rule list

ASSUME PortAssumption == Ports \subseteq Nat \ {0} /\ MaxRules \in Nat

VARIABLES rules,         \* spec.rules
          next,          \* the index the loop has come to
          ingressRules,  \* the two lists built so far
          egressRules

vars == <<rules, next, ingressRules, egressRules>>

Unset == 0  \* a port that is not given: the CRD's minimum is 1

SecurityRule ==
    [direction: {"INGRESS", "EGRESS"}, protocol: {"6", "17", "all"},
     source: CIDRs, destination: CIDRs,
     minPort: Ports \cup {Unset}, maxPort: Ports \cup {Unset}]

(* An OCI rule: its remote end, and its TCP destination port range, Unset  *)
(* when it has no TCP options.                                             *)
OCIRule ==
    [protocol: {"6", "17", "all"}, peer: CIDRs,
     min: Ports \cup {Unset}, max: Ports \cup {Unset}]

(* Variation: the slice is made with the length of the rules, and not with *)
(* that capacity, before it is appended to.                                *)
InitFilled ==
    /\ \E n \in 1 .. MaxRules : rules \in [1 .. n -> SecurityRule]
    /\ next = 1
    /\ ingressRules = [k \in 1 .. Len(rules) |->
                         [protocol |-> "", peer |-> "", min |-> Unset, max |-> Unset]]
    /\ egressRules = <<>>

Init ==
    /\ \E n \in 1 .. MaxRules : rules \in [1 .. n -> SecurityRule]
    /\ next = 1
    /\ ingressRules = <<>>
    /\ egressRules = <<>>

-----------------------------------------------------------------------------
(* Variation: both ends of the range are the minimum port.                 *)
TCPOptionsOfMinimum(r) == [min |-> r.minPort, max |-> r.minPort]

(* TCP options take both ports.                                            *)
TCPOptions(r) ==
    IF r.minPort # Unset /\ r.maxPort # Unset
    THEN [min |-> r.minPort, max |-> r.maxPort]
    ELSE [min |-> Unset, max |-> Unset]

Converted(r, peer) ==
    [protocol |-> r.protocol, peer |-> peer,
     min |-> TCPOptions(r).min, max |-> TCPOptions(r).max]

ConvertIngress ==
    /\ next <= Len(rules)
    /\ rules[next].direction = "INGRESS"
    /\ ingressRules' = Append(ingressRules, Converted(rules[next], rules[next].source))
    /\ next' = next + 1
    /\ UNCHANGED <<rules, egressRules>>

(* Variation: the branch written after the other one keeps its source.     *)
ConvertEgressFromSource ==
    /\ next <= Len(rules)
    /\ rules[next].direction # "INGRESS"
    /\ egressRules' = Append(egressRules, Converted(rules[next], rules[next].source))
    /\ next' = next + 1
    /\ UNCHANGED <<rules, ingressRules>>

(* Variation: only the branch for ingress sends the ports.                 *)
ConvertEgressWithoutPorts ==
    /\ next <= Len(rules)
    /\ rules[next].direction # "INGRESS"
    /\ egressRules' = Append(egressRules,
         [Converted(rules[next], rules[next].destination) EXCEPT !.min = Unset, !.max = Unset])
    /\ next' = next + 1
    /\ UNCHANGED <<rules, ingressRules>>

ConvertEgress ==
    /\ next <= Len(rules)
    /\ rules[next].direction # "INGRESS"
    /\ egressRules' = Append(egressRules, Converted(rules[next], rules[next].destination))
    /\ next' = next + 1
    /\ UNCHANGED <<rules, ingressRules>>

Next == ConvertIngress \/ ConvertEgress

Spec == Init /\ [][Next]_vars

-----------------------------------------------------------------------------
(* What OCI admits: TCP options narrow the TCP traffic of a rule to the    *)
(* ports of their range.                                                   *)
Admits(list, packet) ==
    \E k \in 1 .. Len(list) :
      /\ list[k].protocol \in {"all", packet.protocol}
      /\ list[k].peer = packet.peer
      /\ packet.protocol = "6" /\ list[k].min # Unset =>
           list[k].min <= packet.port /\ packet.port <= list[k].max
=============================================================================
