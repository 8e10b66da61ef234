---------------------- MODULE SecurityRulesProperties ----------------------
(***************************************************************************)
(* What the conversion of security rules preserves, and what the CRD says  *)
(* of a rule's ports.                                                      *)
(***************************************************************************)
EXTENDS SecurityRules, FiniteSets

(* The type invariant of the loop.                                         *)
TypeOK ==
    /\ rules \in Seq(SecurityRule)
    /\ next \in 1 .. Len(rules) + 1
    /\ ingressRules \in Seq(OCIRule)
    /\ egressRules \in Seq(OCIRule)

Done == next = Len(rules) + 1

IsIngress(r) == r.direction = "INGRESS"
IsEgress(r) == r.direction = "EGRESS"

(* Which of the first n rules have a direction, and a rule's remote end.   *)
Given(rs, direction, n) == {k \in 1 .. n : rs[k].direction = direction}
RemoteEnd(r) == IF IsIngress(r) THEN r.source ELSE r.destination

(* convertRules sends every rule in the list of its direction, once, in    *)
(* the order of the spec, with its own protocol and its own remote end:    *)
(* the source of an ingress rule, the destination of an egress rule.       *)
KeepsOrder ==
    LET SameRules(list, direction) ==
          /\ Len(list) = Cardinality(Given(rules, direction, Len(rules)))
          /\ \A k \in Given(rules, direction, Len(rules)) :
               LET at == Cardinality(Given(rules, direction, k)) IN
               /\ at \in 1 .. Len(list)
               /\ list[at].protocol = rules[k].protocol
               /\ list[at].peer = RemoteEnd(rules[k])
    IN Done => SameRules(ingressRules, "INGRESS") /\ SameRules(egressRules, "EGRESS")

(* The loop's invariant: what KeepsOrder says of all the rules holds of    *)
(* the first n, those the loop has come past, ports included, and the list *)
(* has no others.                                                          *)
Request(r) == Converted(r, RemoteEnd(r))

Holds(list, rs, direction, n) ==
    LET given == Given(rs, direction, n) IN
    /\ Len(list) = Cardinality(given)
    /\ \A k \in given :
         LET at == Cardinality(Given(rs, direction, k)) IN
         at \in 1 .. Len(list) /\ list[at] = Request(rs[k])
    /\ \A at \in 1 .. Len(list) : \E k \in given : list[at] = Request(rs[k])

IInv ==
    /\ TypeOK
    /\ Holds(ingressRules, rules, "INGRESS", next - 1)
    /\ Holds(egressRules, rules, "EGRESS", next - 1)

-----------------------------------------------------------------------------
Packets == [protocol: {"6", "17"}, peer: CIDRs, port: Ports]

(* What a rule of the policy asks for, each of its ports taken as the CRD  *)
(* describes it: a minimum and a maximum, either of which may be left out. *)
Asks(r, peer, packet) ==
    /\ r.protocol \in {"all", packet.protocol}
    /\ peer = packet.peer
    /\ r.minPort # Unset => r.minPort <= packet.port
    /\ r.maxPort # Unset => packet.port <= r.maxPort

Complete(r) ==
    /\ r.minPort = Unset <=> r.maxPort = Unset
    /\ r.minPort # Unset => r.protocol = "6"

(* The list OCI gets admits all the traffic the policy asks for: dropping  *)
(* half a range, or a range of UDP ports, only widens it.  It admits no    *)
(* other as long as every rule gives both of its ports or neither, and     *)
(* only TCP rules give them: convertRules knows TCP options only.          *)
AdmitsWhatIsAsked ==
    LET AskedFor(packet) ==
          [ingress |-> \E k \in 1 .. Len(rules) :
             IsIngress(rules[k]) /\ Asks(rules[k], rules[k].source, packet),
           egress |-> \E k \in 1 .. Len(rules) :
             IsEgress(rules[k]) /\ Asks(rules[k], rules[k].destination, packet)]
    IN Done => \A packet \in Packets :
         /\ AskedFor(packet).ingress => Admits(ingressRules, packet)
         /\ AskedFor(packet).egress => Admits(egressRules, packet)
         /\ (\A k \in 1 .. Len(rules) : Complete(rules[k])) =>
              /\ Admits(ingressRules, packet) => AskedFor(packet).ingress
              /\ Admits(egressRules, packet) => AskedFor(packet).egress

-----------------------------------------------------------------------------
(* SecurityRule: minPort is the minimum port number for the rule, and is   *)
(* optional, as maxPort is.  Nothing below it is then admitted unless      *)
(* another rule asks for it.                                               *)
MinPortIsMinimum ==
    Done => \A packet \in Packets :
      Admits(ingressRules, packet) =>
        \E k \in 1 .. Len(rules) :
          /\ IsIngress(rules[k])
          /\ rules[k].source = packet.peer
          /\ rules[k].minPort <= packet.port
=============================================================================
