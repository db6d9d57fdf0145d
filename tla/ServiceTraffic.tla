---------------------------- MODULE ServiceTraffic ----------------------------
(***************************************************************************)
(* What the tools report of the way from a client to the pod of            *)
(* ClusterViews, through a Service and past NetworkPolicies: no pod shows  *)
(* an error there, a dropped packet leaves no event, and what              *)
(* backend/tools/services.py and policies.py return is all there is to     *)
(* find the fault by; the port the pod's container listens on is in        *)
(* neither.                                                                *)
(*                                                                         *)
(* External: the endpoints of a Service, the API server's evaluation of a  *)
(* label selector, and the CNI that enforces the policies.  A network is a *)
(* record [labels : of the pod, listens : the ports its containers listen  *)
(* on, client : [labels, namespace], selector : of the Service, port : its *)
(* target port, policies : the NetworkPolicies of the pod's namespace].    *)
(***************************************************************************)
EXTENDS ClusterViews

CONSTANTS
  Networks,    \* pod description -> the networks it may stand in
  NAMESPACE    \* the pod's

VARIABLE net

trafficvars == <<vars, net>>

TrafficInit == Init /\ net \in Networks[spec]
TrafficSpec == TrafficInit /\ [][Next /\ UNCHANGED net]_trafficvars

Pods == {"pod"} \cup (IF net.client.namespace = NAMESPACE THEN {"client"} ELSE {})
LabelsOf(pod) == IF pod = "pod" THEN net.labels ELSE net.client.labels
NamespaceOf(pod) == IF pod = "pod" THEN NAMESPACE ELSE net.client.namespace

\* Labels every namespace has.
NamespaceLabels(namespace) == "name" :> namespace

-------------------------------------------------------------------------------
(***************************************************************************)
(* The cluster                                                             *)
(***************************************************************************)
Satisfies(labels, expr) ==
  LET has == expr.key \in DOMAIN labels
  IN CASE expr.operator = "In" -> has /\ labels[expr.key] \in expr.values
       [] expr.operator = "NotIn" -> ~(has /\ labels[expr.key] \in expr.values)
       [] expr.operator = "Exists" -> has
       [] expr.operator = "DoesNotExist" -> ~has

Selects(selector, labels) ==
  /\ \A k \in DOMAIN selector.match_labels :
       k \in DOMAIN labels /\ labels[k] = selector.match_labels[k]
  /\ \A expr \in selector.match_expressions : Satisfies(labels, expr)

PeerIs(peer, pod) ==
  /\ peer.ip_block = None
  /\ IF peer.namespace_selector = None THEN NamespaceOf(pod) = NAMESPACE
     ELSE Selects(peer.namespace_selector, NamespaceLabels(NamespaceOf(pod)))
  /\ peer.pod_selector = None \/ Selects(peer.pod_selector, LabelsOf(pod))

PortIs(p, port) ==
  /\ p.protocol \in {None, "TCP"}
  /\ p.port = None \/ port \in p.port..(IF p.end_port = None THEN p.port ELSE p.end_port)

\* A rule with no peers, or no ports, is about all of them.
Allows(rule, pod) ==
  /\ rule.peers = {} \/ \E peer \in rule.peers : PeerIs(peer, pod)
  /\ rule.ports = {} \/ \E p \in rule.ports : PortIs(p, net.port)

\* A pod no policy selects for a direction is open in it.
Open(pod, direction, other) ==
  LET on == {policy \in net.policies : /\ pod \in Pods /\ direction \in policy.policy_types
                                      /\ Selects(policy.pod_selector, LabelsOf(pod))}
  IN on = {} \/ \E policy \in on : \E rule \in policy.rules[direction] : Allows(rule, other)

\* A pod has an address once its volumes are mounted; a finished one has none.
HasAddress == Phase \notin {"Succeeded", "Failed"} /\ \E c \in Containers(spec) :
                status[c].reason \notin Unstarted

\* A Service without a selector gets no Endpoints object.
HasEndpoints == DOMAIN net.selector # {}

Backs ==
  /\ HasEndpoints /\ HasAddress
  /\ \A k \in DOMAIN net.selector : k \in DOMAIN net.labels /\ net.labels[k] = net.selector[k]

Connects ==
  /\ Backs /\ \A c \in Range(spec.apps) : status[c].ready
  /\ Open("client", "Egress", "pod") /\ Open("pod", "Ingress", "client")
  /\ net.port \in net.listens

-------------------------------------------------------------------------------
(***************************************************************************)
(* The tools                                                               *)
(***************************************************************************)
\* Where there is no Endpoints object, the API server's 404 is all it gives.
get_service_endpoints ==
  [found |-> HasEndpoints, selector |-> net.selector, target_port |-> net.port,
   ready_addresses |-> IF Backs /\ _normalize_pod.pod_ready THEN {"pod"} ELSE {},
   not_ready_addresses |-> IF Backs /\ ~_normalize_pod.pod_ready THEN {"pod"} ELSE {}]

\* Mutant of _render_selector: the match expressions are left out.
_render_selector_LabelsOnly(selector) ==
  {[op |-> "=", key |-> k, values |-> {selector.match_labels[k]}] :
     k \in DOMAIN selector.match_labels}

\* A selector as the terms of its string.
_render_selector(selector) ==
  LET op == [In |-> "in", NotIn |-> "notin", Exists |-> "", DoesNotExist |-> "!"]
  IN {[op |-> "=", key |-> k, values |-> {selector.match_labels[k]}] :
        k \in DOMAIN selector.match_labels}
     \cup {[op |-> op[expr.operator], key |-> expr.key, values |-> expr.values] :
             expr \in selector.match_expressions}

\* None is no selector's string.
ASSUME TrafficAssumption ==
  LET WellFormed(selector) ==
        /\ _render_selector(selector) # None
        /\ \A expr \in selector.match_expressions :
             expr.operator \in {"In", "NotIn", "Exists", "DoesNotExist"}
  IN \A pod \in PodSpecs : \A network \in Networks[pod] : \A policy \in network.policies :
       /\ WellFormed(policy.pod_selector)
       /\ \A direction \in {"Ingress", "Egress"} : \A rule \in policy.rules[direction] :
            \A peer \in rule.peers :
              /\ peer.pod_selector = None \/ WellFormed(peer.pod_selector)
              /\ peer.namespace_selector = None \/ WellFormed(peer.namespace_selector)

\* How a selector string is understood, by the API server and by a reader.
Matches(terms, labels) ==
  \A t \in terms :
    LET has == t.key \in DOMAIN labels
        hit == has /\ labels[t.key] \in t.values
    IN CASE t.op \in {"=", "in"} -> hit [] t.op = "notin" -> ~hit
         [] t.op = "" -> has [] t.op = "!" -> ~has

_pods_matching(terms) == {pod \in Pods : Matches(terms, LabelsOf(pod))}

RenderedOrNone(selector) == IF selector = None THEN None ELSE _render_selector(selector)

_normalize_peer(peer) ==
  [pod_selector |-> RenderedOrNone(peer.pod_selector),
   namespace_selector |-> RenderedOrNone(peer.namespace_selector),
   ip_block |-> peer.ip_block]

\* "TCP/80", "TCP/80-90" or "TCP/*", which is any.
_render_port(p) ==
  [protocol |-> IF p.protocol = None THEN "TCP" ELSE p.protocol, any |-> p.port = None,
   from |-> p.port, to |-> IF p.end_port = None THEN p.port ELSE p.end_port]

_normalize_rule(rule, direction) ==
  [direction |-> direction, allows_all_peers |-> rule.peers = {},
   peers |-> {_normalize_peer(peer) : peer \in rule.peers},
   ports |-> {_render_port(p) : p \in rule.ports}]

_normalize_policy(policy) ==
  LET selector == _render_selector(policy.pod_selector)
  IN [pod_selector |-> selector, selects_all_pods |-> selector = {},
      policy_types |-> policy.policy_types,
      rules |-> UNION {{_normalize_rule(rule, d) : rule \in policy.rules[d]} :
                         d \in {"Ingress", "Egress"}},
      selected_pods |-> _pods_matching(selector)]

get_network_policies == {_normalize_policy(policy) : policy \in net.policies}

\* The harness waits for a Service to have endpoints, or to have none; a failed
\* lookup is neither.
_check_service_endpoints(kind) ==
  LET result == get_service_endpoints
  IN /\ result.found
     /\ IF kind = "service_has_endpoints" THEN result.ready_addresses # {}
        ELSE result.ready_addresses \cup result.not_ready_addresses = {}

-------------------------------------------------------------------------------
(***************************************************************************)
(* What a reader of these results concludes                                *)
(***************************************************************************)
ReadAllows(rule, pod) ==
  /\ \/ rule.allows_all_peers
     \/ \E peer \in rule.peers :
          /\ peer.ip_block = None
          /\ IF peer.namespace_selector = None THEN NamespaceOf(pod) = NAMESPACE
             ELSE Matches(peer.namespace_selector, NamespaceLabels(NamespaceOf(pod)))
          /\ peer.pod_selector = None \/ Matches(peer.pod_selector, LabelsOf(pod))
  /\ \/ rule.ports = {}
     \/ \E p \in rule.ports : p.protocol = "TCP" /\ (p.any \/ net.port \in p.from..p.to)

ReadOpen(pod, direction, other) ==
  LET on == {policy \in get_network_policies :
               pod \in policy.selected_pods /\ direction \in policy.policy_types}
  IN on = {} \/ \E policy \in on : \E rule \in policy.rules :
                  rule.direction = direction /\ ReadAllows(rule, other)

\* What the tools return of the Service, the policies and the labels tells whichever
\* of these keeps a client from the pod, and all they leave open is the one port no
\* tool returns (describe.py:63-64, the targetport scenario): a client they find
\* nothing in the way of gets through if and only if the container listens on the
\* target port, and any other does not, whatever the container listens on.  A
\* Service without any endpoint selects no pod that has an address, so that the
\* harness does not take a pod that is starting, once it is ready, for a mismatch.
TrafficIsExplained ==
  /\ Connects <=> /\ get_service_endpoints.ready_addresses # {}
                  /\ ReadOpen("client", "Egress", "pod")
                  /\ ReadOpen("pod", "Ingress", "client")
                  /\ net.port \in net.listens
  /\ _check_service_endpoints("service_no_endpoints") /\ _normalize_pod.pod_ready =>
       \E k \in DOMAIN net.selector :
         k \notin DOMAIN net.labels \/ net.labels[k] # net.selector[k]
  /\ \A policy \in get_network_policies : policy.selects_all_pods => policy.selected_pods = Pods
===============================================================================
