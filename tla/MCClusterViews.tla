---------------------------- MODULE MCClusterViews ----------------------------
\* The pods of the eval scenarios by the way they fail, and four more.
EXTENDS ServiceTraffic

CONSTANTS o1, o2

Pod(inits, apps, faults, refs, when) ==
  [inits |-> inits, apps |-> apps, restarts |-> TRUE,
   fault |-> [c \in Range(inits) \cup Range(apps) |->
                IF c \in DOMAIN faults THEN faults[c] ELSE "none"],
   refs |-> refs, ready_when |-> when]

Reason(reasons, min_restarts) ==
  [kind |-> "container_reason", reasons |-> reasons, min_restarts |-> min_restarts]
NotReady == [kind |-> "pod_not_ready", reasons |-> {}, min_restarts |-> 0]
IsReady == [kind |-> "pod_ready", reasons |-> {}, min_restarts |-> 0]
Unawaited == Reason({}, 0)
ConfigError == Reason({"CreateContainerConfigError"}, 0)

Ref(c, via, name, key, optional) ==
  [container |-> c, via |-> via, name |-> name, key |-> key, optional |-> optional]
Env(c, name, key) == Ref(c, "env", name, key, FALSE)
Volume(name, key) == Ref(None, "volume", name, key, FALSE)

TheObjects == ("settings" :> [keys |-> {"LOG_LEVEL"}, binary_keys |-> {"ca"}])

ThePods ==
  { Pod(<<>>, <<"a">>, "a" :> "crash", {}, Reason({"CrashLoopBackOff", "Error"}, 1)),
    Pod(<<>>, <<"a">>, "a" :> "oom", {}, Reason({"OOMKilled", "CrashLoopBackOff"}, 2)),
    Pod(<<>>, <<"a">>, "a" :> "image", {}, Reason({"ImagePullBackOff", "ErrImagePull"}, 0)),
    Pod(<<>>, <<"a">>, "a" :> "exits", {}, Reason({"CrashLoopBackOff", "Error", "Completed"}, 2)),
    Pod(<<>>, <<"a">>, "a" :> "unready", {}, NotReady),
    Pod(<<"i">>, <<"a">>, "i" :> "crash", {}, Reason({"CrashLoopBackOff", "Error"}, 1)),
    Pod(<<>>, <<"a">>, <<>>, {Env("a", "secret", "token")}, ConfigError),
    Pod(<<>>, <<"a">>, <<>>, {Env("a", "settings", "log_level"), Env("a", "settings", "LOG_LEVEL")},
        ConfigError),
    Pod(<<>>, <<"a">>, <<>>, {Volume("billing", None)}, Reason({"ContainerCreating"}, 0)),
    Pod(<<"i", "j">>, <<"a">>, <<>>,
        {Ref("a", "env", "secret", None, TRUE), Volume("settings", "ca")}, IsReady),
    \* Not of the scenarios: a sidecar whose image is wrong beside a crash, an init
    \* container and a second container blocked by their configuration, and a job.
    Pod(<<>>, <<"a", "b">>, ("a" :> "image") @@ ("b" :> "crash"), {},
        Reason({"ImagePullBackOff", "ErrImagePull"}, 0)),
    Pod(<<"i">>, <<"a">>, <<>>, {Env("i", "settings", "ca")}, ConfigError),
    Pod(<<>>, <<"a", "b">>, "a" :> "crash", {Env("b", "secret", None)}, ConfigError),
    [Pod(<<"i">>, <<"a">>, "a" :> "exits", {}, Unawaited) EXCEPT !.restarts = FALSE] }

-------------------------------------------------------------------------------
\* The way to the healthy pod and to the one that does not get ready; to the others,
\* a Service nothing stands in the way of.  A Service may select another pod, or have
\* no selector, or a target port the pod does not listen on.
Selector(labels, exprs) == [match_labels |-> labels, match_expressions |-> exprs]
Expr(key, operator, values) == [key |-> key, operator |-> operator, values |-> values]
All == Selector(<<>>, {})
App(name) == Selector("app" :> name, {})

Peer(pods, namespaces) == [pod_selector |-> pods, namespace_selector |-> namespaces, ip_block |-> None]
Port(protocol, from, to) == [protocol |-> protocol, port |-> from, end_port |-> to]
Rule(peers, ports) == [peers |-> peers, ports |-> ports]
Policy(selector, ingress, egress) ==
  [pod_selector |-> selector, policy_types |-> {"Ingress"} \cup (IF egress = {} THEN {} ELSE {"Egress"}),
   rules |-> [Ingress |-> ingress, Egress |-> egress]]

ThePeers ==
  {Peer(App("client"), None), Peer(App("allowed"), None), Peer(All, None), Peer(None, All),
   Peer(Selector(<<>>, {Expr("app", "In", {"client", "allowed"})}), None),
   Peer(App("client"), Selector("name" :> "other", {})),
   Peer(None, Selector(<<>>, {Expr("name", "NotIn", {"other"})})),
   [Peer(None, None) EXCEPT !.ip_block = "10.0.0.0/8"]}
ThePorts == {Port(None, 80, None), Port("TCP", 8000, 8080), Port("UDP", 80, None), Port("TCP", None, None)}
TheRules == {Rule({}, {})} \cup {Rule({p}, {}) : p \in ThePeers} \cup {Rule({}, {p}) : p \in ThePorts}

TheSelectors ==
  {All, App("api"), App("web"), Selector(<<>>, {Expr("app", "NotIn", {"client"})}),
   Selector(<<>>, {Expr("tier", "Exists", {})}), Selector(<<>>, {Expr("app", "DoesNotExist", {})})}

ThePolicies ==
  {{}} \cup {{Policy(s, rules, {})} : s \in TheSelectors, rules \in {{}} \cup {{r} : r \in TheRules}}
       \cup {{Policy(All, {Rule({}, {})}, {r})} : r \in TheRules}
       \cup {{Policy(All, {}, {}), Policy(App("api"), {r}, {})} : r \in TheRules}

Network(selector, policies, client) ==
  [labels |-> "app" :> "api", listens |-> {80}, client |-> client, selector |-> selector,
   port |-> 80, policies |-> policies]
Plain == Network("app" :> "api", {}, [labels |-> "app" :> "client", namespace |-> "shop"])

TheNetworks ==
  [pod \in ThePods |->
     IF pod.ready_when.kind \notin {"pod_ready", "pod_not_ready"} THEN {Plain}
     ELSE {Network("app" :> "ap1", {}, Plain.client), Network(<<>>, {}, Plain.client),
           [Plain EXCEPT !.listens = {9090}],
           [Plain EXCEPT !.listens = {9090}, !.policies = {Policy(All, {}, {})}]}
          \cup {Network("app" :> "api", policies, [labels |-> "app" :> "client", namespace |-> ns]) :
                  policies \in ThePolicies, ns \in {"shop", "other"}}]

TheOthers == {o1, o2}
Symmetric == Permutations(TheOthers)
===============================================================================
