------------------------- MODULE ServiceTrafficProofs -------------------------
(***************************************************************************)
(* What the read-only tools return is enough to find a fault by: for any   *)
(* pods, Secrets and ConfigMaps, Services and NetworkPolicies.             *)
(***************************************************************************)
EXTENDS ServiceTraffic, SequenceTheorems, FiniteSetTheorems, WellFoundedInduction, TLAPS

Reasons ==
  {None, "ContainerCreating", "PodInitializing", "ErrImagePull", "ImagePullBackOff",
   "CreateContainerConfigError", "Error", "OOMKilled", "Completed", "CrashLoopBackOff"}

ContainerStatus ==
  [state : {"waiting", "running", "terminated"}, reason : Reasons,
   restart_count : Nat, ready : BOOLEAN]

\* A container that is, was or will again be up was let start once.
Started(c) ==
  status[c].state \in {"running", "terminated"} \/ status[c].reason = "CrashLoopBackOff"

\* The kubelet starts what is mounted and configured, the init containers first; it
\* reports a configuration error, or a failed mount, only for one there is.
StatusOK(c) ==
  /\ Started(c) => Mounted /\ Configured(c) /\ (c \notin Inits(spec) => InitsDone)
  /\ status[c].reason = "CreateContainerConfigError" => ~Configured(c)
  /\ status[c].state = "running" => status[c].reason = None
  /\ status[c].ready => status[c].state = "running" /\ c \notin Inits(spec)

StatusInv ==
  /\ spec \in PodSpecs
  /\ status \in [Containers(spec) -> ContainerStatus]
  /\ \A c \in Containers(spec) : StatusOK(c)

Credible(event) == event.reason = "FailedMount" => ~Mounted

Event ==
  [object : {"pod"} \cup Others, type : {"Normal", "Warning"},
   reason : {"FailedMount", "Failed", "Started", "BackOff", "Scheduled"}]

EventsInv == events \in Seq({event \in Event : Credible(event)})

ClusterInv == StatusInv /\ EventsInv /\ net \in Networks[spec]

-------------------------------------------------------------------------------
(***************************************************************************)
(* The kubelet                                                             *)
(***************************************************************************)
LEMMA LeastIsThere ==
  ASSUME NEW I \in SUBSET Nat, I # {}
  PROVE  Min(I) \in I /\ \A n \in I : Min(I) <= n
<1> DEFINE R == {ss \in Nat \X Nat : ss[1] < ss[2]}
<1>1. IsWellFoundedOn(R, Nat)
  BY NatLessThanWellFounded, Zenon DEF OpToRel
<1> HIDE DEF R
<1>2. PICK m \in I : \A n \in I : <<n, m>> \notin R
  BY <1>1, WFMin
<1>3. ASSUME NEW n \in I
      PROVE  m <= n
  <2>1. <<n, m>> \in Nat \X Nat /\ <<n, m>> \notin R
    BY <1>2
  <2> QED
    BY <2>1 DEF R
<1> QED
  BY <1>3 DEF Min

LEMMA RemoveFirstType ==
  ASSUME NEW S, NEW s \in Seq(S), NEW e
  PROVE  RemoveFirst(s, e) \in Seq(S)
<1>1. CASE ~\E i \in 1..Len(s) : s[i] = e
  BY <1>1 DEF RemoveFirst
<1>2. CASE \E i \in 1..Len(s) : s[i] = e
  <2> DEFINE I == {i \in 1..Len(s) : s[i] = e}
             k == Min(I)
  <2>1. Len(s) \in Nat /\ \A i \in 1..Len(s) : s[i] \in S
    BY ElementOfSeq
  <2>2. k \in 1..Len(s)
    <3>1. I \in SUBSET Nat /\ I # {}
      BY <1>2, <2>1
    <3>2. k \in I
      BY <3>1, LeastIsThere
    <3> QED
      BY <3>2
  <2>3. RemoveFirst(s, e) = SubSeq(s, 1, k - 1) \o SubSeq(s, k + 1, Len(s))
    BY <1>2, Zenon DEF RemoveFirst, RemoveAt, SelectInSeq
  <2> HIDE DEF k
  <2>4. SubSeq(s, 1, k - 1) \in Seq(S)
    BY <2>1, <2>2, SubSeqProperties
  <2>5. SubSeq(s, k + 1, Len(s)) \in Seq(S)
    BY <2>1, <2>2, SubSeqProperties
  <2> QED
    BY <2>3, <2>4, <2>5, ConcatProperties
<1> QED
  BY <1>1, <1>2

LEMMA RecordedType ==
  ASSUME EventsInv, UNCHANGED spec, NEW object \in {"pod"} \cup Others,
         NEW type \in {"Normal", "Warning"},
         NEW reason \in {"FailedMount", "Failed", "Started", "BackOff", "Scheduled"},
         reason = "FailedMount" => ~Mounted, Recorded(object, type, reason)
  PROVE  EventsInv'
<1> DEFINE S == {event \in Event : Credible(event)}
           e == [object |-> object, type |-> type, reason |-> reason]
<1>1. e \in S
  BY DEF Event, Credible
<1>2. events \in Seq(S) /\ events' = <<e>> \o RemoveFirst(events, e)
  BY Zenon DEF EventsInv, Recorded
<1>3. S' = S
  BY DEF Credible, Mounted, Missing
<1> HIDE DEF S, e
<1>4. <<e>> \in Seq(S) /\ RemoveFirst(events, e) \in Seq(S)
  BY <1>1, <1>2, RemoveFirstType
<1>5. events' \in Seq(S)
  BY <1>2, <1>4, ConcatProperties
<1> QED
  BY <1>3, <1>5, Zenon DEF EventsInv, S

\* One container becomes s: it is enough that s is right for it, and that an init
\* container that has done its work is left alone.
LEMMA BecomesOK ==
  ASSUME StatusInv, NEW c \in Containers(spec), NEW s \in ContainerStatus, Becomes(c, s),
         c \in Inits(spec) => ~Done(c),
         \/ s.state \in {"running", "terminated"} \/ s.reason = "CrashLoopBackOff" =>
              Mounted /\ Configured(c) /\ (c \notin Inits(spec) => InitsDone),
         s.reason = "CreateContainerConfigError" => ~Configured(c),
         s.state = "running" => s.reason = None,
         s.ready => s.state = "running" /\ c \notin Inits(spec)
  PROVE  StatusInv'
<1>1. /\ UNCHANGED spec /\ status' = [status EXCEPT ![c] = s]
      /\ status \in [Containers(spec) -> ContainerStatus] /\ spec \in PodSpecs
  BY DEF Becomes, StatusInv
<1>2. /\ Containers(spec)' = Containers(spec) /\ Inits(spec)' = Inits(spec)
      /\ Inits(spec) \subseteq Containers(spec)
  BY <1>1 DEF Containers, Inits
<1>3. /\ Mounted' = Mounted
      /\ \A d : Configured(d)' = Configured(d)
  BY <1>1 DEF Mounted, Configured, Missing
<1>4. /\ status' \in [Containers(spec) -> ContainerStatus]
      /\ status'[c] = s
      /\ \A d \in Containers(spec) \ {c} : status'[d] = status[d]
  BY <1>1
<1>5. InitsDone => InitsDone'
  BY <1>2, <1>4 DEF InitsDone, Done
<1>6. ASSUME NEW d \in Containers(spec) \ {c}
      PROVE  StatusOK(d)'
  BY <1>2, <1>3, <1>4, <1>5 DEF StatusInv, StatusOK, Started
<1>7. StatusOK(c)'
  BY <1>2, <1>3, <1>4, <1>5 DEF StatusOK, Started
<1> QED
  BY <1>1, <1>2, <1>4, <1>6, <1>7 DEF StatusInv, StatusOK

LEMMA StatusFields ==
  ASSUME StatusInv, NEW c \in Containers(spec)
  PROVE  /\ status[c].state \in {"waiting", "running", "terminated"}
         /\ status[c].reason \in Reasons /\ status[c].restart_count \in Nat
         /\ status[c].ready \in BOOLEAN /\ StatusOK(c)
<1>1. status[c] \in ContainerStatus /\ StatusOK(c)
  BY DEF StatusInv
<1> QED
  BY <1>1 DEF ContainerStatus

LEMMA StateType ==
  ASSUME NEW state \in {"waiting", "running", "terminated"}, NEW reason \in Reasons,
         NEW restarts \in Nat
  PROVE  LET s == State(state, reason, restarts, FALSE)
         IN s \in ContainerStatus /\ s.state = state /\ s.reason = reason /\ s.ready = FALSE
BY DEF State, ContainerStatus

\* A container whose turn it is has not run, so that it is no init container that has.
LEMMA TryStep ==
  ASSUME StatusInv, EventsInv, NEW c \in Containers(spec), Try(c)
  PROVE  StatusInv' /\ EventsInv'
<1>1. /\ Mounted /\ (c \notin Inits(spec) => InitsDone) /\ status[c].state = "waiting"
      /\ ~Done(c) /\ UNCHANGED spec
  BY DEF Try, MayTry, Done, Becomes
<1>2. 0 \in Nat /\ None \in Reasons
  BY DEF Reasons
<1>3. ASSUME NEW reason \in Reasons, Becomes(c, State("waiting", reason, 0, FALSE)),
             reason # "CrashLoopBackOff", reason = "CreateContainerConfigError" => ~Configured(c),
             Recorded("pod", "Warning", "Failed")
      PROVE  StatusInv' /\ EventsInv'
  <2> DEFINE s == State("waiting", reason, 0, FALSE)
  <2>1. s \in ContainerStatus /\ s.state = "waiting" /\ s.reason = reason /\ s.ready = FALSE
    BY <1>2, StateType
  <2> HIDE DEF s
  <2>2. Becomes(c, s)
    BY <1>3 DEF s
  <2>3. StatusInv'
    BY <1>1, <1>3, <2>1, <2>2, BecomesOK
  <2> QED
    BY <1>1, <1>3, <2>3, RecordedType
<1>4. CASE spec.fault[c] = "image"
  <2>1. PICK reason \in {"ImagePullBackOff", "ErrImagePull"} :
          /\ Becomes(c, State("waiting", reason, 0, FALSE))
          /\ Recorded("pod", "Warning", "Failed")
    BY <1>4 DEF Try
  <2> QED
    BY <1>3, <2>1 DEF Reasons
<1>5. CASE spec.fault[c] # "image" /\ ~Configured(c)
  <2>1. /\ Becomes(c, State("waiting", "CreateContainerConfigError", 0, FALSE))
        /\ Recorded("pod", "Warning", "Failed")
    BY <1>5 DEF Try
  <2> QED
    BY <1>3, <1>5, <2>1 DEF Reasons
<1>6. CASE spec.fault[c] # "image" /\ Configured(c)
  <2> DEFINE s == State("running", None, 0, FALSE)
  <2>1. s \in ContainerStatus /\ s.state = "running" /\ s.reason = None /\ s.ready = FALSE
    BY <1>2, StateType
  <2>2. Becomes(c, s) /\ Recorded("pod", "Normal", "Started")
    BY <1>6 DEF Try
  <2> HIDE DEF s
  <2>3. StatusInv'
    BY <1>1, <1>6, <2>1, <2>2, BecomesOK, ViewsAssumption
  <2> QED
    BY <1>1, <2>2, <2>3, RecordedType
<1> QED
  BY <1>4, <1>5, <1>6

LEMMA ReadyStep ==
  ASSUME StatusInv, EventsInv, NEW c \in Containers(spec), Ready(c)
  PROVE  StatusInv' /\ EventsInv'
<1> DEFINE s == [status[c] EXCEPT !.ready = TRUE]
<1>1. status[c] \in ContainerStatus /\ StatusOK(c) /\ status[c].state = "running"
  BY StatusFields DEF StatusInv, Ready
<1>2. s \in ContainerStatus
  BY <1>1 DEF ContainerStatus
<1>3. s.state = status[c].state /\ s.reason = status[c].reason
  BY <1>1 DEF ContainerStatus
<1>4. Becomes(c, s) /\ UNCHANGED <<events, spec>> /\ c \notin Inits(spec)
  BY DEF Ready, Becomes
<1> HIDE DEF s
<1>5. StatusInv'
  BY <1>1, <1>2, <1>3, <1>4, BecomesOK, ViewsAssumption DEF StatusOK, Started
<1> QED
  BY <1>4, <1>5 DEF EventsInv, Credible, Mounted, Missing

LEMMA ExitStep ==
  ASSUME StatusInv, EventsInv, NEW c \in Containers(spec), Exit(c)
  PROVE  StatusInv' /\ EventsInv'
<1> DEFINE reason == ExitReason(c)
           s == State("terminated", reason, status[c].restart_count, FALSE)
<1>1. StatusOK(c) /\ status[c].state = "running" /\ status[c].restart_count \in Nat
  BY StatusFields DEF Exit
<1>2. reason \in {"Error", "OOMKilled", "Completed", None} /\ reason # None
  BY DEF Exit, ExitReason
<1>3. Becomes(c, s) /\ UNCHANGED <<events, spec>>
  BY DEF Exit, Becomes
<1> HIDE DEF reason
<1>4. reason \in Reasons
  BY <1>2 DEF Reasons
<1>5. s \in ContainerStatus /\ s.state = "terminated" /\ s.reason = reason /\ s.ready = FALSE
  BY <1>1, <1>4, StateType
<1> HIDE DEF s
<1>6. StatusInv'
  BY <1>1, <1>2, <1>3, <1>5, BecomesOK DEF StatusOK, Started, Done
<1> QED
  BY <1>3, <1>6 DEF EventsInv, Credible, Mounted, Missing

LEMMA BackOffStep ==
  ASSUME StatusInv, EventsInv, NEW c \in Containers(spec), BackOff(c)
  PROVE  StatusInv' /\ EventsInv'
<1> DEFINE s == State("waiting", "CrashLoopBackOff", status[c].restart_count, FALSE)
<1>1. /\ StatusOK(c) /\ status[c].state = "terminated" /\ status[c].restart_count \in Nat
      /\ c \in Inits(spec) => ~Done(c)
  BY StatusFields DEF BackOff, WillRestart
<1>2. Becomes(c, s) /\ UNCHANGED spec /\ Recorded("pod", "Warning", "BackOff")
  BY DEF BackOff, Becomes
<1>3. s \in ContainerStatus /\ s.state = "waiting" /\ s.reason = "CrashLoopBackOff"
      /\ s.ready = FALSE
  BY <1>1, StateType DEF Reasons
<1> HIDE DEF s
<1>4. StatusInv'
  BY <1>1, <1>2, <1>3, BecomesOK DEF StatusOK, Started
<1> QED
  BY <1>2, <1>4, RecordedType

LEMMA RestartStep ==
  ASSUME StatusInv, EventsInv, NEW c \in Containers(spec), Restart(c)
  PROVE  StatusInv' /\ EventsInv'
<1> DEFINE restarts == status[c].restart_count + 1
           s == State("running", None, restarts, FALSE)
<1>1. /\ StatusOK(c) /\ Started(c) /\ restarts \in Nat
      /\ c \in Inits(spec) => ~Done(c)
  BY StatusFields DEF Restart, WillRestart, Started
<1>2. Becomes(c, s) /\ UNCHANGED <<events, spec>>
  BY DEF Restart, Becomes
<1> HIDE DEF restarts
<1>3. s \in ContainerStatus /\ s.state = "running" /\ s.reason = None /\ s.ready = FALSE
  BY <1>1, StateType DEF Reasons
<1> HIDE DEF s
<1>4. StatusInv'
  BY <1>1, <1>2, <1>3, BecomesOK, ViewsAssumption DEF StatusOK
<1> QED
  BY <1>2, <1>4 DEF EventsInv, Credible, Mounted, Missing

LEMMA ClusterInvStep ==
  ASSUME ClusterInv, [Next /\ UNCHANGED net]_trafficvars
  PROVE  ClusterInv'
<1>1. StatusInv /\ EventsInv /\ net \in Networks[spec] /\ UNCHANGED <<net, spec>>
  BY DEF ClusterInv, trafficvars, vars, Next, Try, Ready, Exit, BackOff, Restart, Becomes,
         FailedMount, Poll, Noise
<1>2. ASSUME UNCHANGED status
      PROVE  StatusInv'
  BY <1>1, <1>2 DEF StatusInv, StatusOK, Started, ContainerStatus, Containers, Inits,
     Mounted, Configured, Missing, InitsDone, Done
<1>3. CASE \E c \in Containers(spec) :
             Try(c) \/ Ready(c) \/ Exit(c) \/ BackOff(c) \/ Restart(c)
  BY <1>1, <1>3, TryStep, ReadyStep, ExitStep, BackOffStep, RestartStep DEF ClusterInv
<1>4. CASE FailedMount
  <2>1. EventsInv'
    BY <1>1, <1>4, RecordedType DEF FailedMount
  <2> QED
    BY <1>1, <1>2, <1>4, <2>1 DEF FailedMount, ClusterInv
<1>5. CASE \E other \in Others : Noise(other)
  <2>1. EventsInv'
    BY <1>1, <1>5, RecordedType DEF Noise
  <2> QED
    BY <1>1, <1>2, <1>5, <2>1 DEF Noise, ClusterInv
<1>6. CASE Poll \/ UNCHANGED trafficvars
  <2>1. UNCHANGED <<status, events>>
    BY <1>6 DEF Poll, trafficvars, vars
  <2> QED
    BY <1>1, <1>2, <2>1 DEF ClusterInv, EventsInv, Credible, Mounted, Missing
<1> QED
  BY <1>3, <1>4, <1>5, <1>6 DEF Next

LEMMA ClusterInvInit == TrafficInit => ClusterInv
<1> SUFFICES ASSUME TrafficInit PROVE ClusterInv
  OBVIOUS
<1> DEFINE reason == IF spec.inits = <<>> THEN "ContainerCreating" ELSE "PodInitializing"
           s == State("waiting", reason, 0, FALSE)
<1>1. /\ spec \in PodSpecs /\ status = [c \in Containers(spec) |-> s]
      /\ events = <<>> /\ net \in Networks[spec]
  BY DEF TrafficInit, Init, Waiting
<1>2. /\ s \in ContainerStatus /\ s.state = "waiting" /\ s.ready = FALSE
      /\ s.reason \in {"ContainerCreating", "PodInitializing"}
  <2>1. reason \in Reasons /\ reason \in {"ContainerCreating", "PodInitializing"} /\ 0 \in Nat
    BY DEF Reasons
  <2> HIDE DEF reason
  <2> QED
    BY <2>1, StateType
<1> HIDE DEF s
<1>3. StatusInv
  BY <1>1, <1>2 DEF StatusInv, StatusOK, Started
<1>4. EventsInv
  BY <1>1, EmptySeq DEF EventsInv
<1> QED
  BY <1>1, <1>3, <1>4 DEF ClusterInv

LEMMA ClusterInvAlways == TrafficSpec => []ClusterInv
BY ClusterInvInit, ClusterInvStep, PTL DEF TrafficSpec

-------------------------------------------------------------------------------
(***************************************************************************)
(* The tools and their readers                                             *)
(***************************************************************************)
\* What is reported of references and of keys says which references are not met.
LEMMA UnmetIsMissing ==
  ASSUME NEW ref \in spec.refs, ref.via = "volume" \/ ref.container \in Containers(spec)
  PROVE  Unmet(ref) <=> Missing(ref)
<1>1. ref \in _config_references
  BY DEF _config_references
<1>2. CASE ref.name \in DOMAIN Objects
  BY <1>1, <1>2, ViewsAssumption DEF Unmet, Missing, _summarize_configmap
<1>3. CASE ref.name \notin DOMAIN Objects
  BY <1>1, <1>3 DEF Unmet, Missing, _summarize_configmap
<1> QED
  BY <1>2, <1>3

\* describe_resource in tools/describe.py and the summaries of models.py: for any pod
\* and any Secrets and ConfigMaps, what is reported of a container's or a mount's
\* references explains whatever configuration blocks, and blames none that is up.
THEOREM BlockedExplained == TrafficSpec => []BlockedIsExplained
<1>1. ASSUME StatusInv, EventsInv
      PROVE  BlockedIsExplained
  <2>1. ASSUME NEW c \in Containers(spec), status[c].reason = "CreateContainerConfigError"
        PROVE  \E ref \in spec.refs : ref.container = c /\ Unmet(ref)
    <3>1. PICK ref \in spec.refs : ref.container = c /\ Missing(ref)
      BY <1>1, <2>1 DEF StatusInv, StatusOK, Configured
    <3> QED
      BY <3>1, UnmetIsMissing
  <2>2. ASSUME NEW c \in Containers(spec), status[c].state \in {"running", "terminated"},
               NEW ref \in spec.refs, ref.container = c \/ ref.via = "volume"
        PROVE  ~Unmet(ref)
    <3>1. Mounted /\ Configured(c)
      BY <1>1, <2>2 DEF StatusInv, StatusOK, Started
    <3> QED
      BY <2>2, <3>1, UnmetIsMissing DEF Mounted, Configured
  <2>3. ASSUME NEW i \in DOMAIN events, events[i].reason = "FailedMount"
        PROVE  \E ref \in spec.refs : ref.via = "volume" /\ Unmet(ref)
    <3>1. events[i] \in {event \in Event : Credible(event)}
      BY <1>1, ElementOfSeq DEF EventsInv
    <3>2. ~Mounted
      BY <2>3, <3>1 DEF Credible
    <3> QED
      BY <3>2, UnmetIsMissing DEF Mounted
  <2> QED
    BY <2>1, <2>2, <2>3 DEF BlockedIsExplained
<1> QED
  BY <1>1, ClusterInvAlways, PTL DEF ClusterInv

\* A selector's string is understood as the selector.
LEMMA SelectorString ==
  ASSUME NEW selector, NEW labels,
         \A expr \in selector.match_expressions :
           expr.operator \in {"In", "NotIn", "Exists", "DoesNotExist"}
  PROVE  Matches(_render_selector(selector), labels) <=> Selects(selector, labels)
<1> DEFINE op == [In |-> "in", NotIn |-> "notin", Exists |-> "", DoesNotExist |-> "!"]
           equal(k) == [op |-> "=", key |-> k, values |-> {selector.match_labels[k]}]
           term(expr) == [op |-> op[expr.operator], key |-> expr.key, values |-> expr.values]
           understood(t) ==
             LET has == t.key \in DOMAIN labels
                 hit == has /\ labels[t.key] \in t.values
             IN CASE t.op \in {"=", "in"} -> hit [] t.op = "notin" -> ~hit
                  [] t.op = "" -> has [] t.op = "!" -> ~has
<1>1. _render_selector(selector) =
        {equal(k) : k \in DOMAIN selector.match_labels}
          \cup {term(expr) : expr \in selector.match_expressions}
  BY DEF _render_selector
<1>2. ASSUME NEW k \in DOMAIN selector.match_labels
      PROVE  understood(equal(k)) <=> k \in DOMAIN labels /\ labels[k] = selector.match_labels[k]
  OBVIOUS
<1>3. ASSUME NEW expr \in selector.match_expressions
      PROVE  understood(term(expr)) <=> Satisfies(labels, expr)
  <2>1. op["In"] = "in" /\ op["NotIn"] = "notin" /\ op["Exists"] = "" /\ op["DoesNotExist"] = "!"
    OBVIOUS
  <2> HIDE DEF op
  <2>2. CASE expr.operator = "In"
    BY <2>1, <2>2 DEF Satisfies
  <2>3. CASE expr.operator = "NotIn"
    BY <2>1, <2>3 DEF Satisfies
  <2>4. CASE expr.operator = "Exists"
    BY <2>1, <2>4 DEF Satisfies
  <2>5. CASE expr.operator = "DoesNotExist"
    BY <2>1, <2>5 DEF Satisfies
  <2> QED
    BY <2>2, <2>3, <2>4, <2>5
<1>4. Matches(_render_selector(selector), labels) <=>
        \A t \in _render_selector(selector) : understood(t)
  BY DEF Matches
<1> HIDE DEF equal, term, understood
<1> QED
  BY <1>1, <1>2, <1>3, <1>4, Zenon DEF Selects

WellFormed(selector) ==
  /\ _render_selector(selector) # None
  /\ \A expr \in selector.match_expressions :
       expr.operator \in {"In", "NotIn", "Exists", "DoesNotExist"}

WellFormedRule(rule) ==
  \A peer \in rule.peers :
    /\ peer.pod_selector = None \/ WellFormed(peer.pod_selector)
    /\ peer.namespace_selector = None \/ WellFormed(peer.namespace_selector)

LEMMA RuleRead ==
  ASSUME NEW rule, WellFormedRule(rule), NEW direction, NEW pod
  PROVE  ReadAllows(_normalize_rule(rule, direction), pod) <=> Allows(rule, pod)
<1> DEFINE read == _normalize_rule(rule, direction)
           ReadPeer(peer) ==
             /\ peer.ip_block = None
             /\ IF peer.namespace_selector = None THEN NamespaceOf(pod) = NAMESPACE
                ELSE Matches(peer.namespace_selector, NamespaceLabels(NamespaceOf(pod)))
             /\ peer.pod_selector = None \/ Matches(peer.pod_selector, LabelsOf(pod))
           ReadPort(p) == p.protocol = "TCP" /\ (p.any \/ net.port \in p.from..p.to)
<1>1. /\ read.allows_all_peers <=> rule.peers = {}
      /\ read.peers = {_normalize_peer(peer) : peer \in rule.peers}
      /\ read.ports = {_render_port(p) : p \in rule.ports}
  BY DEF _normalize_rule
<1>2. ASSUME NEW peer \in rule.peers
      PROVE  ReadPeer(_normalize_peer(peer)) <=> PeerIs(peer, pod)
  <2>1. /\ _normalize_peer(peer).ip_block = peer.ip_block
        /\ _normalize_peer(peer).pod_selector = RenderedOrNone(peer.pod_selector)
        /\ _normalize_peer(peer).namespace_selector = RenderedOrNone(peer.namespace_selector)
    BY DEF _normalize_peer
  <2>2. ASSUME NEW selector, NEW labels, selector = None \/ WellFormed(selector)
        PROVE  /\ RenderedOrNone(selector) = None <=> selector = None
               /\ selector # None =>
                    (Matches(RenderedOrNone(selector), labels) <=> Selects(selector, labels))
    BY <2>2, SelectorString DEF RenderedOrNone, WellFormed
  <2>3. /\ peer.pod_selector = None \/ WellFormed(peer.pod_selector)
        /\ peer.namespace_selector = None \/ WellFormed(peer.namespace_selector)
    BY DEF WellFormedRule
  <2> QED
    BY <2>1, <2>2, <2>3 DEF PeerIs
<1>3. ASSUME NEW p \in rule.ports
      PROVE  ReadPort(_render_port(p)) <=> PortIs(p, net.port)
  BY DEF _render_port, PortIs
<1>4. ReadAllows(read, pod) <=>
        /\ read.allows_all_peers \/ \E peer \in read.peers : ReadPeer(peer)
        /\ read.ports = {} \/ \E p \in read.ports : ReadPort(p)
  BY DEF ReadAllows
<1>5. read.ports = {} <=> rule.ports = {}
  BY <1>1
<1> HIDE DEF read, ReadPeer, ReadPort
<1>6. (\E peer \in read.peers : ReadPeer(peer)) <=> \E peer \in rule.peers : PeerIs(peer, pod)
  BY <1>1, <1>2, Zenon
<1>7. (\E p \in read.ports : ReadPort(p)) <=> \E p \in rule.ports : PortIs(p, net.port)
  BY <1>1, <1>3, Zenon
<1>8. ReadAllows(read, pod) <=> Allows(rule, pod)
  BY <1>1, <1>4, <1>5, <1>6, <1>7, Zenon DEF Allows
<1> QED
  BY <1>8 DEF read

\* The policies as they are reported leave open what the cluster leaves open.
LEMMA OpenRead ==
  ASSUME ClusterInv, NEW pod, NEW direction \in {"Ingress", "Egress"}, NEW other
  PROVE  ReadOpen(pod, direction, other) <=> Open(pod, direction, other)
<1> DEFINE on == {policy \in net.policies :
                    /\ pod \in Pods /\ direction \in policy.policy_types
                    /\ Selects(policy.pod_selector, LabelsOf(pod))}
           readon == {policy \in get_network_policies :
                        pod \in policy.selected_pods /\ direction \in policy.policy_types}
<1>1. ASSUME NEW policy \in net.policies
      PROVE  /\ WellFormed(policy.pod_selector)
             /\ \A rule \in policy.rules[direction] : WellFormedRule(rule)
  BY TrafficAssumption DEF ClusterInv, StatusInv, WellFormed, WellFormedRule
<1>2. ASSUME NEW policy \in net.policies
      PROVE  LET read == _normalize_policy(policy)
             IN /\ pod \in read.selected_pods <=>
                     pod \in Pods /\ Selects(policy.pod_selector, LabelsOf(pod))
                /\ read.policy_types = policy.policy_types
                /\ read.rules = UNION {{_normalize_rule(rule, d) : rule \in policy.rules[d]} :
                                         d \in {"Ingress", "Egress"}}
  <2>1. /\ _normalize_policy(policy).selected_pods = _pods_matching(_render_selector(policy.pod_selector))
        /\ _normalize_policy(policy).policy_types = policy.policy_types
        /\ _normalize_policy(policy).rules =
             UNION {{_normalize_rule(rule, d) : rule \in policy.rules[d]} : d \in {"Ingress", "Egress"}}
    BY DEF _normalize_policy
  <2>2. Matches(_render_selector(policy.pod_selector), LabelsOf(pod)) <=>
          Selects(policy.pod_selector, LabelsOf(pod))
    BY <1>1, SelectorString DEF WellFormed
  <2> QED
    BY <2>1, <2>2, Zenon DEF _pods_matching
<1>3. readon = {_normalize_policy(policy) : policy \in on}
  BY <1>2 DEF get_network_policies
<1>4. ASSUME NEW policy \in net.policies
      PROVE  (\E rule \in _normalize_policy(policy).rules :
                rule.direction = direction /\ ReadAllows(rule, other)) <=>
             \E rule \in policy.rules[direction] : Allows(rule, other)
  <2>1. \A rule, d : _normalize_rule(rule, d).direction = d
    BY DEF _normalize_rule
  <2>2. \A r : r \in _normalize_policy(policy).rules /\ r.direction = direction <=>
               \E rule \in policy.rules[direction] : r = _normalize_rule(rule, direction)
    BY <1>2, <2>1
  <2>3. \A rule \in policy.rules[direction] :
          ReadAllows(_normalize_rule(rule, direction), other) <=> Allows(rule, other)
    BY <1>1, RuleRead
  <2> QED
    BY <2>2, <2>3, Zenon
<1>5. /\ Open(pod, direction, other) <=>
           on = {} \/ \E policy \in on : \E rule \in policy.rules[direction] : Allows(rule, other)
      /\ ReadOpen(pod, direction, other) <=>
           readon = {} \/ \E policy \in readon : \E rule \in policy.rules :
                            rule.direction = direction /\ ReadAllows(rule, other)
  BY Zenon DEF Open, ReadOpen
<1>6. on \subseteq net.policies
  OBVIOUS
<1> HIDE DEF on, readon
<1>7. readon = {} <=> on = {}
  BY <1>3
<1> QED
  BY <1>3, <1>4, <1>5, <1>6, <1>7, Zenon

\* A pod whose containers are all ready is past its init containers, and has an address.
LEMMA ReadyHasAddress ==
  ASSUME StatusInv, \A c \in Range(spec.apps) : status[c].ready
  PROVE  HasAddress
<1>1. PICK a \in Range(spec.apps) : a \notin Inits(spec)
  BY ViewsAssumption DEF StatusInv
<1>2. \A c \in Range(spec.apps) :
        /\ c \in Containers(spec) /\ status[c].state = "running" /\ status[c].reason = None
  BY DEF StatusInv, StatusOK, Containers
<1>3. InitsDone
  BY <1>1, <1>2 DEF StatusInv, StatusOK, Started
<1>4. Phase = "Running"
  BY <1>1, <1>2, <1>3 DEF Phase
<1>5. status[a].reason \notin Unstarted
  BY <1>1, <1>2, ViewsAssumption DEF Unstarted
<1> QED
  BY <1>1, <1>2, <1>4, <1>5 DEF HasAddress

\* tools/services.py and policies.py: for any Service, any policies of whatever selectors,
\* peers and ports, and any client, what the tools return tells whether it gets through
\* to a container that listens on the target port; and a ready pod is behind a Service
\* without endpoints only if its labels do not match.
THEOREM TrafficExplained == TrafficSpec => []TrafficIsExplained
<1>1. ASSUME ClusterInv
      PROVE  TrafficIsExplained
  <2> DEFINE ready == \A c \in Range(spec.apps) : status[c].ready
             endpoints == get_service_endpoints
  <2>1. /\ endpoints.ready_addresses = IF Backs /\ ready THEN {"pod"} ELSE {}
        /\ endpoints.not_ready_addresses = IF Backs /\ ~ready THEN {"pod"} ELSE {}
        /\ (_normalize_pod.pod_ready <=> ready) /\ endpoints.found = HasEndpoints
    BY DEF get_service_endpoints, _normalize_pod
  <2>2. Connects <=> /\ endpoints.ready_addresses # {}
                     /\ ReadOpen("client", "Egress", "pod")
                     /\ ReadOpen("pod", "Ingress", "client")
                     /\ net.port \in net.listens
    <3>1. /\ ReadOpen("client", "Egress", "pod") <=> Open("client", "Egress", "pod")
          /\ ReadOpen("pod", "Ingress", "client") <=> Open("pod", "Ingress", "client")
      BY <1>1, OpenRead
    <3>2. endpoints.ready_addresses # {} <=> Backs /\ ready
      BY <2>1
    <3> QED
      BY <3>1, <3>2, Zenon DEF Connects
  <2>3. ASSUME _check_service_endpoints("service_no_endpoints"), ready
        PROVE  \E k \in DOMAIN net.selector :
                 k \notin DOMAIN net.labels \/ net.labels[k] # net.selector[k]
    <3>1. ~Backs /\ HasEndpoints
      BY <2>1, <2>3 DEF _check_service_endpoints
    <3>2. HasAddress
      BY <1>1, <2>3, ReadyHasAddress DEF ClusterInv
    <3> QED
      BY <3>1, <3>2, Zenon DEF Backs
  <2>4. ASSUME NEW policy \in get_network_policies, policy.selects_all_pods
        PROVE  policy.selected_pods = Pods
    <3>1. PICK p \in net.policies : policy = _normalize_policy(p)
      BY DEF get_network_policies
    <3>2. /\ policy.selects_all_pods <=> _render_selector(p.pod_selector) = {}
          /\ policy.selected_pods = _pods_matching(_render_selector(p.pod_selector))
      BY <3>1 DEF _normalize_policy
    <3> QED
      BY <2>4, <3>2 DEF _pods_matching, Matches
  <2> HIDE DEF ready
  <2> QED
    BY <2>1, <2>2, <2>3, <2>4 DEF TrafficIsExplained
<1> QED
  BY <1>1, ClusterInvAlways, PTL

-------------------------------------------------------------------------------
(***************************************************************************)
(* The listing of a pod                                                    *)
(***************************************************************************)
Failing == {"crash", "oom", "image"}
Healthy == {"none", "unready"}

\* What is listed before a failing container does not fail for another reason.
FailsFirst(s) ==
  \A i, j \in DOMAIN s.apps :
    j < i /\ s.fault[s.apps[i]] \in Failing =>
      \/ s.fault[s.apps[j]] \in Failing
      \/ /\ s.fault[s.apps[j]] \in Healthy
         /\ ~\E ref \in s.refs : ref.container = s.apps[j] /\ Missing(ref)

Tried(c) == status[c].reason \notin Unstarted

\* Where a container is in its turn, and what its reason has to do with its fault.
InTurn(c) ==
  IF c \in Inits(spec)
  THEN \A i, j \in DOMAIN spec.inits : spec.inits[i] = c /\ j < i => Done(spec.inits[j])
  ELSE /\ InitsDone
       /\ \A i, j \in DOMAIN spec.apps : spec.apps[i] = c /\ j < i => Tried(spec.apps[j])

TurnOK(c) ==
  /\ Tried(c) => InTurn(c)
  /\ status[c].state # "waiting" => Tried(c)
  /\ status[c].state # "running" => status[c].reason # None
  /\ spec.fault[c] \in Failing => status[c].reason # "Completed"
  /\ spec.fault[c] \in Healthy /\ Configured(c) =>
       /\ status[c].reason \in {None, "Completed"} \cup Unstarted
       /\ status[c].state = "terminated" => c \in Inits(spec) /\ Done(c)

TurnInv == \A c \in Containers(spec) : TurnOK(c)

LEMMA BecomesTurn ==
  ASSUME StatusInv, TurnInv, NEW c \in Containers(spec), NEW s \in ContainerStatus, Becomes(c, s),
         c \in Inits(spec) => ~Done(c),
         MayTry(c) \/ Tried(c), s.reason \notin Unstarted,
         s.state # "running" => s.reason # None,
         spec.fault[c] \in Failing => s.reason # "Completed",
         spec.fault[c] \in Healthy /\ Configured(c) =>
           /\ s.reason \in {None, "Completed"}
           /\ s.state = "terminated" => c \in Inits(spec) /\ s.reason = "Completed"
  PROVE  TurnInv'
<1>1. /\ UNCHANGED spec /\ status' = [status EXCEPT ![c] = s]
      /\ status \in [Containers(spec) -> ContainerStatus]
  BY DEF Becomes, StatusInv
<1>2. /\ Containers(spec)' = Containers(spec) /\ Inits(spec)' = Inits(spec)
      /\ \A j \in DOMAIN spec.inits : spec.inits[j] \in Inits(spec)
      /\ \A j \in DOMAIN spec.apps : spec.apps[j] \in Containers(spec)
      /\ Inits(spec) \subseteq Containers(spec)
  BY <1>1 DEF Containers, Inits, Range
<1>3. \A d : Configured(d)' = Configured(d)
  BY <1>1 DEF Configured, Missing
<1>4. status'[c] = s /\ \A d \in Containers(spec) \ {c} : status'[d] = status[d]
  BY <1>1
<1>5. /\ \A d \in Inits(spec) : Done(d) =>
           status'[d].state = "terminated" /\ status'[d].reason = "Completed"
      /\ \A d \in Containers(spec) : Tried(d) => status'[d].reason \notin Unstarted
      /\ InitsDone => InitsDone'
      /\ Tried(c)'
  BY <1>2, <1>4 DEF InitsDone, Done, Tried, Unstarted
<1>6. InTurn(c)
  BY DEF MayTry, Tried, InTurn, TurnInv, TurnOK
<1>7. ASSUME NEW d \in Containers(spec), InTurn(d)
      PROVE  InTurn(d)'
  <2>1. CASE d \in Inits(spec)
    <3>1. \A i, j \in DOMAIN spec.inits : spec.inits[i] = d /\ j < i =>
            status'[spec.inits[j]].state = "terminated" /\ status'[spec.inits[j]].reason = "Completed"
      BY <1>2, <1>5, <1>7, <2>1 DEF InTurn, Done
    <3> QED
      BY <1>1, <1>2, <2>1, <3>1 DEF InTurn, Done
  <2>2. CASE d \notin Inits(spec)
    <3>1. \A i, j \in DOMAIN spec.apps : spec.apps[i] = d /\ j < i =>
            status'[spec.apps[j]].reason \notin Unstarted
      BY <1>2, <1>5, <1>7, <2>2 DEF InTurn, Tried
    <3>2. InitsDone'
      BY <1>5, <1>7, <2>2 DEF InTurn
    <3> QED
      BY <1>1, <1>2, <2>2, <3>1, <3>2 DEF InTurn, Tried, Unstarted
  <2> QED
    BY <2>1, <2>2
<1>8. ASSUME NEW d \in Containers(spec)
      PROVE  Tried(d)' => InTurn(d)'
  <2>1. CASE d = c
    BY <1>6, <1>7, <2>1
  <2>2. CASE d # c
    <3>1. Tried(d)' => Tried(d)
      BY <1>4, <2>2 DEF Tried, Unstarted
    <3> QED
      BY <1>7, <3>1 DEF TurnInv, TurnOK
  <2> QED
    BY <2>1, <2>2
<1>9. ASSUME NEW d \in Containers(spec)
      PROVE  /\ status'[d].state # "waiting" => Tried(d)'
             /\ status'[d].state # "running" => status'[d].reason # None
             /\ spec.fault[d] \in Failing => status'[d].reason # "Completed"
             /\ spec.fault[d] \in Healthy /\ Configured(d) =>
                  /\ status'[d].reason \in {None, "Completed"} \cup Unstarted
                  /\ status'[d].state = "terminated" => d \in Inits(spec) /\ Done(d)'
  BY <1>4, <1>5 DEF TurnInv, TurnOK, InTurn, Tried, Done, Unstarted
<1> QED
  BY <1>1, <1>2, <1>3, <1>8, <1>9 DEF TurnInv, TurnOK, Unstarted

LEMMA TurnUnchanged ==
  ASSUME TurnInv, UNCHANGED <<spec, status>>
  PROVE  TurnInv'
BY DEF TurnInv, TurnOK, InTurn, Tried, Done, InitsDone, Inits, Containers, Configured, Missing

LEMMA TryTurn ==
  ASSUME StatusInv, TurnInv, NEW c \in Containers(spec), Try(c)
  PROVE  TurnInv'
<1>1. MayTry(c) /\ (c \in Inits(spec) => ~Done(c)) /\ 0 \in Nat /\ None \in Reasons
  BY DEF Try, Done, Reasons
<1>2. ASSUME NEW state \in {"waiting", "running", "terminated"}, state # "terminated",
             NEW reason \in Reasons, Becomes(c, State(state, reason, 0, FALSE)),
             reason \notin Unstarted, reason # "Completed", state # "running" => reason # None,
             spec.fault[c] \in Healthy /\ Configured(c) => reason = None
      PROVE  TurnInv'
  <2> DEFINE s == State(state, reason, 0, FALSE)
  <2>1. s = [state |-> state, reason |-> reason, restart_count |-> 0, ready |-> FALSE]
    BY DEF State
  <2> HIDE DEF s
  <2>2. s \in ContainerStatus /\ s.state = state /\ s.reason = reason
    BY <1>1, <2>1 DEF ContainerStatus
  <2>3. Becomes(c, s)
    BY <1>2 DEF s
  <2> QED
    BY <1>1, <1>2, <2>2, <2>3, BecomesTurn
<1>3. CASE spec.fault[c] = "image"
  <2>1. PICK reason \in {"ImagePullBackOff", "ErrImagePull"} :
          Becomes(c, State("waiting", reason, 0, FALSE))
    BY <1>3 DEF Try
  <2>2. reason \in Reasons /\ reason \notin Unstarted /\ reason # None
    BY ViewsAssumption DEF Reasons, Unstarted
  <2>3. spec.fault[c] \notin Healthy
    BY <1>3 DEF Healthy
  <2> QED
    BY <1>2, <2>1, <2>2, <2>3
<1>4. CASE spec.fault[c] # "image" /\ ~Configured(c)
  <2>1. Becomes(c, State("waiting", "CreateContainerConfigError", 0, FALSE))
    BY <1>4 DEF Try
  <2> QED
    BY <1>2, <1>4, <2>1, ViewsAssumption DEF Reasons, Unstarted
<1>5. CASE spec.fault[c] # "image" /\ Configured(c)
  <2>1. Becomes(c, State("running", None, 0, FALSE))
    BY <1>5 DEF Try
  <2>2. None \in Reasons /\ None \notin Unstarted /\ None # "Completed"
    BY ViewsAssumption DEF Reasons, Unstarted
  <2> QED
    BY <1>2, <2>1, <2>2
<1> QED
  BY <1>3, <1>4, <1>5

LEMMA ReadyTurn ==
  ASSUME StatusInv, TurnInv, NEW c \in Containers(spec), Ready(c)
  PROVE  TurnInv'
<1> DEFINE s == [status[c] EXCEPT !.ready = TRUE]
<1>1. /\ status[c] \in ContainerStatus /\ status[c].state = "running"
      /\ status[c].reason = None /\ Tried(c)
  BY StatusFields DEF StatusInv, StatusOK, Ready, TurnInv, TurnOK
<1>2. s \in ContainerStatus
  BY <1>1 DEF ContainerStatus
<1>3. s.state = status[c].state /\ s.reason = status[c].reason
  BY <1>1 DEF ContainerStatus
<1>4. Becomes(c, s) /\ c \notin Inits(spec)
  BY DEF Ready
<1> HIDE DEF s
<1> QED
  BY <1>1, <1>2, <1>3, <1>4, BecomesTurn, ViewsAssumption DEF Tried, Unstarted

LEMMA ExitTurn ==
  ASSUME StatusInv, TurnInv, NEW c \in Containers(spec), Exit(c)
  PROVE  TurnInv'
<1> DEFINE reason == ExitReason(c)
           s == State("terminated", reason, status[c].restart_count, FALSE)
<1>1. /\ status[c].state = "running" /\ status[c].restart_count \in Nat /\ Tried(c)
      /\ c \in Inits(spec) => ~Done(c)
  BY StatusFields DEF Exit, TurnInv, TurnOK, Done
<1>2. /\ reason \in {"Error", "OOMKilled", "Completed"}
      /\ spec.fault[c] \in Failing => reason # "Completed"
      /\ spec.fault[c] \in Healthy => c \in Inits(spec) /\ reason = "Completed"
  BY DEF Exit, ExitReason, Failing, Healthy
<1>3. Becomes(c, s)
  BY DEF Exit
<1> HIDE DEF reason
<1>4. reason \in Reasons /\ reason \notin Unstarted /\ reason # None
  BY <1>2, ViewsAssumption DEF Reasons, Unstarted
<1>5. s \in ContainerStatus /\ s.state = "terminated" /\ s.reason = reason /\ s.ready = FALSE
  BY <1>1, <1>4, StateType
<1> HIDE DEF s
<1> QED
  BY <1>1, <1>2, <1>3, <1>4, <1>5, BecomesTurn

LEMMA BackOffTurn ==
  ASSUME StatusInv, TurnInv, NEW c \in Containers(spec), BackOff(c)
  PROVE  TurnInv'
<1> DEFINE s == State("waiting", "CrashLoopBackOff", status[c].restart_count, FALSE)
<1>1. /\ status[c].state = "terminated" /\ status[c].restart_count \in Nat /\ Tried(c)
      /\ c \in Inits(spec) => ~Done(c)
      /\ ~(spec.fault[c] \in Healthy /\ Configured(c))
  BY StatusFields DEF BackOff, WillRestart, TurnInv, TurnOK
<1>2. Becomes(c, s)
  BY DEF BackOff
<1>3. s \in ContainerStatus /\ s.state = "waiting" /\ s.reason = "CrashLoopBackOff"
      /\ s.ready = FALSE
  BY <1>1, StateType DEF Reasons
<1> HIDE DEF s
<1> QED
  BY <1>1, <1>2, <1>3, BecomesTurn, ViewsAssumption DEF Unstarted

LEMMA RestartTurn ==
  ASSUME StatusInv, TurnInv, NEW c \in Containers(spec), Restart(c)
  PROVE  TurnInv'
<1> DEFINE restarts == status[c].restart_count + 1
           s == State("running", None, restarts, FALSE)
<1>1. /\ restarts \in Nat /\ Tried(c) /\ None \in Reasons
      /\ c \in Inits(spec) => ~Done(c)
  BY StatusFields DEF Restart, WillRestart, TurnInv, TurnOK, Tried, Unstarted, Reasons
<1>2. Becomes(c, s)
  BY DEF Restart
<1> HIDE DEF restarts
<1>3. s \in ContainerStatus /\ s.state = "running" /\ s.reason = None /\ s.ready = FALSE
  BY <1>1, StateType
<1> HIDE DEF s
<1>4. None \notin Unstarted /\ (None = "Completed" => FALSE)
  BY ViewsAssumption DEF Unstarted
<1> QED
  BY <1>1, <1>2, <1>3, <1>4, BecomesTurn

LEMMA TurnInvStep ==
  ASSUME ClusterInv, TurnInv, [Next /\ UNCHANGED net]_trafficvars
  PROVE  TurnInv'
<1>1. CASE \E c \in Containers(spec) :
             Try(c) \/ Ready(c) \/ Exit(c) \/ BackOff(c) \/ Restart(c)
  BY <1>1, TryTurn, ReadyTurn, ExitTurn, BackOffTurn, RestartTurn DEF ClusterInv
<1>2. CASE \/ FailedMount \/ Poll \/ UNCHANGED trafficvars
           \/ \E other \in Others : Noise(other)
  BY <1>2, TurnUnchanged DEF FailedMount, Poll, Noise, trafficvars, vars
<1> QED
  BY <1>1, <1>2 DEF Next

LEMMA TurnInvInit == TrafficInit => TurnInv
<1> SUFFICES ASSUME TrafficInit PROVE TurnInv
  OBVIOUS
<1> DEFINE reason == IF spec.inits = <<>> THEN "ContainerCreating" ELSE "PodInitializing"
           s == State("waiting", reason, 0, FALSE)
<1>1. status = [c \in Containers(spec) |-> s]
  BY DEF TrafficInit, Init, Waiting
<1>2. reason \in {"ContainerCreating", "PodInitializing"}
  OBVIOUS
<1> HIDE DEF reason
<1>3. s.state = "waiting" /\ s.reason = reason
  BY DEF State
<1> HIDE DEF s
<1>4. reason # None
  BY <1>2, ViewsAssumption
<1> QED
  BY <1>1, <1>2, <1>3, <1>4 DEF TurnInv, TurnOK, Tried, Unstarted

LEMMA TurnInvAlways == TrafficSpec => [](ClusterInv /\ TurnInv)
<1>1. TrafficInit => ClusterInv /\ TurnInv
  BY ClusterInvInit, TurnInvInit
<1>2. ClusterInv /\ TurnInv /\ [Next /\ UNCHANGED net]_trafficvars => (ClusterInv /\ TurnInv)'
  BY ClusterInvStep, TurnInvStep
<1> QED
  BY <1>1, <1>2, PTL DEF TrafficSpec

\* The containers in the order they are listed in.
Listed(i) ==
  IF i <= Len(spec.inits) THEN spec.inits[i] ELSE spec.apps[i - Len(spec.inits)]

LEMMA ListedInOrder ==
  ASSUME spec \in PodSpecs
  PROVE  LET pod == _normalize_pod
             all == pod.init_containers \o pod.containers
         IN /\ Len(spec.inits) \in Nat /\ Len(spec.apps) \in Nat
            /\ DOMAIN spec.inits = 1..Len(spec.inits) /\ DOMAIN spec.apps = 1..Len(spec.apps)
            /\ DOMAIN all = 1..(Len(spec.inits) + Len(spec.apps))
            /\ \A i \in DOMAIN all : all[i] = status[Listed(i)]
            /\ \A i \in 1..Len(spec.inits) : i \in DOMAIN all /\ Listed(i) = spec.inits[i]
            /\ \A i \in 1..Len(spec.apps) :
                 Len(spec.inits) + i \in DOMAIN all /\ Listed(Len(spec.inits) + i) = spec.apps[i]
<1> DEFINE inits == [i \in DOMAIN spec.inits |-> status[spec.inits[i]]]
           apps == [i \in DOMAIN spec.apps |-> status[spec.apps[i]]]
           S == {inits[i] : i \in DOMAIN spec.inits} \cup {apps[i] : i \in DOMAIN spec.apps}
<1>1. /\ Len(spec.inits) \in Nat /\ Len(spec.apps) \in Nat
      /\ DOMAIN spec.inits = 1..Len(spec.inits) /\ DOMAIN spec.apps = 1..Len(spec.apps)
  BY ViewsAssumption, LenProperties
<1>2. inits \in Seq(S) /\ Len(inits) = Len(spec.inits)
  BY <1>1, IsASeq
<1>3. apps \in Seq(S) /\ Len(apps) = Len(spec.apps)
  BY <1>1, IsASeq
<1>4. /\ \A i \in 1..Len(spec.inits) : inits[i] = status[spec.inits[i]]
      /\ \A i \in 1..Len(spec.apps) : apps[i] = status[spec.apps[i]]
  BY <1>1
<1>5. _normalize_pod.init_containers = inits /\ _normalize_pod.containers = apps
  BY DEF _normalize_pod
<1> HIDE DEF inits, apps, S
<1> DEFINE all == inits \o apps
<1>6. /\ all \in Seq(S) /\ Len(all) = Len(inits) + Len(apps)
      /\ \A i \in 1..(Len(inits) + Len(apps)) :
           all[i] = IF i <= Len(inits) THEN inits[i] ELSE apps[i - Len(inits)]
  BY <1>2, <1>3, ConcatProperties
<1>7. DOMAIN all = 1..(Len(spec.inits) + Len(spec.apps))
  BY <1>2, <1>3, <1>6, LenProperties
<1> HIDE DEF all
<1> DEFINE n == Len(spec.inits)
           k == Len(spec.apps)
<1>8. /\ n \in Nat /\ k \in Nat /\ Len(inits) = n /\ Len(apps) = k
      /\ DOMAIN all = 1..(n + k)
      /\ \A i : Listed(i) = IF i <= n THEN spec.inits[i] ELSE spec.apps[i - n]
  BY <1>1, <1>2, <1>3, <1>7 DEF Listed
<1>9. /\ \A i \in 1..n : inits[i] = status[spec.inits[i]]
      /\ \A i \in 1..k : apps[i] = status[spec.apps[i]]
      /\ \A i \in 1..(n + k) : all[i] = IF i <= n THEN inits[i] ELSE apps[i - n]
  BY <1>4, <1>6, <1>8
<1> HIDE DEF n, k
<1>10. ASSUME NEW i \in 1..(n + k)
       PROVE  all[i] = status[Listed(i)]
  <2>1. i \in Nat /\ 1 <= i /\ i <= n + k
    BY <1>8
  <2>2. CASE i <= n
    <3>1. i \in 1..n
      BY <1>8, <2>1, <2>2
    <3> QED
      BY <1>8, <1>9, <2>2, <3>1
  <2>3. CASE ~(i <= n)
    <3>1. i - n \in 1..k
      BY <1>8, <2>1, <2>3
    <3> QED
      BY <1>8, <1>9, <2>3, <3>1
  <2> QED
    BY <2>2, <2>3
<1>11. ASSUME NEW i \in 1..n
       PROVE  i \in 1..(n + k) /\ Listed(i) = spec.inits[i]
  BY <1>8
<1>12. ASSUME NEW i \in 1..k
       PROVE  n + i \in 1..(n + k) /\ Listed(n + i) = spec.apps[i]
  <2>1. n + i \in 1..(n + k) /\ ~(n + i <= n) /\ (n + i) - n = i
    BY <1>8
  <2> QED
    BY <1>8, <2>1
<1>13. /\ DOMAIN all = 1..(n + k)
       /\ \A i \in DOMAIN all : all[i] = status[Listed(i)]
       /\ \A i \in 1..n : i \in DOMAIN all /\ Listed(i) = spec.inits[i]
       /\ \A i \in 1..k : n + i \in DOMAIN all /\ Listed(n + i) = spec.apps[i]
  BY <1>8, <1>10, <1>11, <1>12
<1> QED
  BY <1>1, <1>5, <1>13, Zenon DEF all, n, k

\* A container whose reason a listing gives.
Telling(c) ==
  status[c].state # "running" /\ status[c].reason \notin {None, "Completed", "PodInitializing"}

Size == Len(spec.inits) + Len(spec.apps)

\* The first to be listed of those.
Names(c) ==
  /\ Telling(c)
  /\ \E m \in 1..Size : Listed(m) = c /\ \A i \in 1..Size : Telling(Listed(i)) => m <= i

AllReady == \A c \in Range(spec.apps) : status[c].ready

LEMMA ListedContainers ==
  ASSUME spec \in PodSpecs
  PROVE  Containers(spec) = {Listed(i) : i \in 1..Size}
<1> DEFINE n == Len(spec.inits)
           k == Len(spec.apps)
<1>1. /\ n \in Nat /\ k \in Nat /\ Size = n + k
      /\ DOMAIN spec.inits = 1..n /\ DOMAIN spec.apps = 1..k
      /\ \A i \in 1..n : i \in 1..Size /\ Listed(i) = spec.inits[i]
      /\ \A i \in 1..k : n + i \in 1..Size /\ Listed(n + i) = spec.apps[i]
      /\ \A i : Listed(i) = IF i <= n THEN spec.inits[i] ELSE spec.apps[i - n]
  BY ListedInOrder, Zenon DEF Size, Listed
<1> HIDE DEF n, k
<1>2. ASSUME NEW i \in 1..Size
      PROVE  i \in 1..n \/ (~(i <= n) /\ i - n \in 1..k)
  BY <1>1
<1>3. \A i \in 1..Size : Listed(i) \in Containers(spec)
  BY <1>1, <1>2 DEF Containers, Inits, Range
<1>4. \A c \in Containers(spec) : \E i \in 1..Size : Listed(i) = c
  BY <1>1 DEF Containers, Inits, Range
<1> QED
  BY <1>3, <1>4

\* The problem of a pod is the first telling reason, or else what its phase says.
LEMMA ProblemListed ==
  ASSUME spec \in PodSpecs
  PROVE  LET problem == _pod_problem(_normalize_pod)
         IN \/ \E c \in Containers(spec) : Names(c) /\ problem = status[c].reason
            \/ /\ \A c \in Containers(spec) : ~Telling(c)
               /\ problem = IF AllReady THEN None ELSE IF Phase = "Running" THEN "NotReady" ELSE Phase
<1> DEFINE pod == _normalize_pod
           all == pod.init_containers \o pod.containers
           telling == {i \in DOMAIN all : /\ all[i].state # "running"
                                          /\ all[i].reason \notin {None, "Completed", "PodInitializing"}}
           rest == IF AllReady THEN None ELSE IF Phase = "Running" THEN "NotReady" ELSE Phase
           problem == _pod_problem(pod)
<1>1. problem = IF telling # {} THEN all[Min(telling)].reason ELSE rest
  BY DEF _pod_problem, _normalize_pod, AllReady
<1>2. /\ Len(spec.inits) \in Nat /\ Len(spec.apps) \in Nat
      /\ DOMAIN spec.inits = 1..Len(spec.inits) /\ DOMAIN spec.apps = 1..Len(spec.apps)
      /\ DOMAIN all = 1..Size
      /\ \A i \in DOMAIN all : all[i] = status[Listed(i)]
      /\ \A i \in 1..Len(spec.inits) : i \in DOMAIN all /\ Listed(i) = spec.inits[i]
      /\ \A i \in 1..Len(spec.apps) :
           Len(spec.inits) + i \in DOMAIN all /\ Listed(Len(spec.inits) + i) = spec.apps[i]
  BY ListedInOrder, Zenon DEF Size
<1> HIDE DEF all, rest, problem
<1>3. telling = {i \in 1..Size : Telling(Listed(i))}
  BY <1>2 DEF Telling
<1>4. \A c \in Containers(spec) : \E i \in 1..Size : Listed(i) = c
  BY ListedContainers
<1>5. \A i \in 1..Size : Listed(i) \in Containers(spec)
  BY ListedContainers
<1> HIDE DEF telling
<1>6. CASE telling = {}
  BY <1>1, <1>3, <1>4, <1>6 DEF problem, rest
<1>7. CASE telling # {}
  <2> DEFINE m == Min(telling)
  <2>1. telling \in SUBSET Nat
    BY <1>3
  <2>2. m \in telling /\ \A i \in telling : m <= i
    BY <1>7, <2>1, LeastIsThere
  <2> HIDE DEF m
  <2>3. m \in 1..Size /\ Telling(Listed(m)) /\ \A i \in 1..Size : Telling(Listed(i)) => m <= i
    BY <1>3, <2>2
  <2>4. Names(Listed(m)) /\ Listed(m) \in Containers(spec)
    BY <1>5, <2>3 DEF Names
  <2>5. problem = status[Listed(m)].reason
    BY <1>1, <1>2, <1>7, <2>3 DEF m
  <2> QED
    BY <2>4, <2>5 DEF problem
<1> QED
  BY <1>6, <1>7

\* No container that tells is listed before one that is down for the pod's fault,
\* unless it is down for it, too.
LEMMA NamesADownOne ==
  ASSUME spec \in PodSpecs, FailsFirst(spec), TurnInv, NEW a \in Containers(spec), Names(a),
         NEW b \in Containers(spec), spec.fault[b] \in Failing,
         status[b].state # "running", Tried(b)
  PROVE  spec.fault[a] \in Failing /\ status[a].state # "running" /\ Tried(a)
<1> DEFINE n == Len(spec.inits)
<1>1. Telling(b) /\ InTurn(b)
  BY ViewsAssumption DEF TurnInv, TurnOK, Telling, Tried, Unstarted
<1>2. /\ n \in Nat /\ Len(spec.apps) \in Nat /\ Size = n + Len(spec.apps)
      /\ DOMAIN spec.inits = 1..n /\ DOMAIN spec.apps = 1..Len(spec.apps)
      /\ \A i \in 1..n : i \in 1..Size /\ Listed(i) = spec.inits[i]
      /\ \A i \in 1..Len(spec.apps) : n + i \in 1..Size /\ Listed(n + i) = spec.apps[i]
  BY ListedInOrder, Zenon DEF Size
<1>3. PICK m \in 1..Size : Listed(m) = a /\ \A i \in 1..Size : Telling(Listed(i)) => m <= i
  BY DEF Names
<1>4. m \in Nat /\ 1 <= m /\ Telling(a) /\ \A c : Done(c) => ~Telling(c)
  BY <1>2, <1>3 DEF Names, Telling, Done
<1> HIDE DEF n
<1>5. CASE b \in Inits(spec)
  <2>1. PICK i \in 1..n : spec.inits[i] = b
    BY <1>2, <1>5 DEF Inits, Range
  <2>2. m <= i /\ m \in 1..n
    BY <1>1, <1>2, <1>3, <1>4, <2>1
  <2>3. spec.inits[m] = a
    BY <1>2, <1>3, <2>2
  <2>4. m < i => Done(a)
    BY <1>1, <1>2, <1>5, <2>1, <2>2, <2>3 DEF InTurn
  <2>5. m = i
    BY <1>4, <2>2, <2>4
  <2> QED
    BY <2>1, <2>3, <2>5
<1>6. CASE b \notin Inits(spec)
  <2>1. PICK i \in 1..Len(spec.apps) : spec.apps[i] = b
    BY <1>2, <1>6 DEF Containers, Inits, Range
  <2>2. m <= n + i
    BY <1>1, <1>2, <1>3, <2>1
  <2>3. ~(m <= n)
    <3>1. m <= n => a \in Inits(spec)
      BY <1>2, <1>3, <1>4 DEF Inits, Range
    <3> QED
      BY <1>1, <1>4, <1>6, <3>1 DEF InTurn, InitsDone
  <2>4. PICK j \in 1..Len(spec.apps) : m = n + j /\ j <= i
    <3>1. m - n \in 1..Len(spec.apps) /\ m = n + (m - n) /\ m - n <= i
      BY <1>2, <1>4, <2>2, <2>3
    <3> QED
      BY <3>1
  <2>5. spec.apps[j] = a
    BY <1>2, <1>3, <2>4
  <2>6. CASE j = i
    BY <2>1, <2>5, <2>6
  <2>7. CASE j < i
    <3>1. Tried(a)
      BY <1>1, <1>2, <1>6, <2>1, <2>5, <2>7 DEF InTurn
    <3>2. \/ spec.fault[a] \in Failing
          \/ spec.fault[a] \in Healthy /\ Configured(a)
      BY <1>2, <2>1, <2>5, <2>7 DEF FailsFirst, Configured
    <3> QED
      BY <1>4, <3>1, <3>2 DEF TurnInv, TurnOK, Telling, Tried
  <2> QED
    BY <2>4, <2>6, <2>7
<1> QED
  BY <1>5, <1>6

\* A pod has a problem exactly if an app container is not ready.
LEMMA ProblemIfUnready ==
  ASSUME ClusterInv
  PROVE  _pod_problem(_normalize_pod) = None <=> AllReady
<1> DEFINE problem == _pod_problem(_normalize_pod)
           rest == IF AllReady THEN None ELSE IF Phase = "Running" THEN "NotReady" ELSE Phase
<1>1. spec \in PodSpecs
  BY DEF ClusterInv, StatusInv
<1>2. \/ \E c \in Containers(spec) : Names(c) /\ problem = status[c].reason
      \/ (\A c \in Containers(spec) : ~Telling(c)) /\ problem = rest
  BY <1>1, ProblemListed, Zenon
<1>3. AllReady => \A c \in Containers(spec) : ~Telling(c)
  <2> SUFFICES ASSUME AllReady
               PROVE  \A c \in Containers(spec) : ~Telling(c)
    OBVIOUS
  <2>1. \A c \in Range(spec.apps) : status[c].state = "running" /\ StatusOK(c)
    BY DEF AllReady, ClusterInv, StatusInv, StatusOK, Containers
  <2>2. InitsDone
    <3>1. PICK c \in Range(spec.apps) : c \notin Inits(spec)
      BY <1>1, ViewsAssumption, Zenon
    <3> QED
      BY <2>1, <3>1 DEF StatusOK, Started
  <2> QED
    BY <2>1, <2>2 DEF Containers, InitsDone, Done, Telling
<1>4. \A c : Names(c) => Telling(c) /\ status[c].reason # None
  BY DEF Names, Telling
<1>5. rest = None <=> AllReady
  BY ViewsAssumption DEF Phase
<1> HIDE DEF problem, rest
<1>6. problem = None <=> AllReady
  BY <1>2, <1>3, <1>4, <1>5
<1> QED
  BY <1>6 DEF problem

\* However the kubelet takes a pod through its states, the trail lists it as
\* unhealthy exactly if an app container is not ready, and with the reason of a
\* container that is down for the pod's fault if there is one (api/trail.py
\* _pod_problem).
THEOREM CulpritsNamed ==
  ASSUME \A s \in PodSpecs : FailsFirst(s)
  PROVE  TrafficSpec => []CulpritNamed
<1>1. ASSUME ClusterInv, TurnInv
      PROVE  CulpritNamed
  <2> DEFINE problem == _pod_problem(_normalize_pod)
             rest == IF AllReady THEN None ELSE IF Phase = "Running" THEN "NotReady" ELSE Phase
             down == {c \in Containers(spec) : /\ spec.fault[c] \in {"crash", "oom", "image"}
                                               /\ status[c].state # "running"
                                               /\ status[c].reason \notin Unstarted}
  <2>1. spec \in PodSpecs /\ FailsFirst(spec)
    BY <1>1 DEF ClusterInv, StatusInv
  <2>2. \/ \E c \in Containers(spec) : Names(c) /\ problem = status[c].reason
        \/ (\A c \in Containers(spec) : ~Telling(c)) /\ problem = rest
    BY <2>1, ProblemListed, Zenon
  <2>3. Phase \in {"Pending", "Running", "Failed", "Succeeded"}
    BY DEF Phase
  <2>4. problem = None <=> AllReady
    BY <1>1, ProblemIfUnready
  <2> HIDE DEF problem
  <2>5. problem \notin {"PodInitializing", "Completed"}
    <3>1. \A c : Names(c) => status[c].reason \notin {"PodInitializing", "Completed"}
      BY DEF Names, Telling
    <3>2. rest \notin {"PodInitializing", "Completed"}
      BY <2>3, ViewsAssumption
    <3> HIDE DEF rest
    <3> QED
      BY <2>2, <3>1, <3>2
  <2>6. ASSUME NEW b \in down
        PROVE  problem \in {status[c].reason : c \in down}
    <3>1. Telling(b)
      BY <1>1, ViewsAssumption DEF TurnInv, TurnOK, Telling, Unstarted, Failing
    <3>2. PICK a \in Containers(spec) : Names(a) /\ problem = status[a].reason
      BY <2>2, <3>1
    <3>3. a \in down
      BY <1>1, <2>1, <3>2, NamesADownOne DEF Failing, Tried
    <3> QED
      BY <3>2, <3>3
  <2> HIDE DEF down
  <2>7. down # {} => problem \in {status[c].reason : c \in down}
    BY <2>6
  <2> QED
    BY <2>4, <2>5, <2>7, Zenon DEF CulpritNamed, AllReady, problem, down
<1> QED
  BY <1>1, TurnInvAlways, PTL

-------------------------------------------------------------------------------
(***************************************************************************)
(* What a poll has found stays visible                                     *)
(***************************************************************************)
ImageReasons == {"ErrImagePull", "ImagePullBackOff"}

\* What a container gets out of only by a restart, if at all.
Lasting == ImageReasons \cup {"CreateContainerConfigError", "Error", "OOMKilled", "CrashLoopBackOff"}

\* A scenario's predicate is for what its pod is made to do: to get ready and stay
\* so, to run without getting ready, to be restarted, or to be stuck.
Telltale(s) ==
  \/ /\ s.ready_when.kind = "pod_ready"
     /\ \A c \in Range(s.apps) : s.fault[c] \in Healthy
  \/ /\ s.ready_when.kind = "pod_not_ready"
     /\ \E c \in Range(s.apps) : s.fault[c] = "unready"
  \/ /\ s.ready_when.kind = "container_reason"
     /\ \/ s.ready_when.min_restarts \in Nat \ {0}
        \/ s.ready_when.min_restarts \in Nat /\ s.ready_when.reasons \subseteq Lasting
        \/ \E ref \in s.refs : ref.via = "volume" /\ Missing(ref)

CauseOK(c) ==
  /\ status[c].reason \in ImageReasons => spec.fault[c] = "image"
  /\ status[c].ready => spec.fault[c] # "unready"

Broken(c) ==
  \/ status[c].restart_count > 0
  \/ status[c].state # "running" /\ status[c].reason \in Lasting

TraceInv ==
  /\ \A c \in Containers(spec) : CauseOK(c)
  /\ seen /\ spec.ready_when.kind = "pod_ready" => AllReady
  /\ seen /\ spec.ready_when.kind = "container_reason" =>
       ~Mounted \/ \E c \in Containers(spec) : Broken(c)

LEMMA BecomesFields ==
  ASSUME StatusInv, NEW c \in Containers(spec), NEW state, NEW reason, NEW restarts,
         Becomes(c, State(state, reason, restarts, FALSE))
  PROVE  /\ status'[c].state = state /\ status'[c].reason = reason
         /\ status'[c].restart_count = restarts /\ ~status'[c].ready
         /\ \A d \in Containers(spec) \ {c} : status'[d] = status[d]
         /\ UNCHANGED <<spec, seen>>
<1> DEFINE s == State(state, reason, restarts, FALSE)
<1>1. s.state = state /\ s.reason = reason /\ s.restart_count = restarts /\ ~s.ready
  BY DEF State
<1>2. UNCHANGED <<spec, seen>> /\ status' = [status EXCEPT ![c] = s]
  BY DEF Becomes
<1> HIDE DEF s
<1> QED
  BY <1>1, <1>2 DEF StatusInv

\* A broken container stays so, a healthy one that is ready stays ready.
LEMMA ContainerTrace ==
  ASSUME ClusterInv, TraceInv, NEW c \in Containers(spec),
         Try(c) \/ Ready(c) \/ Exit(c) \/ BackOff(c) \/ Restart(c)
  PROVE  /\ status'[c].reason \in ImageReasons => spec.fault[c] = "image"
         /\ status'[c].ready => spec.fault[c] # "unready"
         /\ Broken(c) => Broken(c)'
         /\ status[c].ready /\ spec.fault[c] \in Healthy => status'[c].ready
         /\ \A d \in Containers(spec) \ {c} : status'[d] = status[d]
         /\ UNCHANGED <<spec, seen>>
<1>1. /\ StatusInv /\ StatusOK(c) /\ CauseOK(c) /\ status[c].restart_count \in Nat
      /\ None \notin Lasting
  BY StatusFields, ViewsAssumption DEF ClusterInv, TraceInv, Lasting, ImageReasons
<1>2. CASE Try(c)
  <2>1. /\ status[c].state = "waiting" /\ status[c].restart_count = 0 /\ ~status[c].ready
        /\ status[c].reason \in Unstarted \cup {"CreateContainerConfigError", "ErrImagePull",
                                                 "ImagePullBackOff"}
    BY <1>1, <1>2 DEF Try, StatusOK
  <2>2. CASE spec.fault[c] = "image"
    <3>1. PICK reason \in ImageReasons : Becomes(c, State("waiting", reason, 0, FALSE))
      BY <1>2, <2>2 DEF Try, ImageReasons
    <3>2. /\ status'[c].state = "waiting" /\ status'[c].reason = reason /\ ~status'[c].ready
          /\ \A d \in Containers(spec) \ {c} : status'[d] = status[d]
          /\ UNCHANGED <<spec, seen>>
      BY <1>1, <3>1, BecomesFields
    <3> QED
      BY <1>1, <2>1, <2>2, <3>2 DEF Broken, Lasting
  <2>3. CASE spec.fault[c] # "image" /\ ~Configured(c)
    <3>1. Becomes(c, State("waiting", "CreateContainerConfigError", 0, FALSE))
      BY <1>2, <2>3 DEF Try
    <3>2. /\ status'[c].state = "waiting" /\ status'[c].reason = "CreateContainerConfigError"
          /\ ~status'[c].ready
          /\ \A d \in Containers(spec) \ {c} : status'[d] = status[d]
          /\ UNCHANGED <<spec, seen>>
      BY <1>1, <3>1, BecomesFields
    <3> QED
      BY <1>1, <2>1, <2>3, <3>2 DEF Broken, Lasting, ImageReasons
  <2>4. CASE spec.fault[c] # "image" /\ Configured(c)
    <3>1. Becomes(c, State("running", None, 0, FALSE))
      BY <1>2, <2>4 DEF Try
    <3>2. ~Broken(c)
      BY <1>1, <2>1, <2>4 DEF Broken, StatusOK, CauseOK, Lasting, ImageReasons, Unstarted
    <3>3. /\ status'[c].reason = None /\ ~status'[c].ready
          /\ \A d \in Containers(spec) \ {c} : status'[d] = status[d]
          /\ UNCHANGED <<spec, seen>>
      BY <1>1, <3>1, BecomesFields
    <3> QED
      BY <1>1, <2>1, <3>2, <3>3 DEF Lasting
  <2> QED
    BY <2>2, <2>3, <2>4
<1>3. CASE Ready(c)
  <2> DEFINE s == [status[c] EXCEPT !.ready = TRUE]
  <2>1. status[c] \in ContainerStatus
    BY <1>1 DEF StatusInv
  <2>2. /\ s.state = status[c].state /\ s.reason = status[c].reason
        /\ s.restart_count = status[c].restart_count
    BY <2>1 DEF ContainerStatus
  <2>3. s.ready
    BY <2>1 DEF ContainerStatus
  <2>4. /\ UNCHANGED <<spec, seen>> /\ status' = [status EXCEPT ![c] = s]
        /\ spec.fault[c] # "unready"
    BY <1>3 DEF Ready, Becomes
  <2> HIDE DEF s
  <2>5. status'[c] = s /\ \A d \in Containers(spec) \ {c} : status'[d] = status[d]
    BY <1>1, <2>4 DEF StatusInv
  <2> QED
    BY <1>1, <2>2, <2>3, <2>4, <2>5 DEF Broken, CauseOK
<1>4. CASE Exit(c)
  <2>1. /\ Becomes(c, State("terminated", ExitReason(c), status[c].restart_count, FALSE))
        /\ status[c].state = "running" /\ ExitReason(c) # None
    BY <1>4 DEF Exit
  <2>2. ExitReason(c) \notin ImageReasons /\ spec.fault[c] \in Healthy => c \in Inits(spec)
    BY <2>1 DEF ExitReason, ImageReasons, Healthy
  <2>3. ExitReason(c) \notin ImageReasons
    BY <2>1 DEF ExitReason, ImageReasons
  <2>4. /\ status'[c].reason = ExitReason(c) /\ status'[c].restart_count = status[c].restart_count
        /\ ~status'[c].ready
        /\ \A d \in Containers(spec) \ {c} : status'[d] = status[d]
        /\ UNCHANGED <<spec, seen>>
    BY <1>1, <2>1, BecomesFields
  <2> QED
    BY <1>1, <2>1, <2>2, <2>3, <2>4 DEF Broken, StatusOK
<1>5. CASE BackOff(c)
  <2>1. /\ Becomes(c, State("waiting", "CrashLoopBackOff", status[c].restart_count, FALSE))
        /\ status[c].state = "terminated"
    BY <1>5 DEF BackOff
  <2>2. /\ status'[c].state = "waiting" /\ status'[c].reason = "CrashLoopBackOff"
        /\ ~status'[c].ready
        /\ \A d \in Containers(spec) \ {c} : status'[d] = status[d]
        /\ UNCHANGED <<spec, seen>>
    BY <1>1, <2>1, BecomesFields
  <2>3. ~status[c].ready
    BY <1>1, <2>1 DEF StatusOK
  <2> QED
    BY <2>2, <2>3 DEF Broken, Lasting, ImageReasons
<1>6. CASE Restart(c)
  <2> DEFINE restarts == status[c].restart_count + 1
  <2>1. /\ Becomes(c, State("running", None, restarts, FALSE))
        /\ status[c].state = "terminated" \/ status[c].reason = "CrashLoopBackOff"
    BY <1>6 DEF Restart
  <2>2. ~status[c].ready /\ restarts > 0
    BY <1>1, <2>1, ViewsAssumption DEF StatusOK
  <2> HIDE DEF restarts
  <2>3. /\ status'[c].reason = None /\ status'[c].restart_count = restarts
        /\ ~status'[c].ready
        /\ \A d \in Containers(spec) \ {c} : status'[d] = status[d]
        /\ UNCHANGED <<spec, seen>>
    BY <1>1, <2>1, BecomesFields
  <2> QED
    BY <1>1, <2>2, <2>3 DEF Broken, Lasting
<1> QED
  BY <1>2, <1>3, <1>4, <1>5, <1>6

LEMMA ListedStatuses ==
  ASSUME spec \in PodSpecs
  PROVE  LET pod == _normalize_pod
         IN Range(pod.init_containers \o pod.containers) = {status[c] : c \in Containers(spec)}
<1> DEFINE pod == _normalize_pod
           all == pod.init_containers \o pod.containers
<1>1. /\ Len(spec.inits) \in Nat /\ Len(spec.apps) \in Nat
      /\ DOMAIN spec.inits = 1..Len(spec.inits) /\ DOMAIN spec.apps = 1..Len(spec.apps)
      /\ DOMAIN all = 1..Size
      /\ \A i \in DOMAIN all : all[i] = status[Listed(i)]
      /\ \A i \in 1..Len(spec.inits) : i \in DOMAIN all /\ Listed(i) = spec.inits[i]
      /\ \A i \in 1..Len(spec.apps) :
           Len(spec.inits) + i \in DOMAIN all /\ Listed(Len(spec.inits) + i) = spec.apps[i]
  BY ListedInOrder, Zenon DEF Size
<1>2. Containers(spec) = {Listed(i) : i \in 1..Size}
  BY ListedContainers
<1> HIDE DEF all
<1>3. Range(all) = {status[c] : c \in Containers(spec)}
  BY <1>1, <1>2 DEF Range
<1> QED
  BY <1>3 DEF all

LEMMA PollTrace ==
  ASSUME ClusterInv, TraceInv, Poll, Telltale(spec)
  PROVE  TraceInv'
<1> DEFINE pod == _normalize_pod
           when == spec.ready_when
<1>1. /\ UNCHANGED <<spec, status, events>> /\ _predicate_met(pod)
      /\ \A c \in Containers(spec) : CauseOK(c)
  BY DEF Poll, TraceInv
<1>2. pod.pod_ready <=> AllReady
  BY DEF _normalize_pod, AllReady
<1>3. when.kind = "pod_ready" => AllReady
  BY <1>1, <1>2 DEF _predicate_met
<1>4. ASSUME when.kind = "container_reason"
      PROVE  ~Mounted \/ \E c \in Containers(spec) : Broken(c)
  <2>1. PICK s \in Range(pod.init_containers \o pod.containers) :
          s.reason \in when.reasons /\ s.restart_count >= when.min_restarts
    BY <1>1, <1>4 DEF _predicate_met, _check_container_reason
  <2>2. PICK c \in Containers(spec) : s = status[c]
    BY ListedStatuses DEF ClusterInv, StatusInv
  <2>3. /\ status[c].restart_count \in Nat
        /\ status[c].state = "running" => status[c].reason = None
    BY StatusFields DEF ClusterInv, StatusOK
  <2>4. CASE when.min_restarts \in Nat \ {0}
    BY <2>1, <2>2, <2>3, <2>4 DEF Broken
  <2>5. CASE when.reasons \subseteq Lasting
    <3>1. None \notin Lasting
      BY ViewsAssumption DEF Lasting, ImageReasons
    <3> QED
      BY <2>1, <2>2, <2>3, <2>5, <3>1 DEF Broken
  <2>6. CASE \E ref \in spec.refs : ref.via = "volume" /\ Missing(ref)
    BY <2>6 DEF Mounted
  <2> QED
    BY <1>4, <2>4, <2>5, <2>6 DEF Telltale
<1> HIDE DEF pod, when
<1>5. /\ \A c \in Containers(spec)' : CauseOK(c)'
      /\ AllReady' <=> AllReady
      /\ Mounted' <=> Mounted
      /\ \A c : Broken(c)' <=> Broken(c)
      /\ Containers(spec)' = Containers(spec)
  BY <1>1 DEF CauseOK, AllReady, Mounted, Missing, Broken, Containers, Inits
<1> QED
  BY <1>1, <1>3, <1>4, <1>5 DEF TraceInv, when

LEMMA TraceInvStep ==
  ASSUME ClusterInv, TraceInv, Telltale(spec), [Next /\ UNCHANGED net]_trafficvars
  PROVE  TraceInv'
<1>1. CASE \E c \in Containers(spec) :
             Try(c) \/ Ready(c) \/ Exit(c) \/ BackOff(c) \/ Restart(c)
  <2>1. PICK c \in Containers(spec) : Try(c) \/ Ready(c) \/ Exit(c) \/ BackOff(c) \/ Restart(c)
    BY <1>1
  <2>2. /\ status'[c].reason \in ImageReasons => spec.fault[c] = "image"
        /\ status'[c].ready => spec.fault[c] # "unready"
        /\ Broken(c) => Broken(c)'
        /\ status[c].ready /\ spec.fault[c] \in Healthy => status'[c].ready
        /\ \A d \in Containers(spec) \ {c} : status'[d] = status[d]
        /\ UNCHANGED <<spec, seen>>
    BY <2>1, ContainerTrace
  <2>3. \A d \in Containers(spec) : CauseOK(d)'
    BY <2>2 DEF CauseOK, TraceInv
  <2>4. \A d \in Containers(spec) : Broken(d) => Broken(d)'
    BY <2>2 DEF Broken
  <2>5. ASSUME spec.ready_when.kind = "pod_ready", AllReady
        PROVE  AllReady'
    <3>1. \A d \in Range(spec.apps) : spec.fault[d] \in Healthy
      BY <2>5 DEF Telltale
    <3> QED
      BY <2>2, <2>5, <3>1 DEF AllReady, Containers
  <2>6. Mounted' <=> Mounted
    BY <2>2 DEF Mounted, Missing
  <2>7. Containers(spec)' = Containers(spec)
    BY <2>2 DEF Containers, Inits
  <2> QED
    BY <2>2, <2>3, <2>4, <2>5, <2>6, <2>7 DEF TraceInv
<1>2. CASE Poll
  BY <1>2, PollTrace
<1>3. CASE FailedMount \/ UNCHANGED trafficvars \/ \E other \in Others : Noise(other)
  <2>1. UNCHANGED <<spec, status, seen>>
    BY <1>3 DEF FailedMount, Noise, trafficvars, vars
  <2> QED
    BY <2>1 DEF TraceInv, CauseOK, AllReady, Mounted, Missing, Broken, Containers, Inits
<1> QED
  BY <1>1, <1>2, <1>3 DEF Next

LEMMA TraceInvInit == TrafficInit => TraceInv
<1> SUFFICES ASSUME TrafficInit PROVE TraceInv
  OBVIOUS
<1> DEFINE reason == IF spec.inits = <<>> THEN "ContainerCreating" ELSE "PodInitializing"
           s == State("waiting", reason, 0, FALSE)
<1>1. ~seen /\ status = [c \in Containers(spec) |-> s]
  BY DEF TrafficInit, Init, Waiting
<1>2. s.reason = reason /\ ~s.ready /\ reason \notin ImageReasons
  BY DEF State, ImageReasons
<1> HIDE DEF s, reason
<1> QED
  BY <1>1, <1>2 DEF TraceInv, CauseOK

\* Once the eval harness has found its predicate met (eval/cluster.py), the listing of
\* the pod never again looks like that of a healthy one that never failed, or, where
\* the pod is to be healthy, is never again anything else.
THEOREM FailureTraced ==
  ASSUME \A s \in PodSpecs : Telltale(s)
  PROVE  TrafficSpec => []FailureLeavesTrace
<1>1. ASSUME ClusterInv, TraceInv
      PROVE  FailureLeavesTrace
  <2> DEFINE pod == _normalize_pod
             all == pod.init_containers \o pod.containers
  <2>1. Telltale(spec) /\ spec \in PodSpecs
    BY <1>1 DEF ClusterInv, StatusInv
  <2>2. _pod_problem(pod) = None <=> AllReady
    BY <1>1, ProblemIfUnready
  <2>3. \A c \in Containers(spec) : status[c] \in Range(all)
    BY <2>1, ListedStatuses
  <2>4. ASSUME seen, spec.ready_when.kind # "pod_ready", AllReady
        PROVE  \E c \in Containers(spec) : status[c].restart_count > 0
    <3>1. \A c \in Range(spec.apps) : /\ status[c].state = "running" /\ StatusOK(c) /\ CauseOK(c)
                                      /\ status[c].ready
      BY <1>1, <2>4 DEF AllReady, ClusterInv, StatusInv, StatusOK, Containers, TraceInv
    <3>2. Mounted /\ InitsDone
      <4>1. PICK c \in Range(spec.apps) : c \notin Inits(spec)
        BY <2>1, ViewsAssumption, Zenon
      <4> QED
        BY <3>1, <4>1 DEF StatusOK, Started
    <3>3. spec.ready_when.kind = "container_reason"
      BY <2>1, <2>4, <3>1 DEF Telltale, CauseOK
    <3>4. PICK c \in Containers(spec) : Broken(c)
      BY <1>1, <2>4, <3>2, <3>3 DEF TraceInv
    <3>5. ~(status[c].state # "running" /\ status[c].reason \in Lasting)
      BY <3>1, <3>2 DEF Containers, InitsDone, Done, Lasting, ImageReasons
    <3> QED
      BY <3>4, <3>5 DEF Broken
  <2> HIDE DEF pod, all
  <2>5. ASSUME seen, spec.ready_when.kind # "pod_ready", AllReady
        PROVE  \E s \in Range(all) : s.restart_count > 0
    BY <2>3, <2>4, <2>5
  <2>6. seen /\ spec.ready_when.kind = "pod_ready" => AllReady
    BY <1>1 DEF TraceInv
  <2> QED
    BY <2>2, <2>5, <2>6 DEF FailureLeavesTrace, pod, all
<1>2. TrafficInit => ClusterInv /\ TraceInv
  BY ClusterInvInit, TraceInvInit
<1>3. ClusterInv /\ TraceInv /\ [Next /\ UNCHANGED net]_trafficvars => (ClusterInv /\ TraceInv)'
  BY ClusterInvStep, TraceInvStep DEF ClusterInv, StatusInv
<1> QED
  BY <1>1, <1>2, <1>3, PTL DEF TrafficSpec

-------------------------------------------------------------------------------
(***************************************************************************)
(* The events of an object                                                 *)
(***************************************************************************)
\* What the limit keeps of any events: those that fewer than LIMIT of them are newer than.
LEMMA NewestKept ==
  ASSUME EventsInv, NEW P \in SUBSET (DOMAIN events), NEW i \in P,
         Cardinality({j \in P : j < i}) < LIMIT
  PROVE  i \in Newest(P)
<1> DEFINE newer == {j \in P : j < i}
<1>1. DOMAIN events = 1..Len(events) /\ Len(events) \in Nat /\ LIMIT \in Nat
  BY ViewsAssumption DEF EventsInv
<1>2. {j \in P : j <= i} = newer \cup {i} /\ i \notin newer
  <2>1. \A j \in P : j <= i <=> j < i \/ j = i
    BY <1>1
  <2>2. i <= i /\ ~(i < i)
    BY <1>1
  <2> QED
    BY <2>1, <2>2, Zenon
<1>3. IsFiniteSet(newer)
  <2>1. IsFiniteSet(1..Len(events)) /\ newer \in SUBSET (1..Len(events))
    BY <1>1, FS_Interval
  <2> QED
    BY <2>1, FS_Subset
<1>4. Cardinality(newer) < LIMIT /\ Cardinality(newer) \in Nat
  BY <1>3, FS_CardinalityType
<1> HIDE DEF newer
<1>5. Cardinality({j \in P : j <= i}) = Cardinality(newer) + 1
  BY <1>2, <1>3, FS_AddElement
<1>6. Cardinality({j \in P : j <= i}) <= LIMIT
  BY <1>1, <1>4, <1>5
<1> QED
  BY <1>6 DEF Newest

\* get_recent_events in tools/events.py and describe_resource, which asks it about one
\* object: for any pods, any events of them and of others, and any limit, a warning of
\* the pod is in its description until LIMIT newer events are about the pod itself.
THEOREM WarningsShown == TrafficSpec => []DescribeShowsWarnings
<1>1. ASSUME ClusterInv
      PROVE  DescribeShowsWarnings
  <2> DEFINE own == {i \in DOMAIN events : events[i].object = "pod"}
  <2>1. own = About("pod")
    BY ViewsAssumption DEF About
  <2>2. SUFFICES ASSUME NEW i \in own, Cardinality({j \in own : j < i}) < LIMIT
                 PROVE  events[i] \in get_recent_events("pod")
    BY DEF DescribeShowsWarnings
  <2>3. EventsInv /\ own \in SUBSET (DOMAIN events)
    BY <1>1 DEF ClusterInv
  <2> HIDE DEF own
  <2>4. i \in Newest(own)
    BY <2>2, <2>3, NewestKept
  <2> QED
    BY <2>1, <2>4 DEF get_recent_events
<1> QED
  BY <1>1, ClusterInvAlways, PTL
===============================================================================
