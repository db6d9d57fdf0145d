----------------------------- MODULE ClusterViews -----------------------------
(***************************************************************************)
(* What the read-only tools (backend/tools) report of a pod, its           *)
(* configuration and its events, and what two readers make of it: the      *)
(* trail of the initial sweep (api/trail.py), shown to users, and the      *)
(* readiness predicates of the eval harness (eval/cluster.py).             *)
(*                                                                         *)
(* External, from what src/ says of it: the kubelet, which takes the       *)
(* containers of a pod through their states, and the events other objects  *)
(* of the namespace get.  A pod description is a record                    *)
(*   [inits, apps : sequences of container names, restarts : BOOLEAN,      *)
(*    fault : container -> what is wrong with it, refs : set of references *)
(*    to Secrets and ConfigMaps, ready_when : the harness's predicate].    *)
(***************************************************************************)
EXTENDS Integers, SequencesExt

CONSTANTS
  PodSpecs,      \* the pods, one of which is in the namespace
  Objects,       \* name -> its data keys and binary keys
  LIMIT,         \* get_recent_events' limit
  MaxRestarts,   \* BOUND: restarts of a container
  Others,        \* the other objects events are about; a few
  None

VARIABLES
  spec,      \* the pod's description
  status,    \* container -> state, reason, restart_count, ready, as the API has it
  events,    \* of the namespace, newest first
  seen       \* has a poll of the harness found its predicate met?

vars == <<spec, status, events, seen>>

State(state, reason, restarts, ready) ==
  [state |-> state, reason |-> reason, restart_count |-> restarts, ready |-> ready]

Inits(s) == Range(s.inits)
Containers(s) == Inits(s) \cup Range(s.apps)

\* A pod has a container, and each its own name.
ASSUME ViewsAssumption ==
  /\ LIMIT \in Nat
  /\ \A s \in PodSpecs :
       /\ s.inits \in Seq(Inits(s)) /\ s.apps \in Seq(Range(s.apps))
       /\ Range(s.apps) # {} /\ Inits(s) \cap Range(s.apps) = {}
  /\ \A name \in DOMAIN Objects : Objects[name] # None
  /\ None \notin {"ContainerCreating", "PodInitializing", "CreateContainerConfigError",
                  "ErrImagePull", "ImagePullBackOff", "CrashLoopBackOff",
                  "Error", "OOMKilled", "Completed",
                  "NotReady", "Pending", "Running", "Failed", "Succeeded", "pod"}

\* A pod with init containers waits for them in all of its containers.
Unstarted == {"ContainerCreating", "PodInitializing"}
Waiting(s) == State("waiting", IF s.inits = <<>> THEN "ContainerCreating" ELSE "PodInitializing",
                    0, FALSE)

Init ==
  /\ spec \in PodSpecs
  /\ status = [c \in Containers(spec) |-> Waiting(spec)]
  /\ events = <<>> /\ seen = FALSE

-------------------------------------------------------------------------------
(***************************************************************************)
(* The kubelet                                                             *)
(***************************************************************************)
\* The key is not in the object, or there is no such object; a variable is only
\* read from data keys, a volume from binary ones, too.
Missing(ref) ==
  /\ ~ref.optional
  /\ \/ ref.name \notin DOMAIN Objects
     \/ /\ ref.key # None
        /\ ref.key \notin Objects[ref.name].keys
        /\ ref.via = "volume" => ref.key \notin Objects[ref.name].binary_keys

Mounted == ~\E ref \in spec.refs : ref.via = "volume" /\ Missing(ref)
Configured(c) == ~\E ref \in spec.refs : ref.container = c /\ Missing(ref)

Done(c) == status[c].state = "terminated" /\ status[c].reason = "Completed"
InitsDone == \A c \in Inits(spec) : Done(c)

\* Containers are tried in their order, the init containers each to its end.
MayTry(c) ==
  /\ Mounted
  /\ IF c \in Inits(spec)
     THEN \A i, j \in DOMAIN spec.inits : spec.inits[i] = c /\ j < i => Done(spec.inits[j])
     ELSE /\ InitsDone
          /\ \A i, j \in DOMAIN spec.apps : spec.apps[i] = c /\ j < i =>
               status[spec.apps[j]].reason \notin Unstarted

\* An event is recorded, or counted again and the newest of all.
Recorded(object, type, reason) ==
  LET event == [object |-> object, type |-> type, reason |-> reason]
  IN events' = <<event>> \o RemoveFirst(events, event)

Becomes(c, s) == status' = [status EXCEPT ![c] = s] /\ UNCHANGED <<spec, seen>>

FailedMount ==
  /\ ~Mounted
  /\ Recorded("pod", "Warning", "FailedMount") /\ UNCHANGED <<spec, status, seen>>

Try(c) ==
  LET waits(reason) ==
        Becomes(c, State("waiting", reason, 0, FALSE)) /\ Recorded("pod", "Warning", "Failed")
  IN /\ MayTry(c) /\ status[c].state = "waiting" /\ status[c].restart_count = 0
     /\ status[c].reason \in Unstarted \cup {"CreateContainerConfigError", "ErrImagePull",
                                              "ImagePullBackOff"}
     /\ IF spec.fault[c] = "image"
        THEN waits(IF status[c].reason = "ErrImagePull" THEN "ImagePullBackOff" ELSE "ErrImagePull")
        ELSE IF ~Configured(c) THEN waits("CreateContainerConfigError")
        ELSE Becomes(c, State("running", None, 0, FALSE)) /\ Recorded("pod", "Normal", "Started")

\* The probe passes, or there is none.
Ready(c) ==
  /\ c \notin Inits(spec) /\ status[c].state = "running" /\ ~status[c].ready
  /\ spec.fault[c] # "unready"
  /\ Becomes(c, [status[c] EXCEPT !.ready = TRUE]) /\ UNCHANGED events

ExitReason(c) ==
  CASE spec.fault[c] = "crash" -> "Error"
    [] spec.fault[c] = "oom" -> "OOMKilled"
    [] spec.fault[c] = "exits" -> "Completed"
    [] spec.fault[c] = "none" /\ c \in Inits(spec) -> "Completed"
    [] OTHER -> None

Exit(c) ==
  /\ status[c].state = "running" /\ ExitReason(c) # None
  /\ Becomes(c, State("terminated", ExitReason(c), status[c].restart_count, FALSE))
  /\ UNCHANGED events

WillRestart(c) == spec.restarts /\ (c \in Inits(spec) => ~Done(c))

BackOff(c) ==
  /\ status[c].state = "terminated" /\ WillRestart(c)
  /\ Becomes(c, State("waiting", "CrashLoopBackOff", status[c].restart_count, FALSE))
  /\ Recorded("pod", "Warning", "BackOff")

Restart(c) ==
  /\ WillRestart(c) /\ status[c].restart_count < MaxRestarts
  /\ status[c].state = "terminated" \/ status[c].reason = "CrashLoopBackOff"
  /\ Becomes(c, State("running", None, status[c].restart_count + 1, FALSE))
  /\ UNCHANGED events

Noise(other) ==
  /\ Recorded(other, "Normal", "Scheduled")
  /\ UNCHANGED <<spec, status, seen>>

-------------------------------------------------------------------------------
(***************************************************************************)
(* The tools                                                               *)
(***************************************************************************)
Phase ==
  LET apps == {status[c] : c \in Range(spec.apps)}
      ended(s) == s.state = "terminated" \/ s.restart_count > 0 \/ s.reason = "CrashLoopBackOff"
      failed == \E c \in Containers(spec) : status[c].reason \in {"Error", "OOMKilled"}
  IN IF ~InitsDone THEN IF failed /\ ~spec.restarts THEN "Failed" ELSE "Pending"
     ELSE IF \E s \in apps : s.state = "waiting" /\ ~ended(s) THEN "Pending"
     ELSE IF spec.restarts \/ \E s \in apps : s.state = "running" THEN "Running"
     ELSE IF failed THEN "Failed" ELSE "Succeeded"

\* Mutants of _normalize_pod: init containers are in a list nobody reads.
_normalize_pod_AppsOnly ==
  [phase |-> Phase, pod_ready |-> \A c \in Range(spec.apps) : status[c].ready,
   init_containers |-> <<>>, containers |-> [i \in DOMAIN spec.apps |-> status[spec.apps[i]]]]

_normalize_pod ==
  [phase |-> Phase, pod_ready |-> \A c \in Range(spec.apps) : status[c].ready,
   init_containers |-> [i \in DOMAIN spec.inits |-> status[spec.inits[i]]],
   containers |-> [i \in DOMAIN spec.apps |-> status[spec.apps[i]]]]

About(object) == {i \in DOMAIN events : object # None => events[i].object = object}
Newest(positions) == {i \in positions : Cardinality({j \in positions : j <= i}) <= LIMIT}

\* Mutant of get_recent_events: the limit before the filter.
get_recent_events_CutFirst(object) ==
  {events[i] : i \in About(object) \cap Newest(DOMAIN events)}

\* The newest LIMIT, of one object if it is named.
get_recent_events(object) == {events[i] : i \in Newest(About(object))}

\* Mutant of _config_references: app containers only.
_config_references_AppsOnly ==
  {ref \in spec.refs : ref.via = "volume" \/ ref.container \in Range(spec.apps)}

\* Of init and app containers and of volumes: names and keys, never values.
_config_references ==
  {ref \in spec.refs : ref.via = "volume" \/ ref.container \in Containers(spec)}

\* describe_resource of a Secret or ConfigMap; a 404 is an answer as well.
_summarize_configmap(name) == IF name \in DOMAIN Objects THEN Objects[name] ELSE None

-------------------------------------------------------------------------------
(***************************************************************************)
(* Their readers                                                           *)
(***************************************************************************)
\* The reason a pod is listed as unhealthy, init containers first, or None.
_pod_problem(pod) ==
  LET all == pod.init_containers \o pod.containers
      telling == {i \in DOMAIN all : /\ all[i].state # "running"
                                     /\ all[i].reason \notin {None, "Completed", "PodInitializing"}}
  IN IF telling # {} THEN all[Min(telling)].reason
     ELSE IF pod.pod_ready THEN None
     ELSE IF pod.phase = "Running" THEN "NotReady" ELSE pod.phase

_check_container_reason(pod, when) ==
  \E c \in Range(pod.init_containers \o pod.containers) :
    c.reason \in when.reasons /\ c.restart_count >= when.min_restarts

\* Mutant of _predicate_met: any container that does not run will do.
_predicate_met_NotRunning(pod) ==
  CASE spec.ready_when.kind = "container_reason" ->
         \E c \in Range(pod.containers) : c.state # "running"
    [] spec.ready_when.kind = "pod_not_ready" -> pod.phase = "Running" /\ ~pod.pod_ready
    [] spec.ready_when.kind = "pod_ready" -> pod.phase = "Running" /\ pod.pod_ready

_predicate_met(pod) ==
  CASE spec.ready_when.kind = "container_reason" -> _check_container_reason(pod, spec.ready_when)
    [] spec.ready_when.kind = "pod_not_ready" -> pod.phase = "Running" /\ ~pod.pod_ready
    [] spec.ready_when.kind = "pod_ready" -> pod.phase = "Running" /\ pod.pod_ready

Poll ==
  /\ _predicate_met(_normalize_pod)
  /\ seen' = TRUE /\ UNCHANGED <<spec, status, events>>

Next ==
  \/ \E c \in Containers(spec) :
       Try(c) \/ Ready(c) \/ Exit(c) \/ BackOff(c) \/ Restart(c)
  \/ FailedMount \/ Poll
  \/ \E other \in Others : Noise(other)

Spec == Init /\ [][Next]_vars

-------------------------------------------------------------------------------
(***************************************************************************)
(* Properties                                                              *)
(***************************************************************************)
\* A listing of the pod at any moment shows it as unhealthy exactly if an app
\* container is not ready (or never will be: a finished job is listed too), never
\* as waiting behind an init container without naming it, and if one of its
\* containers is down for the pod's fault, with that container's own reason.
CulpritNamed ==
  LET problem == _pod_problem(_normalize_pod)
      down == {c \in Containers(spec) : /\ spec.fault[c] \in {"crash", "oom", "image"}
                                        /\ status[c].state # "running"
                                        /\ status[c].reason \notin Unstarted}
  IN /\ problem = None <=> \A c \in Range(spec.apps) : status[c].ready
     /\ problem \notin {"PodInitializing", "Completed"}
     /\ down # {} => problem \in {status[c].reason : c \in down}

\* What the harness waited for stays visible: once a poll has found the predicate
\* of a broken scenario met, every later listing of the pod shows a problem or the
\* restarts of a container, also while a container of a crash loop happens to be
\* up; and a pod a scenario wants healthy is never listed again.
FailureLeavesTrace ==
  seen =>
    LET pod == _normalize_pod
    IN IF spec.ready_when.kind = "pod_ready" THEN _pod_problem(pod) = None
       ELSE \/ _pod_problem(pod) # None
            \/ \E c \in Range(pod.init_containers \o pod.containers) : c.restart_count > 0

\* The references describe_resource reports, held against the keys it reports of
\* the objects, say which container or mount is blocked by its configuration, and
\* blame none that is not.
Unmet(ref) ==
  LET object == _summarize_configmap(ref.name)
  IN /\ ref \in _config_references /\ ~ref.optional
     /\ \/ object = None
        \/ ref.key # None /\ ref.key \notin object.keys
           /\ ~(ref.via = "volume" /\ ref.key \in object.binary_keys)

BlockedIsExplained ==
  /\ \A c \in Containers(spec) :
       /\ status[c].reason = "CreateContainerConfigError" =>
            \E ref \in spec.refs : ref.container = c /\ Unmet(ref)
       /\ status[c].state \in {"running", "terminated"} =>
            ~\E ref \in spec.refs : (ref.container = c \/ ref.via = "volume") /\ Unmet(ref)
  /\ (\E i \in DOMAIN events : events[i].reason = "FailedMount") =>
       \E ref \in spec.refs : ref.via = "volume" /\ Unmet(ref)

\* describe_resource of a pod shows each of its warnings until LIMIT newer events are
\* about the pod, however many are about other objects of the namespace.
DescribeShowsWarnings ==
  LET own == {i \in DOMAIN events : events[i].object = "pod"}
      newer(i) == {j \in own : j < i}
  IN \A i \in own : events[i].type = "Warning" /\ Cardinality(newer(i)) < LIMIT =>
       events[i] \in get_recent_events("pod")
===============================================================================
