--------------------------- MODULE EvalHarnessProofs ---------------------------
(***************************************************************************)
(* The agent is asked about a scenario that is there, whole and broken,    *)
(* nothing of it is left up, and the report adds up: for any scenarios,    *)
(* any state the cluster is found in and any faults of kubectl, the agent  *)
(* and the judge.                                                          *)
(***************************************************************************)
EXTENDS EvalHarness, SequenceTheorems, FiniteSetTheorems, NaturalsInduction, TLAPS

Current == Order[run]

\* What is known of the current run's namespaces once a setup command is behind it.
Behind(c) ==
  /\ c.verb \in {"create", "apply"} => cluster[c.ns].phase = "live"
  /\ c.verb = "create" => cluster[c.ns].made = run
  /\ c.verb = "apply" => cluster[c.ns].applied

Standing(ns) ==
  cluster[ns].phase = "live" /\ cluster[ns].made = run /\ cluster[ns].applied

\* Namespaces that are up by the harness's doing, and that no delete failed on.
Up(ns) ==
  ns \in Namespaces \ undeleted /\ cluster[ns].made # 0 /\ cluster[ns].phase = "live"

Stages == {"setup", "waiting", "agent", "follow_ups", "judging", "teardown",
           "reported", "aborted"}

RunTypeOK ==
  /\ run \in DOMAIN Order
  /\ at \in Stages
  /\ done \in Nat
  /\ cluster \in [Namespaces -> Namespace]
  /\ undeleted \subseteq Namespaces

SetupInv ==
  /\ at = "setup" =>
       /\ done <= Len(SetupCommands(Current))
       /\ \A j \in 1..done : Behind(SetupCommands(Current)[j])
  /\ at \in {"waiting", "agent", "follow_ups"} => \A ns \in Own(Current) : Standing(ns)
  /\ at \in {"agent", "follow_ups"} => cluster[<<Current, "main">>].broken

\* Only the current scenario's namespaces are up, and in its teardown only those
\* whose turn has not come.
TeardownInv ==
  /\ at = "teardown" => done <= Len(TeardownCommands(Current))
  /\ ~KeepNamespaces /\ at # "aborted" =>
       \A ns \in Namespaces : Up(ns) =>
         /\ at # "reported" /\ ns \in Own(Current)
         /\ at = "teardown" => \A j \in 1..done : TeardownCommands(Current)[j].ns # ns

HarnessInv == RunTypeOK /\ SetupInv /\ TeardownInv

-------------------------------------------------------------------------------
(***************************************************************************)
(* The commands of a scenario                                              *)
(***************************************************************************)
LEMMA TupleConcat ==
  /\ \A a, b : <<a>> \o <<b>> = <<a, b>>
  /\ \A a : <<a>> \o <<>> = <<a>>
  /\ \A a, c, d : <<a>> \o <<c, d>> = <<a, c, d>>
  /\ \A a, b, c, d : <<a, b>> \o <<c, d>> = <<a, b, c, d>>
  /\ \A a, b, c, d, e, f : <<a, b, c, d>> \o <<e, f>> = <<a, b, c, d, e, f>>
<1>1. ASSUME NEW a, NEW b
      PROVE  <<a>> \o <<b>> = <<a, b>>
  <2> DEFINE S == {a, b}
  <2>1. <<a>> \in Seq(S) /\ <<b>> \in Seq(S) /\ <<a, b>> \in Seq(S)
    OBVIOUS
  <2>2. /\ <<a>> \o <<b>> \in Seq(S) /\ Len(<<a>> \o <<b>>) = 2
        /\ \A i \in 1..2 : (<<a>> \o <<b>>)[i] =
             IF i <= 1 THEN <<a>>[i] ELSE <<b>>[i - 1]
    <3> HIDE DEF S
    <3>1. Len(<<a>>) = 1 /\ Len(<<b>>) = 1
      OBVIOUS
    <3> QED
      BY <2>1, <3>1, ConcatProperties
  <2>3. \A i \in 1..2 : (<<a>> \o <<b>>)[i] = <<a, b>>[i]
    BY <2>2
  <2> HIDE DEF S
  <2> QED
    BY <2>1, <2>2, <2>3, SeqEqual
<1>2. ASSUME NEW a, NEW c, NEW d
      PROVE  <<a>> \o <<c, d>> = <<a, c, d>>
  <2> DEFINE S == {a, c, d}
  <2>1. <<a>> \in Seq(S) /\ <<c, d>> \in Seq(S) /\ <<a, c, d>> \in Seq(S)
    OBVIOUS
  <2>2. /\ <<a>> \o <<c, d>> \in Seq(S) /\ Len(<<a>> \o <<c, d>>) = 3
        /\ \A i \in 1..3 : (<<a>> \o <<c, d>>)[i] =
             IF i <= 1 THEN <<a>>[i] ELSE <<c, d>>[i - 1]
    <3> HIDE DEF S
    <3>1. Len(<<a>>) = 1 /\ Len(<<c, d>>) = 2
      OBVIOUS
    <3> QED
      BY <2>1, <3>1, ConcatProperties
  <2>3. \A i \in 1..3 : (<<a>> \o <<c, d>>)[i] = <<a, c, d>>[i]
    BY <2>2
  <2> HIDE DEF S
  <2> QED
    BY <2>1, <2>2, <2>3, SeqEqual
<1>3. ASSUME NEW a, NEW b, NEW c, NEW d
      PROVE  <<a, b>> \o <<c, d>> = <<a, b, c, d>>
  <2> DEFINE S == {a, b, c, d}
  <2>1. <<a, b>> \in Seq(S) /\ <<c, d>> \in Seq(S) /\ <<a, b, c, d>> \in Seq(S)
    OBVIOUS
  <2>2. /\ <<a, b>> \o <<c, d>> \in Seq(S) /\ Len(<<a, b>> \o <<c, d>>) = 4
        /\ \A i \in 1..4 : (<<a, b>> \o <<c, d>>)[i] =
             IF i <= 2 THEN <<a, b>>[i] ELSE <<c, d>>[i - 2]
    <3> HIDE DEF S
    <3>1. Len(<<a, b>>) = 2 /\ Len(<<c, d>>) = 2
      OBVIOUS
    <3> QED
      BY <2>1, <3>1, ConcatProperties
  <2>3. \A i \in 1..4 : (<<a, b>> \o <<c, d>>)[i] = <<a, b, c, d>>[i]
    BY <2>2
  <2> HIDE DEF S
  <2> QED
    BY <2>1, <2>2, <2>3, SeqEqual
<1>4. ASSUME NEW a, NEW b, NEW c, NEW d, NEW e, NEW f
      PROVE  <<a, b, c, d>> \o <<e, f>> = <<a, b, c, d, e, f>>
  <2> DEFINE S == {a, b, c, d, e, f}
  <2>1. <<a, b, c, d>> \in Seq(S) /\ <<e, f>> \in Seq(S) /\ <<a, b, c, d, e, f>> \in Seq(S)
    OBVIOUS
  <2>2. /\ <<a, b, c, d>> \o <<e, f>> \in Seq(S) /\ Len(<<a, b, c, d>> \o <<e, f>>) = 6
        /\ \A i \in 1..6 : (<<a, b, c, d>> \o <<e, f>>)[i] =
             IF i <= 4 THEN <<a, b, c, d>>[i] ELSE <<e, f>>[i - 4]
    <3> HIDE DEF S
    <3>1. Len(<<a, b, c, d>>) = 4 /\ Len(<<e, f>>) = 2
      OBVIOUS
    <3> QED
      BY <2>1, <3>1, ConcatProperties
  <2>3. \A i \in 1..6 : (<<a, b, c, d>> \o <<e, f>>)[i] = <<a, b, c, d, e, f>>[i]
    BY <2>2
  <2> HIDE DEF S
  <2> QED
    BY <2>1, <2>2, <2>3, SeqEqual
<1>5. \A a : <<a>> \o <<>> = <<a>>
  OBVIOUS
<1> QED
  BY <1>1, <1>2, <1>3, <1>4, <1>5

LEMMA CommandsSpelled ==
  ASSUME NEW s, NEW verb
  PROVE  /\ s \in WithAux =>
              /\ Both(s, verb) = <<Cmd(verb, s, "main"), Cmd(verb, s, "aux")>>
              /\ SetupCommands(s) =
                   <<Cmd("delete_wait", s, "main"), Cmd("delete_wait", s, "aux"),
                     Cmd("create", s, "aux"), Cmd("apply", s, "aux"),
                     Cmd("create", s, "main"), Cmd("apply", s, "main")>>
         /\ s \notin WithAux =>
              /\ Both(s, verb) = <<Cmd(verb, s, "main")>>
              /\ SetupCommands(s) =
                   <<Cmd("delete_wait", s, "main"),
                     Cmd("create", s, "main"), Cmd("apply", s, "main")>>
<1>1. ASSUME NEW v, s \in WithAux
      PROVE  Both(s, v) = <<Cmd(v, s, "main"), Cmd(v, s, "aux")>>
  BY <1>1, TupleConcat DEF Both
<1>2. ASSUME NEW v, s \notin WithAux
      PROVE  Both(s, v) = <<Cmd(v, s, "main")>>
  BY <1>2, TupleConcat DEF Both
<1>3. ASSUME s \in WithAux
      PROVE  SetupCommands(s) =
               <<Cmd("delete_wait", s, "main"), Cmd("delete_wait", s, "aux"),
                 Cmd("create", s, "aux"), Cmd("apply", s, "aux"),
                 Cmd("create", s, "main"), Cmd("apply", s, "main")>>
  <2> DEFINE dm == Cmd("delete_wait", s, "main")
             da == Cmd("delete_wait", s, "aux")
             ca == Cmd("create", s, "aux")
             aa == Cmd("apply", s, "aux")
             cm == Cmd("create", s, "main")
             am == Cmd("apply", s, "main")
  <2>1. Both(s, "delete_wait") = <<dm, da>>
    BY <1>1, <1>3
  <2>2. SetupCommands(s) = Both(s, "delete_wait") \o <<ca, aa>> \o <<cm, am>>
    BY <1>3 DEF SetupCommands
  <2> HIDE DEF dm, da, ca, aa, cm, am
  <2>3. <<dm, da>> \o <<ca, aa>> = <<dm, da, ca, aa>>
    BY TupleConcat
  <2>4. <<dm, da, ca, aa>> \o <<cm, am>> = <<dm, da, ca, aa, cm, am>>
    BY TupleConcat
  <2>5. SetupCommands(s) = <<dm, da, ca, aa, cm, am>>
    BY <2>1, <2>2, <2>3, <2>4, Zenon
  <2> QED
    BY <2>5 DEF dm, da, ca, aa, cm, am
<1>4. ASSUME s \notin WithAux
      PROVE  SetupCommands(s) =
               <<Cmd("delete_wait", s, "main"),
                 Cmd("create", s, "main"), Cmd("apply", s, "main")>>
  <2>1. SetupCommands(s) =
          Both(s, "delete_wait") \o <<>> \o <<Cmd("create", s, "main"), Cmd("apply", s, "main")>>
    BY <1>4 DEF SetupCommands
  <2>2. Both(s, "delete_wait") \o <<>> = <<Cmd("delete_wait", s, "main")>>
    BY <1>2, <1>4, TupleConcat, Zenon
  <2> QED
    BY <2>1, <2>2, TupleConcat, Zenon
<1> QED
  BY <1>1, <1>2, <1>3, <1>4

LEMMA OwnNamespaces ==
  ASSUME NEW s \in Scenarios
  PROVE  Own(s) = {<<s, "main">>} \cup (IF s \in WithAux THEN {<<s, "aux">>} ELSE {})
BY DEF Own, Namespaces

LEMMA SetupShape ==
  ASSUME NEW s \in Scenarios
  PROVE  LET cmds == SetupCommands(s)
         IN /\ Len(cmds) \in Nat
            /\ \A k \in 1..Len(cmds) :
                 /\ cmds[k].verb \in {"delete_wait", "create", "apply"} /\ cmds[k].ns \in Own(s)
                 /\ \A j \in 1..(k - 1) : cmds[j].verb \in {"create", "apply"} =>
                      /\ cmds[k].verb # "delete_wait"
                      /\ cmds[k].verb = "create" => cmds[k].ns # cmds[j].ns
            /\ \A ns \in Own(s) :
                 /\ \E j \in 1..Len(cmds) : cmds[j].verb = "create" /\ cmds[j].ns = ns
                 /\ \E j \in 1..Len(cmds) : cmds[j].verb = "apply" /\ cmds[j].ns = ns
<1>1. CASE s \in WithAux
  <2>1. SetupCommands(s) =
          <<[verb |-> "delete_wait", ns |-> <<s, "main">>], [verb |-> "delete_wait", ns |-> <<s, "aux">>],
            [verb |-> "create", ns |-> <<s, "aux">>], [verb |-> "apply", ns |-> <<s, "aux">>],
            [verb |-> "create", ns |-> <<s, "main">>], [verb |-> "apply", ns |-> <<s, "main">>]>>
    BY <1>1, CommandsSpelled DEF Cmd
  <2>2. Own(s) = {<<s, "main">>, <<s, "aux">>}
    BY <1>1, OwnNamespaces
  <2> DEFINE cmds == SetupCommands(s)
             main == <<s, "main">>
             aux == <<s, "aux">>
  <2>3. Len(cmds) = 6 /\ main # aux
    BY <2>1
  <2>4. /\ cmds[1].verb = "delete_wait" /\ cmds[2].verb = "delete_wait"
        /\ cmds[3].verb = "create" /\ cmds[4].verb = "apply"
        /\ cmds[5].verb = "create" /\ cmds[6].verb = "apply"
    BY <2>1
  <2>5. /\ cmds[1].ns = main /\ cmds[2].ns = aux /\ cmds[3].ns = aux
        /\ cmds[4].ns = aux /\ cmds[5].ns = main /\ cmds[6].ns = main
    BY <2>1
  <2> HIDE DEF cmds, main, aux
  <2>6. \A k \in 1..6 : k = 1 \/ k = 2 \/ k = 3 \/ k = 4 \/ k = 5 \/ k = 6
    OBVIOUS
  <2>7. \A k \in 1..6 :
          /\ cmds[k].verb \in {"delete_wait", "create", "apply"} /\ cmds[k].ns \in {main, aux}
          /\ \A j \in 1..(k - 1) : cmds[j].verb \in {"create", "apply"} =>
               /\ cmds[k].verb # "delete_wait"
               /\ cmds[k].verb = "create" => cmds[k].ns # cmds[j].ns
    BY <2>3, <2>4, <2>5, <2>6
  <2>8. \A ns \in {main, aux} :
          /\ \E j \in 1..6 : cmds[j].verb = "create" /\ cmds[j].ns = ns
          /\ \E j \in 1..6 : cmds[j].verb = "apply" /\ cmds[j].ns = ns
    BY <2>4, <2>5
  <2> QED
    BY <2>2, <2>3, <2>7, <2>8 DEF cmds, main, aux
<1>2. CASE s \notin WithAux
  <2>1. SetupCommands(s) =
          <<[verb |-> "delete_wait", ns |-> <<s, "main">>],
            [verb |-> "create", ns |-> <<s, "main">>], [verb |-> "apply", ns |-> <<s, "main">>]>>
    BY <1>2, CommandsSpelled DEF Cmd
  <2>2. Own(s) = {<<s, "main">>}
    BY <1>2, OwnNamespaces
  <2> QED
    BY <2>1, <2>2
<1> QED
  BY <1>1, <1>2

LEMMA TeardownShape ==
  ASSUME NEW s \in Scenarios
  PROVE  LET cmds == TeardownCommands(s)
         IN /\ Len(cmds) \in Nat
            /\ \A k \in 1..Len(cmds) : cmds[k].verb = "delete" /\ cmds[k].ns \in Own(s)
            /\ ~KeepNamespaces =>
                 \A ns \in Own(s) : \E j \in 1..Len(cmds) : cmds[j].ns = ns
<1>1. CASE KeepNamespaces
  BY <1>1 DEF TeardownCommands
<1>2. CASE ~KeepNamespaces /\ s \in WithAux
  <2>1. TeardownCommands(s) = <<[verb |-> "delete", ns |-> <<s, "main">>],
                                [verb |-> "delete", ns |-> <<s, "aux">>]>>
    BY <1>2, CommandsSpelled DEF Cmd, TeardownCommands
  <2>2. Own(s) = {<<s, "main">>, <<s, "aux">>}
    BY <1>2, OwnNamespaces
  <2> QED
    BY <2>1, <2>2
<1>3. CASE ~KeepNamespaces /\ s \notin WithAux
  <2>1. TeardownCommands(s) = <<[verb |-> "delete", ns |-> <<s, "main">>]>>
    BY <1>3, CommandsSpelled DEF Cmd, TeardownCommands
  <2>2. Own(s) = {<<s, "main">>}
    BY <1>3, OwnNamespaces
  <2> QED
    BY <2>1, <2>2
<1> QED
  BY <1>1, <1>2, <1>3
-------------------------------------------------------------------------------
(***************************************************************************)
(* The steps                                                               *)
(***************************************************************************)
LEMMA CurrentIsScenario ==
  ASSUME RunTypeOK
  PROVE  /\ Current \in Scenarios /\ <<Current, "main">> \in Own(Current)
         /\ Own(Current) \subseteq Namespaces
<1>1. Current \in Scenarios
  BY DEF RunTypeOK, Current, Scenarios
<1> QED
  BY <1>1 DEF Own, Namespaces

\* What any outcome of kubectl may do to the namespace it is about.
LEMMA OutcomeShape ==
  ASSUME RunTypeOK, NEW c, c.ns \in Namespaces,
         c.verb \in {"delete_wait", "create", "apply", "delete"},
         _kubectl_ok(c) \/ _kubectl_fails(c) \/ _kubectl_hangs(c)
  PROVE  /\ cluster' \in [Namespaces -> Namespace]
         /\ undeleted' \subseteq Namespaces
         /\ \A ns \in Namespaces \ {c.ns} :
              cluster'[ns] = cluster[ns] /\ (ns \in undeleted' <=> ns \in undeleted)
         /\ c.verb \in {"create", "apply"} => UNCHANGED undeleted
         /\ Deletes(c) => cluster'[c.ns].phase # "live" \/ c.ns \in undeleted'
<1>1. /\ run \in Nat /\ cluster \in [Namespaces -> Namespace] /\ undeleted \subseteq Namespaces
      /\ cluster[c.ns] \in Namespace /\ Absent \in Namespace
      /\ Deletes(c) <=> c.verb \notin {"create", "apply"}
  BY HarnessAssumption DEF RunTypeOK, Absent, Namespace, Deletes
<1>2. AfterCommand(c) \in Namespace /\ (Deletes(c) => AfterCommand(c).phase # "live")
  BY <1>1 DEF AfterCommand, Absent, Namespace, Deletes
<1>3. MayHaveBegun(c) =>
        /\ cluster' \in [Namespaces -> Namespace]
        /\ \A ns \in Namespaces \ {c.ns} : cluster'[ns] = cluster[ns]
  <2>1. [cluster[c.ns] EXCEPT !.phase = "terminating"] \in Namespace
    BY <1>1 DEF Namespace
  <2> QED
    BY <1>1, <2>1 DEF MayHaveBegun
<1>4. CASE _kubectl_ok(c)
  BY <1>1, <1>2, <1>4 DEF _kubectl_ok
<1>5. CASE _kubectl_fails(c)
  BY <1>1, <1>3, <1>5 DEF _kubectl_fails
<1>6. CASE _kubectl_hangs(c)
  BY <1>1, <1>3, <1>6 DEF _kubectl_hangs
<1> QED
  BY <1>4, <1>5, <1>6

\* A command of the setup either is behind the run then, or ends it.
LEMMA SetupCommandStep ==
  ASSUME HarnessInv, at = "setup", Kubectl
  PROVE  HarnessInv'
<1> PICK k \in {done + 1} : TRUE
  OBVIOUS
<1> DEFINE cmds == SetupCommands(Current)
           c == cmds[k]
<1>1. /\ RunTypeOK /\ Current \in Scenarios /\ Own(Current) \subseteq Namespaces
      /\ Len(cmds) \in Nat /\ run \in Nat /\ cluster \in [Namespaces -> Namespace]
  BY CurrentIsScenario, SetupShape, HarnessAssumption DEF HarnessInv, RunTypeOK
<1>2. /\ Steps = cmds /\ done \in Nat /\ k = done + 1 /\ k \in 1..Len(cmds)
      /\ _kubectl_ok(c) \/ _kubectl_fails(c) \/ _kubectl_hangs(c)
      /\ UNCHANGED run /\ UNCHANGED Current
  BY <1>1 DEF Kubectl, Steps, Current, RunTypeOK
<1>3. /\ c.verb \in {"delete_wait", "create", "apply"} /\ c.ns \in Own(Current)
      /\ \A j \in 1..done : cmds[j].verb \in {"create", "apply"} =>
           c.verb # "delete_wait" /\ (c.verb = "create" => c.ns # cmds[j].ns)
  <2>1. \A j \in 1..done : j \in 1..(k - 1)
    BY <1>2
  <2> QED
    BY <1>1, <1>2, <2>1, SetupShape
<1>4. /\ cluster' \in [Namespaces -> Namespace] /\ undeleted' \subseteq Namespaces
      /\ \A ns \in Namespaces \ {c.ns} :
           cluster'[ns] = cluster[ns] /\ (ns \in undeleted' <=> ns \in undeleted)
      /\ Deletes(c) => cluster'[c.ns].phase # "live" \/ c.ns \in undeleted'
  BY <1>1, <1>2, <1>3, OutcomeShape
<1>5. \/ at' = "setup" /\ done' = done + 1 /\ (_kubectl_ok(c) \/ c.verb = "delete_wait")
      \/ at' = "teardown" /\ done' = 0
  BY <1>2, <1>3 DEF _kubectl_ok, _kubectl_fails, _kubectl_hangs, Fails, Checked
<1>6. RunTypeOK'
  BY <1>1, <1>2, <1>4, <1>5 DEF RunTypeOK, Stages
<1>7. ASSUME at' = "setup"
      PROVE  done' <= Len(cmds) /\ \A j \in 1..done' : Behind(cmds[j])'
  <2>1. /\ done' = done + 1 /\ (_kubectl_ok(c) \/ c.verb = "delete_wait")
        /\ \A j \in 1..done : Behind(cmds[j])
    BY <1>5, <1>7 DEF HarnessInv, SetupInv
  <2>2. ASSUME NEW j \in 1..done
        PROVE  Behind(cmds[j])'
    <3>1. j \in 1..Len(cmds)
      BY <1>1, <1>2
    <3>2. cmds[j].ns \in Namespaces /\ Behind(cmds[j])
      BY <1>1, <2>1, <3>1, SetupShape
    <3>3. CASE cmds[j].verb \notin {"create", "apply"}
      BY <1>2, <3>3 DEF Behind
    <3>4. CASE cmds[j].verb \in {"create", "apply"} /\ cmds[j].ns # c.ns
      BY <1>2, <1>4, <3>2, <3>4 DEF Behind
    <3>5. CASE cmds[j].verb \in {"create", "apply"} /\ cmds[j].ns = c.ns
      <4>1. c.verb = "apply" /\ _kubectl_ok(c)
        BY <1>3, <2>1, <3>5
      <4>2. cluster'[c.ns] = [cluster[c.ns] EXCEPT !.applied = TRUE]
            /\ cluster[c.ns] \in Namespace
        BY <1>1, <3>2, <3>5, <4>1 DEF _kubectl_ok, AfterCommand
      <4> QED
        BY <1>2, <3>2, <3>5, <4>2 DEF Behind, Namespace
    <3> QED
      BY <3>3, <3>4, <3>5
  <2>3. Behind(c)'
    <3>1. c.verb = "create" \/ c.verb = "apply" => cluster'[c.ns] = AfterCommand(c)
          /\ (c.verb = "apply" => cluster[c.ns].phase = "live")
      BY <1>1, <1>3, <2>1 DEF _kubectl_ok, CanSucceed
    <3>2. c.ns \in Namespaces /\ cluster[c.ns] \in Namespace
      BY <1>1, <1>3
    <3> QED
      BY <1>2, <3>1, <3>2 DEF Behind, AfterCommand, Absent, Namespace
  <2>4. \A j \in 1..done' : j \in 1..done \/ j = k
    BY <1>2, <2>1
  <2> QED
    BY <1>1, <1>2, <2>1, <2>2, <2>3, <2>4
<1>8. SetupInv'
  BY <1>2, <1>5, <1>7 DEF SetupInv, Current
<1>9. ASSUME ~KeepNamespaces, NEW ns \in Namespaces, Up(ns)'
      PROVE  ns \in Own(Current)
  <2>1. CASE ns = c.ns
    BY <1>3, <2>1
  <2>2. CASE ns # c.ns
    BY <1>4, <1>9, <2>2 DEF HarnessInv, TeardownInv, Up
  <2> QED
    BY <2>1, <2>2
<1>10. TeardownInv'
  BY <1>1, <1>2, <1>5, <1>9, TeardownShape DEF TeardownInv, Current
<1> QED
  BY <1>6, <1>8, <1>10 DEF HarnessInv
\* A namespace whose delete is behind the teardown is not up any more.
LEMMA TeardownCommandStep ==
  ASSUME HarnessInv, at = "teardown", Kubectl
  PROVE  HarnessInv'
<1> PICK k \in {done + 1} : TRUE
  OBVIOUS
<1> DEFINE cmds == TeardownCommands(Current)
           c == cmds[k]
<1>1. /\ RunTypeOK /\ Current \in Scenarios /\ Own(Current) \subseteq Namespaces
      /\ Len(cmds) \in Nat
  BY CurrentIsScenario, TeardownShape DEF HarnessInv
<1>2. /\ Steps = cmds /\ done \in Nat /\ k = done + 1 /\ k \in 1..Len(cmds)
      /\ _kubectl_ok(c) \/ _kubectl_fails(c) \/ _kubectl_hangs(c)
      /\ UNCHANGED run /\ UNCHANGED Current
  BY <1>1 DEF Kubectl, Steps, Current, RunTypeOK
<1>3. c.verb = "delete" /\ c.ns \in Own(Current) /\ Deletes(c)
  BY <1>1, <1>2, TeardownShape DEF Deletes
<1>4. /\ cluster' \in [Namespaces -> Namespace] /\ undeleted' \subseteq Namespaces
      /\ \A ns \in Namespaces \ {c.ns} :
           cluster'[ns] = cluster[ns] /\ (ns \in undeleted' <=> ns \in undeleted)
      /\ cluster'[c.ns].phase # "live" \/ c.ns \in undeleted'
  BY <1>1, <1>2, <1>3, OutcomeShape
<1>5. \/ at' = "teardown" /\ done' = k
      \/ at' = "aborted" /\ done' = done
  BY <1>2, <1>3 DEF _kubectl_ok, _kubectl_fails, _kubectl_hangs, Checked
<1>6. RunTypeOK'
  BY <1>1, <1>2, <1>4, <1>5 DEF RunTypeOK, Stages
<1>7. SetupInv'
  BY <1>5 DEF SetupInv
<1>8. ASSUME ~KeepNamespaces, NEW ns \in Namespaces, Up(ns)'
      PROVE  ns \in Own(Current) /\ \A j \in 1..k : cmds[j].ns # ns
  <2>1. ns # c.ns /\ Up(ns)
    BY <1>4, <1>8 DEF Up
  <2>2. ns \in Own(Current) /\ \A j \in 1..done : cmds[j].ns # ns
    BY <1>8, <2>1 DEF HarnessInv, TeardownInv
  <2>3. \A j \in 1..k : j \in 1..done \/ j = k
    BY <1>2
  <2> QED
    BY <2>1, <2>2, <2>3
<1>9. TeardownInv'
  BY <1>1, <1>2, <1>5, <1>8 DEF TeardownInv, Current
<1> QED
  BY <1>6, <1>7, <1>9 DEF HarnessInv

\* A run moves on with the cluster as it is: to a stage that asks no more of it, to
\* one whose demands are met, or to its teardown.
LEMMA MovesOn ==
  ASSUME HarnessInv, UNCHANGED <<run, cluster, undeleted>>,
         \/ at' = "teardown" /\ done' = 0 /\ at \in {"waiting", "agent", "follow_ups", "judging"}
         \/ at' = "judging" /\ done' = done /\ at = "follow_ups"
         \/ at' = "follow_ups" /\ done' = done /\ at \in {"agent", "follow_ups"}
         \/ at' = "agent" /\ done' = done /\ at = "waiting" /\ Observed(<<Current, "main">>)
         \/ at' = "judging" /\ done' = done /\ at = "judging"
  PROVE  HarnessInv'
<1>1. UNCHANGED Current
  BY DEF Current
<1>2. RunTypeOK'
  BY DEF HarnessInv, RunTypeOK, Stages
<1>3. SetupInv'
  BY <1>1 DEF HarnessInv, SetupInv, Observed, Standing
<1>4. \A ns \in Namespaces : Up(ns)' <=> Up(ns)
  BY DEF Up
<1>5. TeardownInv'
  <2>1. at # "aborted" /\ at' # "aborted" /\ at' # "reported"
    OBVIOUS
  <2>2. at' = "teardown" => done' = 0
    OBVIOUS
  <2>3. Len(TeardownCommands(Current)) \in Nat
    BY CurrentIsScenario, TeardownShape DEF HarnessInv
  <2> QED
    BY <1>1, <1>4, <2>1, <2>2, <2>3 DEF HarnessInv, TeardownInv
<1> QED
  BY <1>2, <1>3, <1>5 DEF HarnessInv

LEMMA SetupDoneStep ==
  ASSUME HarnessInv, SetupDone
  PROVE  HarnessInv'
<1>1. /\ RunTypeOK /\ Current \in Scenarios /\ UNCHANGED <<run, done, cluster, undeleted>>
      /\ at = "setup" /\ at' = "waiting" /\ done = Len(SetupCommands(Current))
      /\ UNCHANGED Current
  BY CurrentIsScenario DEF SetupDone, Steps, Current, HarnessInv
<1>2. RunTypeOK'
  BY <1>1 DEF RunTypeOK, Stages
<1>3. ASSUME NEW ns \in Own(Current)
      PROVE  Standing(ns)
  <2>1. PICK j \in 1..done : /\ SetupCommands(Current)[j].verb = "create"
                             /\ SetupCommands(Current)[j].ns = ns
    BY <1>1, SetupShape
  <2>2. PICK i \in 1..done : /\ SetupCommands(Current)[i].verb = "apply"
                             /\ SetupCommands(Current)[i].ns = ns
    BY <1>1, SetupShape
  <2>3. Behind(SetupCommands(Current)[j]) /\ Behind(SetupCommands(Current)[i])
    BY <1>1 DEF HarnessInv, SetupInv
  <2> QED
    BY <2>1, <2>2, <2>3 DEF Behind, Standing
<1>4. SetupInv'
  BY <1>1, <1>3 DEF SetupInv, Standing
<1>5. TeardownInv'
  BY <1>1 DEF HarnessInv, TeardownInv, Up
<1> QED
  BY <1>2, <1>4, <1>5 DEF HarnessInv

LEMMA NextScenarioStep ==
  ASSUME HarnessInv, NextScenario
  PROVE  HarnessInv'
<1>1. /\ RunTypeOK /\ Current \in Scenarios /\ UNCHANGED <<cluster, undeleted>>
      /\ at = "teardown" /\ done = Len(TeardownCommands(Current)) /\ done' = 0
  BY CurrentIsScenario DEF NextScenario, Steps, Current, HarnessInv
<1>2. \/ at' = "setup" /\ run' = run + 1 /\ run < Len(Order)
      \/ at' = "reported" /\ run' = run
  BY DEF NextScenario
<1>3. RunTypeOK'
  <2>1. DOMAIN Order = 1..Len(Order) /\ Len(Order) \in Nat
    BY HarnessAssumption
  <2>2. run' \in DOMAIN Order
    BY <1>1, <1>2, <2>1 DEF RunTypeOK
  <2> QED
    BY <1>1, <1>2, <2>2 DEF RunTypeOK, Stages
<1>4. SetupInv'
  <2>1. Len(SetupCommands(Current')) \in Nat
    <3>1. Current' \in Scenarios
      BY <1>3 DEF RunTypeOK, Current, Scenarios
    <3> QED
      BY <3>1, SetupShape
  <2> QED
    BY <1>1, <1>2, <2>1 DEF SetupInv, Current
<1>5. ASSUME ~KeepNamespaces, NEW ns \in Namespaces
      PROVE  ~Up(ns)
  BY <1>1, <1>5, TeardownShape DEF HarnessInv, TeardownInv
<1>6. TeardownInv'
  BY <1>1, <1>2, <1>5 DEF TeardownInv, Up
<1> QED
  BY <1>3, <1>4, <1>6 DEF HarnessInv

\* The cluster's own steps take away nothing a run relies on, and put nothing up.
LEMMA ClusterStep ==
  ASSUME HarnessInv, NEW n \in Namespaces, NamespaceGone(n) \/ Breaks(n)
  PROVE  HarnessInv'
<1>1. /\ RunTypeOK /\ UNCHANGED <<run, at, done, undeleted, Current>>
      /\ Own(Current) \subseteq Namespaces /\ <<Current, "main">> \in Own(Current)
      /\ Current \in Scenarios
  BY CurrentIsScenario DEF HarnessInv, NamespaceGone, Breaks, Current
<1>2. /\ cluster \in [Namespaces -> Namespace] /\ cluster' \in [Namespaces -> Namespace]
      /\ \A ns \in Namespaces :
           /\ cluster[ns].phase = "live" =>
                /\ cluster'[ns].phase = "live" /\ cluster'[ns].made = cluster[ns].made
                /\ cluster'[ns].applied = cluster[ns].applied
                /\ cluster[ns].broken => cluster'[ns].broken
           /\ cluster'[ns].phase = "live" =>
                cluster[ns].phase = "live" /\ cluster[ns].made = cluster'[ns].made
  <2>1. cluster \in [Namespaces -> Namespace] /\ Absent \in Namespace
    BY <1>1 DEF RunTypeOK, Absent, Namespace
  <2>2. CASE NamespaceGone(n)
    BY <2>1, <2>2 DEF NamespaceGone, Absent, Namespace
  <2>3. CASE Breaks(n)
    <3>1. cluster' = [cluster EXCEPT ![n] = [cluster[n] EXCEPT !.broken = TRUE]]
          /\ cluster[n] \in Namespace
      BY <2>1, <2>3 DEF Breaks
    <3>2. [cluster[n] EXCEPT !.broken = TRUE] \in Namespace
      BY <3>1 DEF Namespace
    <3> QED
      BY <2>1, <3>1, <3>2 DEF Namespace
  <2> QED
    BY <2>2, <2>3
<1>3. RunTypeOK'
  BY <1>1, <1>2 DEF RunTypeOK
<1>4. SetupInv'
  <2>1. ASSUME at = "setup", NEW j \in 1..done
        PROVE  Behind(SetupCommands(Current)[j])'
    <3>1. j \in 1..Len(SetupCommands(Current)) /\ Behind(SetupCommands(Current)[j])
      BY <1>1, <2>1, SetupShape DEF HarnessInv, SetupInv, RunTypeOK
    <3>2. SetupCommands(Current)[j].ns \in Namespaces
      BY <1>1, <3>1, SetupShape
    <3> QED
      BY <1>1, <1>2, <3>1, <3>2 DEF Behind
  <2> QED
    BY <1>1, <1>2, <2>1 DEF HarnessInv, SetupInv, Standing
<1>5. TeardownInv'
  BY <1>1, <1>2 DEF HarnessInv, TeardownInv, Up
<1> QED
  BY <1>3, <1>4, <1>5 DEF HarnessInv
LEMMA HarnessInvStep == HarnessInv /\ [Next]_vars => HarnessInv'
<1> SUFFICES ASSUME HarnessInv, [Next]_vars PROVE HarnessInv'
  OBVIOUS
<1>1. CASE Kubectl
  BY <1>1, SetupCommandStep, TeardownCommandStep DEF Kubectl
<1>2. CASE wait_until_broken
  BY <1>2, MovesOn DEF wait_until_broken, Fails, Current
<1>3. CASE AgentRaises
  BY <1>3, MovesOn DEF AgentRaises, Fails
<1>4. CASE AgentAnswers
  BY <1>4, MovesOn DEF AgentAnswers
<1>5. CASE _run_follow_up
  BY <1>5, MovesOn DEF _run_follow_up
<1>6. CASE score_diagnosis
  BY <1>6, MovesOn DEF score_diagnosis, ToTeardown
<1>7. CASE JudgeMalformed
  BY <1>7, MovesOn DEF JudgeMalformed, ToTeardown
<1>8. CASE JudgeSays
  BY <1>8, MovesOn DEF JudgeSays, ToTeardown
<1>9. CASE JudgeRaises
  BY <1>9, MovesOn DEF JudgeRaises, Fails
<1>10. CASE UNCHANGED vars
  <2>1. UNCHANGED <<run, at, done, cluster, undeleted, Current>>
    BY <1>10 DEF vars, Current
  <2> QED
    BY <2>1 DEF HarnessInv, RunTypeOK, SetupInv, TeardownInv, Behind, Standing, Up
<1> QED
  BY <1>1, <1>2, <1>3, <1>4, <1>5, <1>6, <1>7, <1>8, <1>9, <1>10,
     SetupDoneStep, NextScenarioStep, ClusterStep DEF Next, HarnessStep

LEMMA HarnessInvInit == Init => HarnessInv
<1> SUFFICES ASSUME Init PROVE HarnessInv
  OBVIOUS
<1>0. \A x \in {Absent} \cup Leftovers : x \in Namespace /\ x.made = 0
  <2>1. Absent \in Namespace /\ Absent.made = 0
    BY DEF Absent, Namespace
  <2>2. ASSUME NEW x \in Leftovers
        PROVE  x \in Namespace /\ x.made = 0
    <3>1. PICK a \in BOOLEAN : x = [phase |-> "live", made |-> 0, applied |-> a, broken |-> a]
      BY <2>2, Zenon DEF Leftovers
    <3>2. x \in Namespace /\ x.made = 0
      BY <3>1 DEF Namespace
    <3> QED
      BY <3>2
  <2> QED
    BY <2>1, <2>2
<1>1. RunTypeOK
  <2>1. 1 \in DOMAIN Order
    BY HarnessAssumption, EmptySeq
  <2> QED
    BY <1>0, <2>1 DEF Init, RunTypeOK, Stages
<1>2. Len(SetupCommands(Current)) \in Nat
  BY <1>1, CurrentIsScenario, SetupShape
<1>3. \A ns \in Namespaces : cluster[ns].made = 0
  BY <1>0 DEF Init
<1> QED
  BY <1>1, <1>2, <1>3 DEF Init, HarnessInv, SetupInv, TeardownInv, Up

LEMMA HarnessInvAlways == Spec => []HarnessInv
BY HarnessInvInit, HarnessInvStep, PTL DEF Spec

\* run_scenario in eval/runner.py: for any scenarios, leftovers and faults, the agent
\* works only on a scenario that stands whole, by this run's making, and is broken.
THEOREM AgentSeesIt == Spec => []AgentSeesItsScenario
<1>1. HarnessInv => AgentSeesItsScenario
  BY DEF HarnessInv, SetupInv, AgentSeesItsScenario, Standing, Current
<1> QED
  BY <1>1, HarnessInvAlways, PTL

\* teardown_all in eval/cluster.py: whatever a run ended in, its namespaces are down
\* when the harness reports, unless their delete failed.
THEOREM NothingStaysUp == Spec => []NothingLeftUp
<1>1. HarnessInv => NothingLeftUp
  BY DEF HarnessInv, TeardownInv, NothingLeftUp, Up
<1> QED
  BY <1>1, HarnessInvAlways, PTL
-------------------------------------------------------------------------------
(***************************************************************************)
(* The verdicts                                                            *)
(***************************************************************************)
\* What is asked of the final states the harness is given: where the signals are
\* found a reader finds the answer right, and a turn that asks back says nothing.
ReadersAgree ==
  \A f \in FinalStates :
    /\ SignalsPass(_populate_from_state(f)) => _populate_from_state(f).reader.right
    /\ _populate_from_state(f).clarification_requested => ~ProducedOutput(_populate_from_state(f))

Earned(r) ==
  /\ r.correct => /\ r.status = "scored" /\ ProducedOutput(r.found)
                  /\ ~r.found.clarification_requested
  /\ r.status = "scored" /\ r.judge # "none" => (r.correct <=> r.judge = "yes")
  /\ r.correct /\ r.judge = "none" =>
       r.found.reader.right /\ (UseJudge => r.judge_error)

\* No verdict before it is passed: the record of a run that is not graded is incorrect,
\* without a judge's word, and the judge is only asked about an answer.
Ungraded(r) == ~r.correct /\ r.judge = "none"

VerdictInv ==
  /\ at \in {"setup", "waiting", "agent", "follow_ups", "judging"} => Ungraded(record)
  /\ at \in {"follow_ups", "judging"} =>
       /\ record.status = "scored"
       /\ \E f \in FinalStates : record.found = _populate_from_state(f)
  /\ at = "judging" => UseJudge /\ ProducedOutput(record.found)
  /\ Earned(record)
  /\ \A i \in DOMAIN records : Earned(records[i])

RecordInv ==
  /\ record \in RunRecord /\ records \in Seq(RunRecord)
  /\ done <= 6
  /\ attempts \in 0..JUDGE_ATTEMPTS
  /\ at = "judging" => attempts < JUDGE_ATTEMPTS

LEMMA StepsBound ==
  ASSUME NEW s
  PROVE  Len(SetupCommands(s)) <= 6 /\ Len(TeardownCommands(s)) <= 6
<1>1. ASSUME NEW a, NEW b, NEW c, NEW d, NEW e, NEW f
      PROVE  /\ Len(<<a>>) = 1 /\ Len(<<a, b>>) = 2 /\ Len(<<a, b, c>>) = 3
             /\ Len(<<a, b, c, d, e, f>>) = 6
  OBVIOUS
<1>2. Len(<<>>) = 0
  OBVIOUS
<1>3. Len(SetupCommands(s)) = 6 \/ Len(SetupCommands(s)) = 3
  BY <1>1, CommandsSpelled, Zenon
<1>4. Len(Both(s, "delete")) = 2 \/ Len(Both(s, "delete")) = 1
  BY <1>1, CommandsSpelled, Zenon
<1>5. \/ Len(TeardownCommands(s)) = 0
      \/ Len(TeardownCommands(s)) = 2 \/ Len(TeardownCommands(s)) = 1
  BY <1>2, <1>4, Zenon DEF TeardownCommands
<1>6. \A n : n = 6 \/ n = 3 \/ n = 0 \/ n = 2 \/ n = 1 => n <= 6
  OBVIOUS
<1> QED
  BY <1>3, <1>5, <1>6, Zenon

\* What a record of the harness is, field by field.
LEMMA RecordFields ==
  ASSUME NEW r \in RunRecord
  PROVE  /\ r.scenario \in Scenarios
         /\ r.status \in {"setup_failed", "agent_failed", "scoring_failed", "scored"}
         /\ r.found \in {Nothing} \cup {_populate_from_state(f) : f \in FinalStates}
         /\ r.follow_ups \in Seq([route_correct : BOOLEAN, answered : BOOLEAN])
         /\ r.signals \in BOOLEAN /\ r.judge \in {"none", "yes", "no"}
         /\ r.judge_error \in BOOLEAN /\ r.correct \in BOOLEAN
BY Zenon DEF RunRecord

LEMMA NewRecordFacts ==
  ASSUME NEW s \in Scenarios
  PROVE  /\ NewRecord(s) \in RunRecord /\ Ungraded(NewRecord(s)) /\ Earned(NewRecord(s))
         /\ NewRecord(s).status = "setup_failed" /\ NewRecord(s).scenario = s
<1>1. <<>> \in Seq([route_correct : BOOLEAN, answered : BOOLEAN])
  BY EmptySeq
<1> QED
  BY <1>1 DEF NewRecord, RunRecord, Ungraded, Earned

LEMMA GradedFacts ==
  ASSUME record \in RunRecord, NEW verdict \in {"none", "yes", "no"}, NEW error \in BOOLEAN,
         Graded(verdict, error)
  PROVE  /\ record' \in RunRecord
         /\ record'.status = record.status /\ record'.found = record.found
         /\ record'.scenario = record.scenario /\ record'.follow_ups = record.follow_ups
         /\ record'.judge = verdict /\ record'.judge_error = error
         /\ record'.correct <=> (IF verdict # "none" THEN verdict = "yes"
                                 ELSE SignalsPass(record.found) /\ ProducedOutput(record.found))
<1> DEFINE signals == SignalsPass(record.found)
           correct == IF verdict # "none" THEN verdict = "yes"
                      ELSE signals /\ ProducedOutput(record.found)
<1>1. signals \in BOOLEAN /\ correct \in BOOLEAN
  BY DEF SignalsPass, ProducedOutput
<1>2. record' = [record EXCEPT !.signals = signals, !.judge = verdict,
                               !.judge_error = error, !.correct = correct]
  BY DEF Graded
<1> HIDE DEF signals, correct
<1>3. record' \in RunRecord
  BY <1>1, <1>2 DEF RunRecord
<1>4. /\ record'.status = record.status /\ record'.found = record.found
      /\ record'.judge = verdict /\ record'.judge_error = error /\ record'.correct = correct
  BY <1>1, <1>2 DEF RunRecord
<1>5. record'.scenario = record.scenario /\ record'.follow_ups = record.follow_ups
  BY <1>2 DEF RunRecord
<1> QED
  BY <1>3, <1>4, <1>5, Zenon DEF correct, signals

LEMMA FailsFacts ==
  ASSUME record \in RunRecord, NEW status \in {"setup_failed", "agent_failed", "scoring_failed"},
         record' = [record EXCEPT !.status = status]
  PROVE  /\ record' \in RunRecord /\ record'.status = status
         /\ record'.scenario = record.scenario
         /\ record'.correct = record.correct /\ record'.judge = record.judge
<1>1. record' \in RunRecord
  BY DEF RunRecord
<1>2. record'.status = status /\ record'.scenario = record.scenario
  BY DEF RunRecord
<1>3. record'.judge = record.judge
  BY DEF RunRecord
<1>4. record'.correct = record.correct
  BY DEF RunRecord
<1> QED
  BY <1>1, <1>2, <1>3, <1>4

LEMMA AnswersFacts ==
  ASSUME record \in RunRecord, AgentAnswers
  PROVE  /\ record' \in RunRecord /\ record'.status = "scored"
         /\ record'.scenario = record.scenario
         /\ \E f \in FinalStates : record'.found = _populate_from_state(f)
         /\ record'.correct = record.correct /\ record'.judge = record.judge
<1>1. PICK f \in FinalStates :
        record' = [record EXCEPT !.found = _populate_from_state(f), !.status = "scored"]
  BY DEF AgentAnswers
<1> DEFINE found == _populate_from_state(f)
<1>2. found \in {_populate_from_state(g) : g \in FinalStates}
  OBVIOUS
<1>3. record' = [record EXCEPT !.found = found, !.status = "scored"]
  BY <1>1
<1> HIDE DEF found
<1>4. record' \in RunRecord
  BY <1>2, <1>3 DEF RunRecord
<1>5. record'.status = "scored" /\ record'.found = found /\ record'.scenario = record.scenario
  BY <1>3 DEF RunRecord
<1>6. record'.judge = record.judge
  BY <1>3 DEF RunRecord
<1>7. record'.correct = record.correct
  BY <1>3 DEF RunRecord
<1> QED
  BY <1>4, <1>5, <1>6, <1>7 DEF found

LEMMA FollowUpFacts ==
  ASSUME record \in RunRecord, _run_follow_up
  PROVE  /\ record' \in RunRecord /\ record'.status = record.status
         /\ record'.found = record.found /\ record'.scenario = record.scenario
         /\ record'.correct = record.correct /\ record'.judge = record.judge
<1> DEFINE R == [route_correct : BOOLEAN, answered : BOOLEAN]
<1>1. PICK f \in {FollowUpRecord(turn) : turn \in FollowUpTurns} \cup {FollowUpError} :
        record' = [record EXCEPT !.follow_ups = Append(@, f)]
  BY DEF _run_follow_up
<1>2. f \in R
  <2>1. \A turn : FollowUpRecord(turn) \in R
    BY Zenon DEF FollowUpRecord
  <2>2. FollowUpError \in R
    BY DEF FollowUpError
  <2> QED
    BY <2>1, <2>2
<1>3. record.follow_ups \in Seq(R)
  BY RecordFields
<1> HIDE DEF R
<1>4. Append(record.follow_ups, f) \in Seq(R)
  BY <1>2, <1>3, AppendProperties
<1> DEFINE follow_ups == Append(record.follow_ups, f)
<1>5. record' = [record EXCEPT !.follow_ups = follow_ups]
  BY <1>1 DEF RunRecord
<1> HIDE DEF follow_ups
<1>6. record' \in RunRecord
  BY <1>4, <1>5 DEF RunRecord, R, follow_ups
<1>7. /\ record'.status = record.status /\ record'.found = record.found
      /\ record'.scenario = record.scenario
  BY <1>5 DEF RunRecord
<1>8. record'.judge = record.judge
  BY <1>5 DEF RunRecord
<1>9. record'.correct = record.correct
  BY <1>5 DEF RunRecord
<1> QED
  BY <1>6, <1>7, <1>8, <1>9

\* The run's step, and what it makes of the record.
LEMMA RecordInvStep ==
  ASSUME HarnessInv, RecordInv, [Next]_vars
  PROVE  RecordInv'
<1>1. /\ RunTypeOK /\ Current \in Scenarios /\ record \in RunRecord /\ records \in Seq(RunRecord)
      /\ done \in Nat /\ done <= 6 /\ attempts \in 0..JUDGE_ATTEMPTS
      /\ at = "judging" => attempts < JUDGE_ATTEMPTS
      /\ JUDGE_ATTEMPTS \in Nat \ {0} /\ 0 \in 0..JUDGE_ATTEMPTS
  BY CurrentIsScenario, HarnessAssumption DEF HarnessInv, RunTypeOK, RecordInv
<1>2. CASE Kubectl
  <2>1. /\ UNCHANGED <<attempts, records>> /\ at \in {"setup", "teardown"} /\ done < Len(Steps)
        /\ \E c : _kubectl_ok(c) \/ _kubectl_fails(c) \/ _kubectl_hangs(c)
    BY <1>2 DEF Kubectl
  <2>2. Len(Steps) \in Nat /\ Len(Steps) <= 6
    BY <1>1, StepsBound, SetupShape, TeardownShape DEF Steps, Current
  <2>3. /\ UNCHANGED record \/ record' = [record EXCEPT !.status = "setup_failed"]
        /\ done' = done + 1 \/ done' = done \/ done' = 0
        /\ at' \in {at, "teardown", "aborted"}
    BY <2>1 DEF _kubectl_ok, _kubectl_fails, _kubectl_hangs, Fails
  <2>4. record' \in RunRecord
    BY <1>1, <2>3, FailsFacts
  <2> QED
    BY <1>1, <2>1, <2>2, <2>3, <2>4 DEF RecordInv
<1>3. CASE SetupDone \/ UNCHANGED vars \/ \E ns \in Namespaces : NamespaceGone(ns) \/ Breaks(ns)
  BY <1>1, <1>3 DEF SetupDone, vars, NamespaceGone, Breaks, RecordInv
<1>4. CASE wait_until_broken
  BY <1>1, <1>4, FailsFacts DEF wait_until_broken, Fails, RecordInv
<1>5. CASE AgentRaises \/ JudgeRaises
  BY <1>1, <1>5, FailsFacts DEF AgentRaises, JudgeRaises, Fails, RecordInv
<1>6. CASE AgentAnswers
  BY <1>1, <1>6, AnswersFacts DEF AgentAnswers, RecordInv
<1>7. CASE _run_follow_up
  BY <1>1, <1>7, FollowUpFacts DEF _run_follow_up, RecordInv
<1>8. CASE score_diagnosis
  <2>1. record' \in RunRecord
    BY <1>1, <1>8, GradedFacts DEF score_diagnosis
  <2>2. records' = records /\ attempts' = 0 /\ (done' = done \/ done' = 0)
    BY <1>8, Zenon DEF score_diagnosis, ToTeardown
  <2> QED
    BY <1>1, <2>1, <2>2 DEF RecordInv
<1>9. CASE JudgeMalformed
  <2>1. record' \in RunRecord
    BY <1>1, <1>9, GradedFacts DEF JudgeMalformed
  <2>2. /\ records' = records /\ attempts' = attempts + 1 /\ at = "judging"
        /\ done' = done \/ done' = 0
        /\ at' = "judging" => ~OutOfAttempts
    <3>1. "judging" # "teardown"
      OBVIOUS
    <3> QED
      BY <1>9, <3>1, Zenon DEF JudgeMalformed, ToTeardown
  <2> QED
    BY <1>1, <2>1, <2>2 DEF OutOfAttempts, RecordInv
<1>10. CASE JudgeSays
  <2>1. record' \in RunRecord
    BY <1>1, <1>10, GradedFacts DEF JudgeSays
  <2> QED
    BY <1>1, <1>10, <2>1 DEF JudgeSays, ToTeardown, RecordInv
<1>11. CASE NextScenario
  <2>1. records' \in Seq(RunRecord)
    BY <1>1, <1>11, AppendProperties DEF NextScenario, Kept
  <2>2. record' \in RunRecord
    <3>1. CASE run < Len(Order)
      <4>1. run' \in DOMAIN Order /\ run' = run + 1
        BY <1>1, <1>11, <3>1, NextScenarioStep DEF HarnessInv, RunTypeOK, NextScenario
      <4> QED
        BY <1>11, <3>1, <4>1, NewRecordFacts DEF NextScenario, Scenarios
    <3>2. CASE ~(run < Len(Order))
      BY <1>1, <1>11, <3>2 DEF NextScenario
    <3> QED
      BY <3>1, <3>2
  <2> QED
    BY <1>1, <1>11, <2>1, <2>2 DEF NextScenario, RecordInv
<1> QED
  BY <1>2, <1>3, <1>4, <1>5, <1>6, <1>7, <1>8, <1>9, <1>10, <1>11 DEF Next, HarnessStep

LEMMA GradedIsEarned ==
  ASSUME ReadersAgree, record \in RunRecord, record.status = "scored",
         NEW f \in FinalStates, record.found = _populate_from_state(f),
         NEW verdict \in {"none", "yes", "no"}, NEW error \in BOOLEAN, Graded(verdict, error),
         verdict # "none" => ProducedOutput(record.found),
         verdict = "none" /\ UseJudge => error \/ ~ProducedOutput(record.found)
  PROVE  Earned(record')
<1>1. /\ record'.status = "scored" /\ record'.found = record.found
      /\ record'.judge = verdict /\ record'.judge_error = error
      /\ record'.correct <=> (IF verdict # "none" THEN verdict = "yes"
                              ELSE SignalsPass(record.found) /\ ProducedOutput(record.found))
  BY GradedFacts
<1>2. /\ SignalsPass(record.found) => record.found.reader.right
      /\ record.found.clarification_requested => ~ProducedOutput(record.found)
  BY Zenon DEF ReadersAgree
<1>3. "yes" # "none"
  OBVIOUS
<1>4. record'.correct => /\ ProducedOutput(record.found)
                         /\ ~record.found.clarification_requested
                         /\ verdict = "none" => record.found.reader.right /\ (UseJudge => error)
  BY <1>1, <1>2, Zenon
<1>5. verdict # "none" => (record'.correct <=> verdict = "yes")
  BY <1>1, Zenon
<1> QED
  BY <1>1, <1>4, <1>5, Zenon DEF Earned

\* A step that leaves the cluster's and the records' verdicts alone.
LEMMA StillUngraded ==
  ASSUME VerdictInv, record' \in RunRecord, Ungraded(record)', UNCHANGED records,
         at' \in {"follow_ups", "judging"} =>
           /\ record'.status = "scored"
           /\ \E f \in FinalStates : record'.found = _populate_from_state(f),
         at' = "judging" => UseJudge /\ ProducedOutput(record'.found)
  PROVE  VerdictInv'
<1>1. Earned(record')
  BY Zenon DEF Ungraded, Earned
<1> QED
  BY <1>1, Zenon DEF VerdictInv, Ungraded, Earned

LEMMA VerdictInvStep ==
  ASSUME ReadersAgree, HarnessInv, RecordInv, VerdictInv, [Next]_vars
  PROVE  VerdictInv'
<1>1. /\ record \in RunRecord /\ record' \in RunRecord /\ records \in Seq(RunRecord)
      /\ record.correct \in BOOLEAN
      /\ at \in {"setup", "waiting", "agent", "follow_ups", "judging"} => Ungraded(record)
  BY RecordInvStep, RecordFields DEF RecordInv, VerdictInv
<1>2. CASE UNCHANGED <<at, record, records>>
  BY <1>2 DEF VerdictInv, Earned, Ungraded
<1>3. ASSUME UNCHANGED records, at' \in {"waiting", "agent", "setup", "teardown", "aborted"},
             Ungraded(record)'
      PROVE  VerdictInv'
  BY <1>1, <1>3, StillUngraded
<1>4. ASSUME record' = record \/ \E status \in {"setup_failed", "agent_failed", "scoring_failed"} :
                                   record' = [record EXCEPT !.status = status],
             at \in {"setup", "waiting", "agent", "follow_ups", "judging"}
      PROVE  Ungraded(record)'
  BY <1>1, <1>4, FailsFacts DEF Ungraded
<1>5. CASE Kubectl
  <2>1. CASE at = "setup"
    <3>1. /\ UNCHANGED records /\ at' \in {"setup", "teardown"}
          /\ record' = record \/ record' = [record EXCEPT !.status = "setup_failed"]
      BY <1>5, <2>1 DEF Kubectl, _kubectl_ok, _kubectl_fails, _kubectl_hangs, Fails
    <3> QED
      BY <1>3, <1>4, <2>1, <3>1
  <2>2. CASE at = "teardown"
    <3>1. UNCHANGED <<record, records>> /\ at' \in {"teardown", "aborted"}
      <4>1. PICK c \in {Steps[done + 1]} : _kubectl_ok(c) \/ _kubectl_fails(c) \/ _kubectl_hangs(c)
        BY <1>5 DEF Kubectl
      <4>2. Steps = TeardownCommands(Current) /\ done + 1 \in 1..Len(Steps)
        <5>1. done \in Nat /\ done < Len(Steps) /\ Steps = TeardownCommands(Current)
          BY <1>5, <2>2 DEF Kubectl, Steps, Current, HarnessInv, RunTypeOK
        <5>2. Len(Steps) \in Nat
          BY <5>1, CurrentIsScenario, TeardownShape DEF HarnessInv
        <5> QED
          BY <5>1, <5>2
      <4>3. ~Checked(c.verb)
        BY <4>1, <4>2, CurrentIsScenario, TeardownShape DEF HarnessInv, Checked
      <4> QED
        BY <1>5, <2>2, <4>1, <4>3 DEF Kubectl, _kubectl_ok, _kubectl_fails, _kubectl_hangs
    <3> QED
      BY <2>2, <3>1 DEF VerdictInv, Earned
  <2> QED
    BY <1>5, <2>1, <2>2 DEF Kubectl
<1>6. CASE SetupDone \/ wait_until_broken \/ AgentRaises \/ JudgeRaises
  <2>1. /\ at \in {"setup", "waiting", "agent", "judging"} /\ UNCHANGED records
        /\ at' \in {"waiting", "agent", "teardown"}
        /\ record' = record \/ \E status \in {"setup_failed", "agent_failed", "scoring_failed"} :
                                 record' = [record EXCEPT !.status = status]
    BY <1>6 DEF SetupDone, wait_until_broken, AgentRaises, JudgeRaises, Fails
  <2> QED
    BY <1>3, <1>4, <2>1
<1>7. CASE AgentAnswers
  <2>1. at = "agent" /\ at' = "follow_ups" /\ UNCHANGED records
    BY <1>7 DEF AgentAnswers
  <2> QED
    BY <1>1, <1>7, <2>1, AnswersFacts, StillUngraded DEF Ungraded
<1>8. CASE _run_follow_up
  <2>1. at = "follow_ups" /\ at' = "follow_ups" /\ UNCHANGED records
    BY <1>8 DEF _run_follow_up
  <2> QED
    BY <1>1, <1>8, <2>1, FollowUpFacts, StillUngraded DEF Ungraded, VerdictInv
<1>9. ASSUME NEW verdict \in {"none", "yes", "no"}, NEW error \in BOOLEAN, Graded(verdict, error),
             at \in {"follow_ups", "judging"}, at' = "teardown", UNCHANGED records,
             verdict # "none" => ProducedOutput(record.found),
             verdict = "none" /\ UseJudge => error \/ ~ProducedOutput(record.found)
      PROVE  VerdictInv'
  <2>1. Earned(record')
    BY <1>1, <1>9, GradedIsEarned DEF VerdictInv
  <2> QED
    BY <1>9, <2>1 DEF VerdictInv, Earned
<1>10. CASE score_diagnosis
  <2>1. CASE UseJudge /\ ProducedOutput(record.found)
    <3>1. at = "follow_ups" /\ at' = "judging" /\ UNCHANGED <<record, records>>
      BY <1>10, <2>1 DEF score_diagnosis
    <3> QED
      BY <1>1, <2>1, <3>1 DEF VerdictInv, Ungraded, Earned
  <2>2. CASE ~(UseJudge /\ ProducedOutput(record.found))
    <3>1. /\ at = "follow_ups" /\ at' = "teardown" /\ UNCHANGED records
          /\ Graded("none", FALSE)
      BY <1>10, <2>2, Zenon DEF score_diagnosis, ToTeardown
    <3> QED
      BY <1>9, <2>2, <3>1
  <2> QED
    BY <2>1, <2>2
<1>11. CASE JudgeMalformed
  <2>1. CASE OutOfAttempts
    <3>1. /\ at = "judging" /\ at' = "teardown" /\ UNCHANGED records
          /\ Graded("none", TRUE)
      BY <1>11, <2>1, Zenon DEF JudgeMalformed, ToTeardown
    <3> QED
      BY <1>9, <3>1
  <2>2. CASE ~OutOfAttempts
    BY <1>2, <1>11, <2>2 DEF JudgeMalformed
  <2> QED
    BY <2>1, <2>2
<1>12. CASE JudgeSays
  <2>1. /\ at = "judging" /\ at' = "teardown" /\ UNCHANGED records
        /\ \E verdict \in {"yes", "no"} : Graded(verdict, FALSE)
    BY <1>12, Zenon DEF JudgeSays, ToTeardown
  <2>2. ProducedOutput(record.found)
    BY <2>1 DEF VerdictInv
  <2> QED
    BY <1>9, <2>1, <2>2
<1>13. CASE NextScenario
  <2>1. /\ records' = Append(records, record) /\ at = "teardown"
        /\ Earned(record) /\ \A i \in DOMAIN records : Earned(records[i])
    BY <1>13 DEF NextScenario, Kept, VerdictInv
  <2>2. \A i \in DOMAIN records' : Earned(records'[i])
    <3>1. /\ Len(records) \in Nat /\ DOMAIN records = 1..Len(records)
          /\ Len(records') = Len(records) + 1 /\ DOMAIN records' = 1..Len(records')
          /\ \A i \in 1..Len(records) : records'[i] = records[i]
          /\ records'[Len(records) + 1] = record
      BY <1>1, <2>1, AppendProperties
    <3>2. \A i \in 1..Len(records') : i \in 1..Len(records) \/ i = Len(records) + 1
      BY <3>1
    <3> QED
      BY <2>1, <3>1, <3>2, Zenon
  <2>3. CASE run < Len(Order)
    <3>1. run' \in DOMAIN Order /\ run' = run + 1 /\ at' = "setup"
      BY <1>13, <2>3, NextScenarioStep DEF HarnessInv, RunTypeOK, NextScenario
    <3>2. record' = NewRecord(Order[run']) /\ Order[run'] \in Scenarios
      BY <1>13, <2>3, <3>1 DEF NextScenario, Scenarios
    <3>3. Ungraded(record') /\ Earned(record')
      BY <3>2, NewRecordFacts
    <3> QED
      BY <2>2, <3>1, <3>3 DEF VerdictInv, Ungraded, Earned
  <2>4. CASE ~(run < Len(Order))
    <3>1. at' = "reported" /\ UNCHANGED record
      BY <1>13, <2>4 DEF NextScenario
    <3> QED
      BY <2>1, <2>2, <3>1 DEF VerdictInv, Earned
  <2> QED
    BY <2>3, <2>4
<1>14. CASE UNCHANGED vars \/ \E ns \in Namespaces : NamespaceGone(ns) \/ Breaks(ns)
  BY <1>2, <1>14 DEF vars, NamespaceGone, Breaks
<1> QED
  BY <1>5, <1>6, <1>7, <1>8, <1>10, <1>11, <1>12, <1>13, <1>14 DEF Next, HarnessStep

LEMMA RecordInvInit == Init => RecordInv /\ VerdictInv
<1> SUFFICES ASSUME Init PROVE RecordInv /\ VerdictInv
  OBVIOUS
<1>1. /\ Current \in Scenarios /\ run = 1 /\ record = NewRecord(Current)
      /\ records = <<>> /\ done = 0 /\ attempts = 0 /\ at = "setup"
  BY HarnessInvInit, CurrentIsScenario DEF Init, HarnessInv, Current
<1>2. record \in RunRecord /\ Ungraded(record) /\ Earned(record)
  BY <1>1, NewRecordFacts
<1>3. records \in Seq(RunRecord) /\ DOMAIN records = {}
  BY <1>1, EmptySeq
<1>4. RecordInv
  BY <1>1, <1>2, <1>3, HarnessAssumption DEF RecordInv
<1>5. VerdictInv
  BY <1>1, <1>2, <1>3 DEF VerdictInv
<1> QED
  BY <1>4, <1>5

\* run_scenario, scorers.py and the loop of __main__.py: for any scenarios, faults and
\* attempts, what the harness keeps is always a record of one of its scenarios.
THEOREM HarnessTypeCorrect == Spec => []HarnessTypeOK
<1>1. Init => HarnessInv /\ RecordInv
  BY HarnessInvInit, RecordInvInit
<1>2. HarnessInv /\ RecordInv /\ [Next]_vars => (HarnessInv /\ RecordInv)'
  BY HarnessInvStep, RecordInvStep
<1>3. HarnessInv /\ RecordInv => HarnessTypeOK
  BY DEF HarnessInv, RunTypeOK, Stages, RecordInv, HarnessTypeOK
<1> QED
  BY <1>1, <1>2, <1>3, PTL DEF Spec

\* score_diagnosis and _judge_with_retry in eval/scorers.py: if the signals are a
\* reader's, no run is called correct on anything but the judge's word or, where there
\* is none, an answer that says what it has to; whatever failed before and after.
THEOREM VerdictsEarned ==
  ASSUME ReadersAgree
  PROVE  Spec => []VerdictsAreEarned
<1> DEFINE Inv == HarnessInv /\ RecordInv /\ VerdictInv
<1>1. Init => Inv
  BY HarnessInvInit, RecordInvInit
<1>2. Inv /\ [Next]_vars => Inv'
  BY HarnessInvStep, RecordInvStep, VerdictInvStep
<1>3. Inv => VerdictsAreEarned
  <2> SUFFICES ASSUME VerdictInv, NEW i \in DOMAIN records
               PROVE  Earned(records[i])
    BY DEF VerdictsAreEarned, Final, Earned
  <2> QED
    BY DEF VerdictInv
<1> HIDE DEF Inv
<1> QED
  BY <1>1, <1>2, <1>3, PTL DEF Spec
-------------------------------------------------------------------------------
(***************************************************************************)
(* Sums                                                                    *)
(***************************************************************************)
\* Induction on a set of numbers.
LEMMA AllNumbers ==
  ASSUME NEW S, 0 \in S, \A n \in Nat : n \in S => n + 1 \in S
  PROVE  \A n \in Nat : n \in S
<1> DEFINE Less == OpToRel(<, Nat)
           Rest == {n \in Nat : n \notin S}
<1>1. IsWellFoundedOn(Less, Nat)
  BY NatLessThanWellFounded
<1>2. \A i, j \in Nat : <<i, j>> \in Less <=> i < j
  BY DEF OpToRel
<1> HIDE DEF Less
<1>3. SUFFICES ASSUME Rest # {} PROVE FALSE
  OBVIOUS
<1>4. PICK m \in Rest : \A n \in Rest : <<n, m>> \notin Less
  BY <1>1, <1>3, WFMin
<1>5. m \in Nat /\ m # 0 /\ m - 1 \in Nat /\ m - 1 < m
  BY <1>4
<1>6. m - 1 \notin Rest
  BY <1>2, <1>4, <1>5
<1> QED
  BY <1>4, <1>5, <1>6

Value(f, k) == IF k \in DOMAIN f THEN f[k] ELSE 0

SumsUp(f, n, total) ==
  /\ total \in [0..n -> Nat] /\ total[0] = 0
  /\ \A k \in 1..n : total[k] = total[k - 1] + Value(f, k)

LEMMA SumsUpIsThere ==
  ASSUME NEW f, \A k \in DOMAIN f : f[k] \in Nat, NEW n \in Nat
  PROVE  \E total : SumsUp(f, n, total)
<1> DEFINE S == {m \in Nat : \E total : SumsUp(f, m, total)}
<1>1. 0 \in S
  <2>1. SumsUp(f, 0, [k \in 0..0 |-> 0])
    BY DEF SumsUp
  <2> QED
    BY <2>1
<1>2. ASSUME NEW m \in Nat, m \in S
      PROVE  m + 1 \in S
  <2>1. PICK total : SumsUp(f, m, total)
    BY <1>2
  <2> DEFINE last == total[m] + Value(f, m + 1)
             more == [k \in 0..(m + 1) |-> IF k = m + 1 THEN last ELSE total[k]]
  <2>2. Value(f, m + 1) \in Nat
    BY DEF Value
  <2>3. last \in Nat
    BY <2>1, <2>2 DEF SumsUp
  <2>4. more \in [0..(m + 1) -> Nat] /\ more[0] = 0
    BY <2>1, <2>3 DEF SumsUp
  <2>5. ASSUME NEW k \in 1..(m + 1)
        PROVE  more[k] = more[k - 1] + Value(f, k)
    <3>1. CASE k = m + 1
      BY <2>1, <3>1 DEF SumsUp
    <3>2. CASE k # m + 1
      <4>1. k \in 1..m /\ k - 1 \in 0..m
        BY <3>2
      <4> QED
        BY <2>1, <3>2, <4>1 DEF SumsUp
    <3> QED
      BY <3>1, <3>2
  <2>6. SumsUp(f, m + 1, more)
    BY <2>4, <2>5 DEF SumsUp
  <2> QED
    BY <2>6
<1> HIDE DEF S
<1>3. n \in S
  BY <1>1, <1>2, AllNumbers
<1> QED
  BY <1>3 DEF S

LEMMA SumsAgree ==
  ASSUME NEW f, NEW n \in Nat, NEW m \in Nat, n <= m, NEW a, NEW b,
         SumsUp(f, n, a), SumsUp(f, m, b)
  PROVE  a[n] = b[n]
<1> DEFINE S == {k \in Nat : k <= n => a[k] = b[k]}
<1>1. 0 \in S
  BY DEF SumsUp
<1>2. ASSUME NEW k \in Nat, k \in S
      PROVE  k + 1 \in S
  <2>1. CASE k + 1 <= n
    <3>1. k + 1 \in 1..n /\ k + 1 \in 1..m /\ (k + 1) - 1 = k /\ a[k] = b[k]
      BY <1>2, <2>1
    <3> QED
      BY <3>1 DEF SumsUp
  <2>2. CASE ~(k + 1 <= n)
    BY <2>2
  <2> QED
    BY <2>1, <2>2
<1> HIDE DEF S
<1>3. n \in S
  BY <1>1, <1>2, AllNumbers
<1> QED
  BY <1>3 DEF S

\* SumTo is the sum its definition spells out.
LEMMA SumToIsSum ==
  ASSUME NEW f, \A k \in DOMAIN f : f[k] \in Nat, NEW n \in Nat
  PROVE  \E total : SumsUp(f, n, total) /\ SumTo(f, n) = total[n]
<1> DEFINE next(t, k) == IF k = 0 THEN 0 ELSE t[k - 1] + Value(f, k)
           is(t) == t = [k \in 0..n |-> next(t, k)]
<1>1. PICK total : SumsUp(f, n, total)
  BY SumsUpIsThere
<1>2. is(total)
  BY <1>1 DEF SumsUp
<1>3. is(CHOOSE t : is(t))
  BY <1>2
<1> DEFINE chosen == CHOOSE t : is(t)
<1>4. SumTo(f, n) = chosen[n]
  BY DEF SumTo, Value
<1>5. is(chosen)
  BY <1>3
<1> HIDE DEF chosen
<1>6. /\ \A k \in 0..n : chosen[k] = next(chosen, k)
      /\ DOMAIN chosen = 0..n /\ chosen = [k \in 0..n |-> chosen[k]]
  BY <1>5
<1> HIDE DEF is
<1>7. chosen[0] = 0 /\ \A k \in 1..n : chosen[k] = chosen[k - 1] + Value(f, k)
  <2>1. 0 \in 0..n /\ \A k \in 1..n : k \in 0..n /\ k # 0
    OBVIOUS
  <2> QED
    BY <1>6, <2>1, Zenon
<1> DEFINE S == {k \in Nat : k <= n => chosen[k] \in Nat}
<1>8. 0 \in S
  BY <1>7
<1>9. ASSUME NEW k \in Nat, k \in S
      PROVE  k + 1 \in S
  <2>1. CASE k + 1 <= n
    <3>1. k + 1 \in 1..n /\ (k + 1) - 1 = k /\ chosen[k] \in Nat
      BY <1>9, <2>1
    <3>2. Value(f, k + 1) \in Nat
      BY DEF Value
    <3> QED
      BY <1>7, <3>1, <3>2
  <2>2. CASE ~(k + 1 <= n)
    BY <2>2
  <2> QED
    BY <2>1, <2>2
<1>10. \A k \in Nat : k \in S
  <2> HIDE DEF S
  <2> QED
    BY <1>8, <1>9, AllNumbers
<1>11. chosen \in [0..n -> Nat]
  BY <1>6, <1>10
<1> QED
  BY <1>4, <1>7, <1>11 DEF SumsUp

LEMMA SumToSteps ==
  ASSUME NEW f, \A k \in DOMAIN f : f[k] \in Nat, NEW n \in Nat
  PROVE  /\ SumTo(f, n) \in Nat /\ SumTo(f, 0) = 0
         /\ SumTo(f, n + 1) = SumTo(f, n) + Value(f, n + 1)
<1>1. PICK zero : SumsUp(f, 0, zero) /\ SumTo(f, 0) = zero[0]
  BY SumToIsSum
<1>2. PICK less : SumsUp(f, n, less) /\ SumTo(f, n) = less[n]
  BY SumToIsSum
<1>3. PICK more : SumsUp(f, n + 1, more) /\ SumTo(f, n + 1) = more[n + 1]
  BY SumToIsSum
<1>4. less[n] = more[n]
  BY <1>2, <1>3, SumsAgree
<1>5. n + 1 \in 1..(n + 1) /\ (n + 1) - 1 = n /\ n \in 0..n
  OBVIOUS
<1> QED
  BY <1>1, <1>2, <1>3, <1>4, <1>5 DEF SumsUp

\* Sums of numbers that add up one by one.
LEMMA SumsAddUp ==
  ASSUME NEW f, \A k \in DOMAIN f : f[k] \in Nat,
         NEW parts, \A t \in 1..3 : \A k \in DOMAIN parts[t] : parts[t][k] \in Nat,
         NEW n \in Nat,
         \A k \in 1..n : Value(f, k) =
           Value(parts[1], k) + Value(parts[2], k) + Value(parts[3], k)
  PROVE  SumTo(f, n) = SumTo(parts[1], n) + SumTo(parts[2], n) + SumTo(parts[3], n)
<1> DEFINE a == parts[1]
           b == parts[2]
           c == parts[3]
<1>0. /\ \A k \in DOMAIN a : a[k] \in Nat
      /\ \A k \in DOMAIN b : b[k] \in Nat
      /\ \A k \in DOMAIN c : c[k] \in Nat
      /\ \A k \in 1..n : Value(f, k) = Value(a, k) + Value(b, k) + Value(c, k)
  OBVIOUS
<1> HIDE DEF a, b, c
<1> DEFINE S == {k \in Nat : k <= n => SumTo(f, k) = SumTo(a, k) + SumTo(b, k) + SumTo(c, k)}
<1>1. 0 \in S
  BY <1>0, SumToSteps
<1>2. ASSUME NEW k \in Nat, k \in S
      PROVE  k + 1 \in S
  <2>1. CASE k + 1 <= n
    <3>1. /\ SumTo(f, k) \in Nat /\ SumTo(f, k + 1) = SumTo(f, k) + Value(f, k + 1)
          /\ SumTo(a, k) \in Nat /\ SumTo(a, k + 1) = SumTo(a, k) + Value(a, k + 1)
          /\ SumTo(b, k) \in Nat /\ SumTo(b, k + 1) = SumTo(b, k) + Value(b, k + 1)
          /\ SumTo(c, k) \in Nat /\ SumTo(c, k + 1) = SumTo(c, k) + Value(c, k + 1)
      BY <1>0, SumToSteps
    <3>2. Value(a, k + 1) \in Nat /\ Value(b, k + 1) \in Nat /\ Value(c, k + 1) \in Nat
      BY <1>0 DEF Value
    <3>3. k + 1 \in 1..n
      BY <2>1
    <3>4. Value(f, k + 1) = Value(a, k + 1) + Value(b, k + 1) + Value(c, k + 1)
      BY <1>0, <3>3
    <3>5. SumTo(f, k) = SumTo(a, k) + SumTo(b, k) + SumTo(c, k)
      BY <1>2, <2>1
    <3> QED
      BY <3>1, <3>2, <3>4, <3>5
  <2>2. CASE ~(k + 1 <= n)
    BY <2>2
  <2> QED
    BY <2>1, <2>2
<1> HIDE DEF S
<1>3. n \in S
  BY <1>1, <1>2, AllNumbers
<1> QED
  BY <1>3 DEF S, a, b, c

LEMMA SumsOrdered ==
  ASSUME NEW a, \A k \in DOMAIN a : a[k] \in Nat, NEW b, \A k \in DOMAIN b : b[k] \in Nat,
         NEW n \in Nat, \A k \in 1..n : Value(a, k) <= Value(b, k)
  PROVE  SumTo(a, n) <= SumTo(b, n)
<1> DEFINE S == {k \in Nat : k <= n => SumTo(a, k) <= SumTo(b, k)}
<1>1. 0 \in S
  BY SumToSteps
<1>2. ASSUME NEW k \in Nat, k \in S
      PROVE  k + 1 \in S
  <2>1. CASE k + 1 <= n
    <3>1. /\ SumTo(a, k) \in Nat /\ SumTo(a, k + 1) = SumTo(a, k) + Value(a, k + 1)
          /\ SumTo(b, k) \in Nat /\ SumTo(b, k + 1) = SumTo(b, k) + Value(b, k + 1)
      BY SumToSteps
    <3>2. Value(a, k + 1) \in Nat /\ Value(b, k + 1) \in Nat
      BY DEF Value
    <3>3. k + 1 \in 1..n
      BY <2>1
    <3>4. Value(a, k + 1) <= Value(b, k + 1)
      BY <3>3
    <3>5. SumTo(a, k) <= SumTo(b, k)
      BY <1>2, <2>1
    <3> QED
      BY <3>1, <3>2, <3>4, <3>5
  <2>2. CASE ~(k + 1 <= n)
    BY <2>2
  <2> QED
    BY <2>1, <2>2
<1> HIDE DEF S
<1>3. n \in S
  BY <1>1, <1>2, AllNumbers
<1> QED
  BY <1>3 DEF S

\* The same number everywhere.
LEMMA SumOfSame ==
  ASSUME NEW n \in Nat, NEW D \in SUBSET (1..n), NEW c \in Nat,
         NEW f, DOMAIN f = D, \A k \in D : f[k] = c
  PROVE  SumTo(f, n) = c * Cardinality(D)
<1> DEFINE upTo(k) == {i \in D : i <= k}
           S == {k \in Nat : k <= n => SumTo(f, k) = c * Cardinality(upTo(k))}
<1>0. \A i \in D : /\ i \in Nat /\ ~(i <= 0) /\ i <= n
                   /\ \A k \in Nat : i <= k + 1 <=> i <= k \/ i = k + 1
  OBVIOUS
<1>1. \A k \in DOMAIN f : f[k] \in Nat
  OBVIOUS
<1>2. \A k \in Nat : IsFiniteSet(upTo(k)) /\ Cardinality(upTo(k)) \in Nat
  <2>1. IsFiniteSet(1..n)
    BY FS_Interval
  <2>2. IsFiniteSet(D)
    BY <2>1, FS_Subset
  <2> TAKE k \in Nat
  <2>3. upTo(k) \in SUBSET D
    OBVIOUS
  <2> QED
    BY <2>2, <2>3, FS_Subset, FS_CardinalityType
<1>3. 0 \in S
  <2>1. upTo(0) = {}
    BY <1>0, Zenon
  <2>2. SumTo(f, 0) = 0
    BY <1>1, SumToSteps
  <2>3. c * 0 = 0
    OBVIOUS
  <2> QED
    BY <2>1, <2>2, <2>3, FS_EmptySet
<1>4. ASSUME NEW k \in Nat, k \in S
      PROVE  k + 1 \in S
  <2>1. SumTo(f, k) \in Nat /\ SumTo(f, k + 1) = SumTo(f, k) + Value(f, k + 1)
    BY <1>1, SumToSteps
  <2>2. CASE k + 1 <= n /\ k + 1 \in D
    <3>1. upTo(k + 1) = upTo(k) \cup {k + 1} /\ k + 1 \notin upTo(k)
      <4>1. ~(k + 1 <= k)
        OBVIOUS
      <4>2. \A i \in D : i <= k + 1 <=> i <= k \/ i = k + 1
        BY <1>0
      <4> QED
        BY <2>2, <4>1, <4>2, Zenon
    <3> HIDE DEF upTo
    <3>2. Cardinality(upTo(k + 1)) = Cardinality(upTo(k)) + 1
      BY <1>2, <3>1, FS_AddElement
    <3>3. SumTo(f, k) = c * Cardinality(upTo(k)) /\ Value(f, k + 1) = c
      BY <1>4, <2>2 DEF Value
    <3>4. \A m \in Nat : c * (m + 1) = c * m + c
      OBVIOUS
    <3> QED
      BY <1>2, <2>1, <3>2, <3>3, <3>4
  <2>3. CASE k + 1 <= n /\ k + 1 \notin D
    <3>1. upTo(k + 1) = upTo(k)
      BY <1>0, <2>3, Zenon
    <3> HIDE DEF upTo
    <3>2. SumTo(f, k) = c * Cardinality(upTo(k)) /\ Value(f, k + 1) = 0
      BY <1>4, <2>3 DEF Value
    <3> QED
      BY <1>2, <2>1, <3>1, <3>2
  <2>4. CASE ~(k + 1 <= n)
    BY <2>4
  <2> QED
    BY <2>2, <2>3, <2>4
<1> HIDE DEF S
<1>5. n \in S
  BY <1>3, <1>4, AllNumbers
<1>6. upTo(n) = D
  BY <1>0, Zenon
<1> QED
  BY <1>5, <1>6 DEF S

LEMMA SumOfThree ==
  ASSUME NEW f, \A k \in DOMAIN f : f[k] \in Nat
  PROVE  SumTo(f, 3) = Value(f, 1) + Value(f, 2) + Value(f, 3)
<1>1. /\ SumTo(f, 0) = 0 /\ SumTo(f, 0 + 1) = SumTo(f, 0) + Value(f, 0 + 1)
      /\ SumTo(f, 1 + 1) = SumTo(f, 1) + Value(f, 1 + 1)
      /\ SumTo(f, 2 + 1) = SumTo(f, 2) + Value(f, 2 + 1)
  BY SumToSteps
<1>2. Value(f, 1) \in Nat /\ Value(f, 2) \in Nat /\ Value(f, 3) \in Nat
  BY DEF Value
<1> QED
  BY <1>1, <1>2

-------------------------------------------------------------------------------
(***************************************************************************)
(* The records the report is made from                                     *)
(***************************************************************************)
\* A scored record has all of its follow-ups and was read from a final state.
Complete(r) ==
  r.status = "scored" =>
    /\ Len(r.follow_ups) = FollowUps
    /\ \E f \in FinalStates : r.found = _populate_from_state(f)

CountInv ==
  /\ Len(records) = (IF at = "reported" THEN Len(Order) ELSE run - 1)
  /\ record.scenario = Current
  /\ at # "follow_ups" => Complete(record)
  /\ \A i \in DOMAIN records : records[i].scenario = Order[i] /\ Complete(records[i])

LEMMA CountInvInit == Init => CountInv
<1> SUFFICES ASSUME Init PROVE CountInv
  OBVIOUS
<1>1. /\ Current \in Scenarios /\ run = 1 /\ record = NewRecord(Current)
      /\ records = <<>> /\ at = "setup"
  BY HarnessInvInit, CurrentIsScenario DEF Init, HarnessInv, Current
<1>2. record.scenario = Current /\ record.status = "setup_failed"
  BY <1>1, NewRecordFacts
<1>3. Len(records) = 0 /\ DOMAIN records = {}
  BY <1>1
<1> QED
  BY <1>1, <1>2, <1>3 DEF CountInv, Complete

LEMMA CountInvStep ==
  ASSUME HarnessInv, RecordInv, VerdictInv, CountInv, [Next]_vars
  PROVE  CountInv'
<1>1. /\ RunTypeOK /\ record \in RunRecord /\ records \in Seq(RunRecord)
      /\ run \in 1..Len(Order) /\ Len(Order) \in Nat
  BY HarnessAssumption DEF HarnessInv, RecordInv, RunTypeOK
\* The run goes on, or ends without a score, and the records before it stay.
<1>2. ASSUME UNCHANGED <<run, records>>, at # "reported", at' # "reported",
             record'.scenario = record.scenario, at' # "follow_ups" => Complete(record')
      PROVE  CountInv'
  BY <1>2 DEF CountInv, Current, Complete
<1>3. ASSUME NEW status \in {"setup_failed", "agent_failed", "scoring_failed"},
             record' = [record EXCEPT !.status = status]
      PROVE  record'.scenario = record.scenario /\ Complete(record')
  BY <1>1, <1>3, FailsFacts DEF Complete
<1>4. CASE UNCHANGED <<run, at, record, records>>
  BY <1>4 DEF CountInv, Current, Complete
<1>5. CASE Kubectl
  <2>1. /\ UNCHANGED <<run, records>> /\ at \in {"setup", "teardown"}
        /\ at' \in {at, "teardown", "aborted"}
        /\ UNCHANGED record \/ record' = [record EXCEPT !.status = "setup_failed"]
    BY <1>5 DEF Kubectl, _kubectl_ok, _kubectl_fails, _kubectl_hangs, Fails
  <2>2. record'.scenario = record.scenario /\ Complete(record')
    BY <1>3, <2>1 DEF CountInv
  <2> QED
    BY <1>2, <2>1, <2>2
<1>6. CASE SetupDone \/ wait_until_broken \/ AgentRaises \/ JudgeRaises
  <2>1. /\ UNCHANGED <<run, records>> /\ at \in {"setup", "waiting", "agent", "judging"}
        /\ at' \in {"waiting", "agent", "teardown"}
        /\ record' = record \/ \E status \in {"setup_failed", "agent_failed", "scoring_failed"} :
                                 record' = [record EXCEPT !.status = status]
    BY <1>6 DEF SetupDone, wait_until_broken, AgentRaises, JudgeRaises, Fails
  <2>2. record'.scenario = record.scenario /\ Complete(record')
    BY <1>3, <2>1 DEF CountInv
  <2> QED
    BY <1>2, <2>1, <2>2
<1>7. CASE AgentAnswers
  BY <1>1, <1>2, <1>7, AnswersFacts DEF AgentAnswers
<1>8. CASE _run_follow_up
  BY <1>1, <1>2, <1>8, FollowUpFacts DEF _run_follow_up
\* A record that is graded is one whose follow-ups are done.
<1>9. ASSUME NEW verdict \in {"none", "yes", "no"}, NEW error \in BOOLEAN, Graded(verdict, error),
             at \in {"follow_ups", "judging"}, at' = "teardown", UNCHANGED <<run, records>>,
             Len(record.follow_ups) = FollowUps \/ at = "judging"
      PROVE  CountInv'
  <2>1. /\ record'.status = record.status /\ record'.found = record.found
        /\ record'.scenario = record.scenario /\ record'.follow_ups = record.follow_ups
    BY <1>1, <1>9, GradedFacts
  <2>2. /\ Len(record.follow_ups) = FollowUps
        /\ \E f \in FinalStates : record.found = _populate_from_state(f)
    BY <1>9 DEF CountInv, Complete, VerdictInv
  <2>3. Complete(record')
    BY <2>1, <2>2 DEF Complete
  <2> QED
    BY <1>2, <1>9, <2>1, <2>3
<1>10. CASE score_diagnosis
  <2>1. /\ at = "follow_ups" /\ Len(record.follow_ups) = FollowUps /\ UNCHANGED <<run, records>>
        /\ \/ at' = "judging" /\ UNCHANGED record
           \/ at' = "teardown" /\ Graded("none", FALSE)
    BY <1>10, Zenon DEF score_diagnosis, ToTeardown
  <2>2. CASE at' = "judging" /\ UNCHANGED record
    BY <1>2, <2>1, <2>2 DEF VerdictInv, Complete
  <2> QED
    BY <1>9, <2>1, <2>2
<1>11. CASE JudgeMalformed
  <2>1. /\ at = "judging" /\ UNCHANGED <<run, records>>
        /\ \/ at' = "teardown" /\ Graded("none", TRUE)
           \/ UNCHANGED <<at, record>>
    BY <1>11, Zenon DEF JudgeMalformed, ToTeardown
  <2> QED
    BY <1>4, <1>9, <2>1
<1>12. CASE JudgeSays
  <2>1. /\ at = "judging" /\ at' = "teardown" /\ UNCHANGED <<run, records>>
        /\ \E verdict \in {"yes", "no"} : Graded(verdict, FALSE)
    BY <1>12, Zenon DEF JudgeSays, ToTeardown
  <2> QED
    BY <1>9, <2>1
<1>13. CASE NextScenario
  <2>1. /\ records' = Append(records, record) /\ at = "teardown"
        /\ Len(records) = run - 1 /\ record.scenario = Current /\ Complete(record)
    BY <1>13 DEF NextScenario, Kept, CountInv
  <2>2. /\ Len(records') = run /\ DOMAIN records' = 1..run
        /\ \A i \in 1..(run - 1) : records'[i] = records[i] /\ i \in DOMAIN records
        /\ records'[run] = record
    BY <1>1, <2>1, AppendProperties
  <2>3. \A i \in DOMAIN records' : records'[i].scenario = Order[i] /\ Complete(records'[i])
    <3>1. \A i \in 1..run : i \in 1..(run - 1) \/ i = run
      BY <1>1
    <3> QED
      BY <2>1, <2>2, <3>1, Zenon DEF CountInv, Current
  <2>4. CASE run < Len(Order)
    <3>1. run' \in DOMAIN Order /\ run' = run + 1 /\ at' = "setup"
      BY <1>13, <2>4, NextScenarioStep DEF HarnessInv, RunTypeOK, NextScenario
    <3>2. record' = NewRecord(Order[run']) /\ Order[run'] \in Scenarios
      BY <1>13, <2>4, <3>1 DEF NextScenario, Scenarios
    <3>3. record'.scenario = Order[run'] /\ Complete(record')
      BY <3>2, NewRecordFacts DEF Complete
    <3>4. Len(records') = run' - 1
      BY <1>1, <2>2, <3>1
    <3> QED
      BY <2>3, <3>1, <3>3, <3>4 DEF CountInv, Current, Complete
  <2>5. CASE ~(run < Len(Order))
    <3>1. at' = "reported" /\ UNCHANGED <<run, record>> /\ run = Len(Order)
      BY <1>1, <1>13, <2>5 DEF NextScenario
    <3> QED
      BY <2>1, <2>2, <2>3, <3>1 DEF CountInv, Current, Complete
  <2> QED
    BY <2>4, <2>5
<1>14. CASE UNCHANGED vars \/ \E ns \in Namespaces : NamespaceGone(ns) \/ Breaks(ns)
  BY <1>4, <1>14 DEF vars, NamespaceGone, Breaks
<1> QED
  BY <1>5, <1>6, <1>7, <1>8, <1>10, <1>11, <1>12, <1>13, <1>14 DEF Next, HarnessStep
-------------------------------------------------------------------------------
(***************************************************************************)
(* What the report counts                                                  *)
(***************************************************************************)
LEMMA LeastNumber ==
  ASSUME NEW I \in SUBSET Nat, I # {}
  PROVE  \E m \in I : \A n \in I : m <= n
<1> DEFINE S == {k \in Nat : \A n \in I : k <= n}
<1> SUFFICES ASSUME \A m \in I : \E n \in I : ~(m <= n)
             PROVE  FALSE
  OBVIOUS
<1>1. 0 \in S
  OBVIOUS
<1>2. ASSUME NEW k \in Nat, k \in S
      PROVE  k + 1 \in S
  <2>1. k \notin I
    BY <1>2
  <2> QED
    BY <1>2, <2>1
<1>3. \A k \in Nat : k \in S
  <2> HIDE DEF S
  <2> QED
    BY <1>1, <1>2, AllNumbers
<1>4. PICK n \in I : TRUE
  OBVIOUS
<1>5. n + 1 \in S
  BY <1>3, <1>4
<1> QED
  BY <1>4, <1>5

LEMMA UpToCount ==
  ASSUME NEW n \in Nat
  PROVE  IsFiniteSet(1..n) /\ Cardinality(1..n) = n
BY FS_Interval

LEMMA TwoParts ==
  ASSUME NEW S, IsFiniteSet(S), NEW A, NEW B, S = A \cup B, A \cap B = {}
  PROVE  /\ Cardinality(S) = Cardinality(A) + Cardinality(B)
         /\ Cardinality(A) \in Nat /\ Cardinality(B) \in Nat
<1>1. IsFiniteSet(A) /\ IsFiniteSet(B)
  BY FS_Subset
<1>2. /\ Cardinality(A \cup B) = Cardinality(A) + Cardinality(B) - Cardinality(A \cap B)
      /\ Cardinality(A \cap B) = 0 /\ Cardinality(A) \in Nat /\ Cardinality(B) \in Nat
  BY <1>1, FS_Union, FS_EmptySet, FS_CardinalityType
<1> QED
  BY <1>2

LEMMA ThreeParts ==
  ASSUME NEW S, IsFiniteSet(S), NEW A, NEW B, NEW C, S = A \cup B \cup C,
         A \cap B = {}, A \cap C = {}, B \cap C = {}
  PROVE  /\ Cardinality(S) = Cardinality(A) + Cardinality(B) + Cardinality(C)
         /\ Cardinality(A) \in Nat /\ Cardinality(B) \in Nat /\ Cardinality(C) \in Nat
<1>1. /\ Cardinality(S) = Cardinality(A \cup B) + Cardinality(C)
      /\ Cardinality(A \cup B) \in Nat /\ Cardinality(C) \in Nat
  <2>1. S = (A \cup B) \cup C /\ (A \cup B) \cap C = {}
    OBVIOUS
  <2> QED
    BY <2>1, TwoParts
<1>2. /\ Cardinality(A \cup B) = Cardinality(A) + Cardinality(B)
      /\ Cardinality(A) \in Nat /\ Cardinality(B) \in Nat
  <2>1. IsFiniteSet(A \cup B)
    BY FS_Subset
  <2> QED
    BY <2>1, TwoParts
<1> QED
  BY <1>1, <1>2

\* cited_urls keeps one link to each page, and every page that is cited.
LEMMA OneCitationAPage ==
  ASSUME NEW f \in FinalStates
  PROVE  _populate_from_state(f).invalid_citations = f.reader.made_up
<1> DEFINE links == f.links
           Public == {j \in DOMAIN links : links[j].public}
           Pages == {links[i].page : i \in Public} \ CorpusPages
           MadeUp == {i \in cited_urls(links) : links[i].page \notin CorpusPages}
           page == [i \in MadeUp |-> links[i].page]
<1>1. DOMAIN links = 1..Len(links) /\ Len(links) \in Nat
  BY HarnessAssumption
<1>2. \A i : i \in cited_urls(links) <=>
        /\ i \in Public
        /\ ~\E j \in 1..(i - 1) : links[j].public /\ links[j].page = links[i].page
  BY DEF cited_urls
<1>3. f.reader.made_up = Cardinality(Pages)
  BY ReaderAssumption
<1>4. _populate_from_state(f).invalid_citations = Cardinality(MadeUp)
  BY DEF _populate_from_state
<1> HIDE DEF links
<1>5. IsFiniteSet(MadeUp)
  <2>1. IsFiniteSet(1..Len(links)) /\ MadeUp \in SUBSET (1..Len(links))
    BY <1>1, <1>2, FS_Interval
  <2> QED
    BY <2>1, FS_Subset
<1>6. page \in [MadeUp -> Pages]
  BY <1>2
<1>7. \A i, j \in MadeUp : page[i] = page[j] => i = j
  <2>1. SUFFICES ASSUME NEW i \in MadeUp, NEW j \in MadeUp, page[i] = page[j], i < j
                 PROVE  FALSE
    <3>1. \A i, j \in MadeUp : i \in Nat /\ j \in Nat
      BY <1>1, <1>2
    <3> QED
      BY <2>1, <3>1
  <2>2. i \in Public /\ i \in 1..(j - 1) /\ links[i].page = links[j].page
    BY <1>1, <1>2, <2>1
  <2> QED
    BY <1>2, <2>2
<1>8. \A p \in Pages : \E i \in MadeUp : page[i] = p
  <2> TAKE p \in Pages
  <2> DEFINE Saying == {i \in Public : links[i].page = p}
  <2>1. Saying # {} /\ Saying \in SUBSET Nat
    BY <1>1
  <2> HIDE DEF Saying
  <2>2. PICK i \in Saying : \A j \in Saying : i <= j
    BY <2>1, LeastNumber
  <2>3. i \in Public /\ links[i].page = p /\ i \in 1..Len(links)
    BY <1>1, <2>2 DEF Saying
  <2>4. ASSUME NEW j \in 1..(i - 1), links[j].public, links[j].page = links[i].page
        PROVE  FALSE
    <3>1. j \in Saying /\ ~(i <= j)
      BY <1>1, <2>3, <2>4 DEF Saying
    <3> QED
      BY <2>2, <3>1
  <2>5. i \in MadeUp
    BY <1>2, <2>3, <2>4
  <2> QED
    BY <2>3, <2>5
<1>9. ExistsBijection(MadeUp, Pages)
  <2> HIDE DEF page, MadeUp, Pages
  <2>1. page \in Injection(MadeUp, Pages)
    BY <1>6, <1>7 DEF Injection, IsInjective
  <2>2. page \in Surjection(MadeUp, Pages)
    BY <1>6, <1>8 DEF Surjection
  <2> QED
    BY <2>1, <2>2 DEF ExistsBijection, Bijection
<1>10. Cardinality(Pages) = Cardinality(MadeUp)
  <2> HIDE DEF Pages, MadeUp
  <2> QED
    BY <1>5, <1>9, FS_Bijection
<1> QED
  BY <1>3, <1>4, <1>10

LEMMA WhatIsMissed ==
  ASSUME NEW f \in FinalStates
  PROVE  /\ _populate_from_state(f).expected_tools_missed = f.reader.missed
         /\ _populate_from_state(f).reader = f.reader
         /\ _populate_from_state(f).planner_tool_calls \in Nat
         /\ _populate_from_state(f).invalid_citations \in Nat
         /\ _populate_from_state(f).clarification_requested \in BOOLEAN
<1> DEFINE called(tool) == \E i \in DOMAIN f.log : f.log[i] = tool
<1>1. f.reader.missed = {tool \in EXPECTED : ~called(tool) /\ ~(called(INITIAL_SWEEP)
                                                  /\ tool \in SWEEP_EQUIVALENT_TOOLS)}
  BY ReaderAssumption
<1>2. \A tool : tool \in Gathered(f.log) <=>
        called(tool) \/ (called(INITIAL_SWEEP) /\ tool \in SWEEP_EQUIVALENT_TOOLS)
  BY DEF Gathered
<1>3. EXPECTED \ Gathered(f.log) = f.reader.missed
  BY <1>1, <1>2
<1>4. _populate_from_state(f).expected_tools_missed = EXPECTED \ Gathered(f.log)
  BY DEF _populate_from_state
<1>5. /\ _populate_from_state(f).reader = f.reader
      /\ _populate_from_state(f).clarification_requested = f.needs_clarification
  BY DEF _populate_from_state
<1> DEFINE Asked == {i \in DOMAIN f.log : f.log[i] # INITIAL_SWEEP}
           MadeUp == {i \in cited_urls(f.links) : f.links[i].page \notin CorpusPages}
<1>6. /\ _populate_from_state(f).planner_tool_calls = Cardinality(Asked)
      /\ _populate_from_state(f).invalid_citations = Cardinality(MadeUp)
  BY DEF _populate_from_state
<1>7. Cardinality(Asked) \in Nat /\ Cardinality(MadeUp) \in Nat
  <2>1. /\ DOMAIN f.log = 1..Len(f.log) /\ Len(f.log) \in Nat
        /\ DOMAIN f.links = 1..Len(f.links) /\ Len(f.links) \in Nat
    BY HarnessAssumption
  <2>2. IsFiniteSet(1..Len(f.log)) /\ IsFiniteSet(1..Len(f.links))
    BY <2>1, FS_Interval
  <2>3. Asked \in SUBSET (1..Len(f.log)) /\ MadeUp \in SUBSET (1..Len(f.links))
    BY <2>1 DEF cited_urls
  <2> HIDE DEF Asked, MadeUp
  <2> QED
    BY <2>2, <2>3, FS_Subset, FS_CardinalityType
<1> QED
  BY <1>3, <1>4, <1>5, <1>6, <1>7, HarnessAssumption

ReportInv ==
  /\ records \in Seq(RunRecord) /\ at = "reported"
  /\ \A i \in DOMAIN records : Earned(records[i])
  /\ CountInv

\* What holds of the records by position.
LEMMA RecordsFacts ==
  ASSUME ReportInv
  PROVE  /\ DOMAIN records = 1..Len(records) /\ Len(records) = Len(Order) /\ Len(Order) \in Nat
         /\ Scored(records) \in SUBSET (1..Len(records))
         /\ \A i \in 1..Len(records) :
              /\ records[i].scenario = Order[i]
              /\ records[i].correct \in BOOLEAN
              /\ records[i].status \in {"setup_failed", "agent_failed", "scoring_failed", "scored"}
              /\ \E t \in 1..3 : Difficulty[records[i].scenario] = TIERS[t]
              /\ records[i].correct =>
                   records[i].status = "scored" /\ ~records[i].found.clarification_requested
         /\ \A i \in Scored(records) :
              /\ records[i].found.planner_tool_calls \in Nat
              /\ records[i].found.invalid_citations = records[i].found.reader.made_up
              /\ records[i].found.invalid_citations \in Nat
              /\ records[i].found.expected_tools_missed = records[i].found.reader.missed
              /\ Len(records[i].follow_ups) = FollowUps
<1>1. /\ DOMAIN records = 1..Len(records) /\ Len(records) = Len(Order) /\ Len(Order) \in Nat
      /\ DOMAIN Order = 1..Len(Order)
  BY HarnessAssumption DEF ReportInv, CountInv
<1>2. Scored(records) \in SUBSET (1..Len(records))
  BY <1>1 DEF Scored, With
<1>3. ASSUME NEW i \in 1..Len(records)
      PROVE  /\ records[i].scenario = Order[i]
             /\ records[i].correct \in BOOLEAN
             /\ records[i].status \in {"setup_failed", "agent_failed", "scoring_failed", "scored"}
             /\ \E t \in 1..3 : Difficulty[records[i].scenario] = TIERS[t]
             /\ records[i].correct =>
                  records[i].status = "scored" /\ ~records[i].found.clarification_requested
  <2>1. records[i] \in RunRecord
    BY <1>1, <1>3 DEF ReportInv
  <2>2. records[i].scenario = Order[i] /\ Earned(records[i])
    BY <1>1, <1>3 DEF ReportInv, CountInv
  <2>3. \E t \in DOMAIN TIERS : Difficulty[Order[i]] = TIERS[t]
    BY <1>1, <1>3, HarnessAssumption
  <2>4. DOMAIN TIERS = 1..3
    BY DEF TIERS
  <2> QED
    BY <2>1, <2>2, <2>3, <2>4, RecordFields DEF Earned
<1>4. ASSUME NEW i \in Scored(records)
      PROVE  /\ records[i].found.planner_tool_calls \in Nat
             /\ records[i].found.invalid_citations = records[i].found.reader.made_up
             /\ records[i].found.invalid_citations \in Nat
             /\ records[i].found.expected_tools_missed = records[i].found.reader.missed
             /\ Len(records[i].follow_ups) = FollowUps
  <2>1. i \in DOMAIN records /\ records[i].status = "scored"
    BY <1>4 DEF Scored, With
  <2>2. Complete(records[i])
    BY <2>1 DEF ReportInv, CountInv
  <2>3. PICK f \in FinalStates : records[i].found = _populate_from_state(f)
    BY <2>1, <2>2 DEF Complete
  <2>4. Len(records[i].follow_ups) = FollowUps
    BY <2>1, <2>2 DEF Complete
  <2> QED
    BY <2>3, <2>4, OneCitationAPage, WhatIsMissed
<1> QED
  BY <1>1, <1>2, <1>3, <1>4

\* Every status is counted once.
LEMMA StatusesAddUp ==
  ASSUME ReportInv
  PROVE  /\ Len(records) = Cardinality(With(records, "scored"))
              + Cardinality(With(records, "setup_failed"))
              + Cardinality(With(records, "agent_failed"))
              + Cardinality(With(records, "scoring_failed"))
         /\ IsFiniteSet(Scored(records)) /\ Cardinality(Scored(records)) \in Nat
<1> DEFINE All == 1..Len(records)
           W(status) == With(records, status)
           setup == W("setup_failed")
           agent == W("agent_failed")
           scoring == W("scoring_failed")
           Failed == setup \cup agent \cup scoring
<1>1. /\ \A i \in All : records[i].status \in {"setup_failed", "agent_failed",
                                               "scoring_failed", "scored"}
      /\ Len(records) \in Nat /\ DOMAIN records = All
  BY RecordsFacts
<1>2. IsFiniteSet(All) /\ Cardinality(All) = Len(records)
  BY <1>1, UpToCount
<1>3. \A i, status : i \in W(status) <=> i \in All /\ records[i].status = status
  BY <1>1 DEF With
<1> HIDE DEF All, W
<1>4. All = W("scored") \cup Failed /\ W("scored") \cap Failed = {}
  BY <1>1, <1>3
<1>5. setup \cap agent = {} /\ setup \cap scoring = {} /\ agent \cap scoring = {}
  BY <1>3
<1>6. IsFiniteSet(Failed) /\ IsFiniteSet(W("scored"))
  BY <1>2, <1>4, FS_Subset
<1>7. Cardinality(All) = Cardinality(W("scored")) + Cardinality(Failed)
      /\ Cardinality(W("scored")) \in Nat /\ Cardinality(Failed) \in Nat
  <2> HIDE DEF Failed
  <2> QED
    BY <1>2, <1>4, TwoParts
<1>8. /\ Cardinality(Failed) = Cardinality(setup) + Cardinality(agent) + Cardinality(scoring)
      /\ Cardinality(setup) \in Nat /\ Cardinality(agent) \in Nat
      /\ Cardinality(scoring) \in Nat
  <2> HIDE DEF setup, agent, scoring
  <2> QED
    BY <1>5, <1>6, ThreeParts DEF Failed
<1>9. Len(records) = Cardinality(W("scored")) + Cardinality(W("setup_failed"))
                      + Cardinality(W("agent_failed")) + Cardinality(W("scoring_failed"))
  BY <1>2, <1>7, <1>8
<1> QED
  BY <1>6, <1>7, <1>9 DEF W, Scored

Marked(set) == {i \in DOMAIN records : _status_mark(records[i]) \in set}

\* The mark of a row says what the record is counted as.
LEMMA MarksAddUp ==
  ASSUME ReportInv
  PROVE  LET correct == {i \in Scored(records) : records[i].correct}
         IN /\ Marked({"PASS"}) = correct
            /\ Cardinality(Marked({"FAIL", "ASKED"}))
                 = Cardinality(Scored(records)) - Cardinality(correct)
            /\ Cardinality(Scored(records)) = Len(records)
                 <=> Cardinality(Marked({"SETUP", "ERROR", "UNSCORED"})) = 0
<1> DEFINE All == 1..Len(records)
           correct == {i \in Scored(records) : records[i].correct}
           rest == Marked({"FAIL", "ASKED"})
           out == Marked({"SETUP", "ERROR", "UNSCORED"})
           scored == Scored(records)
<1>1. /\ Len(records) \in Nat /\ DOMAIN records = All
      /\ \A i \in All :
           /\ records[i].status \in {"setup_failed", "agent_failed", "scoring_failed", "scored"}
           /\ records[i].correct \in BOOLEAN
           /\ records[i].correct =>
                records[i].status = "scored" /\ ~records[i].found.clarification_requested
  BY RecordsFacts
<1>2. \A i : i \in scored <=> i \in All /\ records[i].status = "scored"
  BY <1>1 DEF Scored, With
<1>3. ASSUME NEW i \in All
      PROVE  /\ _status_mark(records[i]) = "PASS"
                  <=> records[i].status = "scored" /\ records[i].correct
             /\ _status_mark(records[i]) \in {"FAIL", "ASKED"}
                  <=> records[i].status = "scored" /\ ~records[i].correct
             /\ _status_mark(records[i]) \in {"SETUP", "ERROR", "UNSCORED"}
                  <=> records[i].status # "scored"
  <2> DEFINE r == records[i]
  <2>1. r.status = "setup_failed" => _status_mark(r) = "SETUP"
    BY DEF _status_mark
  <2>2. r.status = "agent_failed" => _status_mark(r) = "ERROR"
    BY DEF _status_mark
  <2>3. r.status = "scoring_failed" => _status_mark(r) = "UNSCORED"
    BY DEF _status_mark
  <2>4. r.status = "scored" => _status_mark(r) =
          IF r.found.clarification_requested THEN "ASKED"
          ELSE IF r.correct THEN "PASS" ELSE "FAIL"
    BY DEF _status_mark
  <2> QED
    BY <1>1, <1>3, <2>1, <2>2, <2>3, <2>4
<1>4. Marked({"PASS"}) = correct
  BY <1>1, <1>2, <1>3 DEF Marked
<1>5. scored = correct \cup rest /\ correct \cap rest = {}
  BY <1>1, <1>2, <1>3 DEF Marked
<1>6. All = scored \cup out /\ scored \cap out = {}
  BY <1>1, <1>2, <1>3 DEF Marked
<1>7. /\ IsFiniteSet(scored) /\ IsFiniteSet(All) /\ Cardinality(All) = Len(records)
  BY <1>1, StatusesAddUp, UpToCount
<1> HIDE DEF All, correct, rest, out, scored
<1>8. /\ Cardinality(scored) = Cardinality(correct) + Cardinality(rest)
      /\ Cardinality(correct) \in Nat /\ Cardinality(rest) \in Nat
  <2>1. correct \cap rest = {} /\ IsFiniteSet(correct \cup rest) /\ correct \cup rest = scored
    BY <1>5, <1>7
  <2>2. /\ Cardinality(correct \cup rest) = Cardinality(correct) + Cardinality(rest)
        /\ Cardinality(correct) \in Nat /\ Cardinality(rest) \in Nat
    BY <2>1, TwoParts
  <2> QED
    BY <2>1, <2>2
<1>9. /\ Cardinality(All) = Cardinality(scored) + Cardinality(out)
      /\ Cardinality(scored) \in Nat /\ Cardinality(out) \in Nat
  BY <1>6, <1>7, TwoParts
<1>10. /\ Cardinality(rest) = Cardinality(scored) - Cardinality(correct)
       /\ Cardinality(scored) = Len(records) <=> Cardinality(out) = 0
  BY <1>7, <1>8, <1>9
<1> QED
  BY <1>4, <1>10 DEF correct, rest, out, scored

\* The tiers divide the scored records among them.
LEMMA TiersDivide ==
  ASSUME ReportInv
  PROVE  /\ Scored(records) = InTier(records, 1) \cup InTier(records, 2) \cup InTier(records, 3)
         /\ InTier(records, 1) \cap InTier(records, 2) = {}
         /\ InTier(records, 1) \cap InTier(records, 3) = {}
         /\ InTier(records, 2) \cap InTier(records, 3) = {}
<1>1. \A i \in Scored(records) : \E t \in 1..3 : Difficulty[records[i].scenario] = TIERS[t]
  BY RecordsFacts
<1>2. TIERS[1] # TIERS[2] /\ TIERS[1] # TIERS[3] /\ TIERS[2] # TIERS[3]
  BY DEF TIERS
<1>3. \A t \in 1..3 : t = 1 \/ t = 2 \/ t = 3
  OBVIOUS
<1> QED
  BY <1>1, <1>2, <1>3, Zenon DEF InTier

\* A row's number, and nothing where there is no row.
LEMMA RowsSumUp ==
  ASSUME ReportInv, NEW number, \A t \in 1..3 : number[t] \in Nat,
         \A t \in 1..3 : InTier(records, t) = {} => number[t] = 0,
         NEW row, row = [t \in DOMAIN summarize_by_tier(records) |-> number[t]]
  PROVE  SumTo(row, Len(TIERS)) = number[1] + number[2] + number[3]
<1>1. DOMAIN summarize_by_tier(records) = {t \in 1..3 : InTier(records, t) # {}}
  BY DEF summarize_by_tier, TIERS
<1>2. Len(TIERS) = 3
  BY DEF TIERS
<1>3. \A t \in DOMAIN row : row[t] \in Nat
  BY <1>1
<1>4. \A t \in 1..3 : Value(row, t) = number[t]
  BY <1>1 DEF Value
<1> QED
  BY <1>2, <1>3, <1>4, SumOfThree

LEMMA ScoredByTier ==
  ASSUME ReportInv
  PROVE  LET tiers == summarize_by_tier(records)
         IN Cardinality(Scored(records))
              = SumTo([t \in DOMAIN tiers |-> tiers[t].scored], Len(TIERS))
<1> DEFINE tiers == summarize_by_tier(records)
           row == [t \in DOMAIN tiers |-> tiers[t].scored]
           number == [t \in 1..3 |-> Cardinality(InTier(records, t))]
<1>1. row = [t \in DOMAIN tiers |-> number[t]]
  BY DEF summarize_by_tier, TIERS
<1>2. /\ Cardinality(Scored(records)) = number[1] + number[2] + number[3]
      /\ \A t \in 1..3 : number[t] \in Nat
  <2>1. IsFiniteSet(Scored(records))
    BY StatusesAddUp
  <2> QED
    BY <2>1, TiersDivide, ThreeParts
<1>3. \A t \in 1..3 : InTier(records, t) = {} => number[t] = 0
  BY FS_EmptySet
<1> HIDE DEF row, number
<1>4. SumTo(row, Len(TIERS)) = number[1] + number[2] + number[3]
  BY <1>1, <1>2, <1>3, RowsSumUp
<1> QED
  BY <1>2, <1>4 DEF row

LEMMA CorrectByTier ==
  ASSUME ReportInv
  PROVE  LET tiers == summarize_by_tier(records)
         IN Cardinality({i \in Scored(records) : records[i].correct})
              = SumTo([t \in DOMAIN tiers |-> tiers[t].correct], Len(TIERS))
<1> DEFINE tiers == summarize_by_tier(records)
           row == [t \in DOMAIN tiers |-> tiers[t].correct]
           correct == {i \in Scored(records) : records[i].correct}
           Of(t) == {i \in InTier(records, t) : records[i].correct}
           number == [t \in 1..3 |-> Cardinality(Of(t))]
<1>1. row = [t \in DOMAIN tiers |-> number[t]]
  BY DEF summarize_by_tier, TIERS
<1>2. /\ Cardinality(correct) = number[1] + number[2] + number[3]
      /\ \A t \in 1..3 : number[t] \in Nat
  <2>1. IsFiniteSet(correct)
    BY StatusesAddUp, FS_Subset
  <2>2. /\ correct = Of(1) \cup Of(2) \cup Of(3)
        /\ Of(1) \cap Of(2) = {} /\ Of(1) \cap Of(3) = {} /\ Of(2) \cap Of(3) = {}
    BY TiersDivide
  <2> HIDE DEF correct, Of
  <2> QED
    BY <2>1, <2>2, ThreeParts
<1>3. \A t \in 1..3 : InTier(records, t) = {} => number[t] = 0
  BY FS_EmptySet
<1> HIDE DEF row, number
<1>4. SumTo(row, Len(TIERS)) = number[1] + number[2] + number[3]
  BY <1>1, <1>2, <1>3, RowsSumUp
<1> QED
  BY <1>2, <1>4 DEF row

LEMMA ToolCallsByTier ==
  ASSUME ReportInv
  PROVE  LET tiers == summarize_by_tier(records)
         IN SumTo([i \in Scored(records) |-> records[i].found.planner_tool_calls], Len(records))
              = SumTo([t \in DOMAIN tiers |-> tiers[t].tool_calls], Len(TIERS))
<1> DEFINE tiers == summarize_by_tier(records)
           row == [t \in DOMAIN tiers |-> tiers[t].tool_calls]
           all == [i \in Scored(records) |-> records[i].found.planner_tool_calls]
           Of(t) == [i \in InTier(records, t) |-> records[i].found.planner_tool_calls]
           N == Len(records)
           number == [t \in 1..3 |-> SumTo(Of(t), N)]
<1>1. row = [t \in DOMAIN tiers |-> number[t]]
  BY DEF summarize_by_tier, TIERS
<1>2. /\ N \in Nat /\ \A i \in DOMAIN all : all[i] \in Nat
      /\ \A t : \A i \in DOMAIN Of(t) : Of(t)[i] \in Nat
  BY RecordsFacts DEF InTier
<1>3. \A i : Value(all, i) = Value(Of(1), i) + Value(Of(2), i) + Value(Of(3), i)
  <2> TAKE i
  <2> DEFINE calls == records[i].found.planner_tool_calls
  <2>1. CASE i \notin Scored(records)
    BY <2>1 DEF Value, InTier
  <2>2. CASE i \in Scored(records)
    <3>1. calls \in Nat /\ Value(all, i) = calls
      BY <2>2, RecordsFacts DEF Value
    <3>2. \A t : Value(Of(t), i) = IF i \in InTier(records, t) THEN calls ELSE 0
      BY DEF Value
    <3> HIDE DEF calls, all, Of
    <3> QED
      BY <2>2, <3>1, <3>2, TiersDivide
  <2> QED
    BY <2>1, <2>2
<1> HIDE DEF all, Of, N
<1>4. SumTo(all, N) = SumTo(Of(1), N) + SumTo(Of(2), N) + SumTo(Of(3), N)
  <2> DEFINE parts == [t \in 1..3 |-> Of(t)]
  <2>1. parts[1] = Of(1) /\ parts[2] = Of(2) /\ parts[3] = Of(3)
    OBVIOUS
  <2>2. \A t \in 1..3 : \A i \in DOMAIN parts[t] : parts[t][i] \in Nat
    BY <1>2
  <2> HIDE DEF parts
  <2>3. \A i \in 1..N : Value(all, i) =
          Value(parts[1], i) + Value(parts[2], i) + Value(parts[3], i)
    BY <1>3, <2>1
  <2>4. SumTo(all, N) = SumTo(parts[1], N) + SumTo(parts[2], N) + SumTo(parts[3], N)
    BY <1>2, <2>2, <2>3, SumsAddUp
  <2> QED
    BY <2>1, <2>4
<1>5. \A t \in 1..3 : number[t] \in Nat
  BY <1>2, SumToSteps
<1>6. \A t \in 1..3 : InTier(records, t) = {} => number[t] = 0
  <2> SUFFICES ASSUME NEW t \in 1..3, InTier(records, t) = {}
               PROVE  SumTo(Of(t), N) = 0
    OBVIOUS
  <2>1. DOMAIN Of(t) = {}
    BY DEF Of
  <2>2. {} \in SUBSET (1..N) /\ 0 * Cardinality({}) = 0
    BY FS_EmptySet
  <2> QED
    BY <1>2, <2>1, <2>2, SumOfSame
<1> HIDE DEF row
<1>7. SumTo(row, Len(TIERS)) = number[1] + number[2] + number[3]
  <2> HIDE DEF number
  <2> QED
    BY <1>1, <1>5, <1>6, RowsSumUp
<1> QED
  BY <1>4, <1>7 DEF row, all, N

\* Every scored record has its follow-ups, and no more of them pass.
LEMMA FollowUpsAddUp ==
  ASSUME ReportInv
  PROVE  LET s == summarize(records)
         IN s.follow_ups = FollowUps * s.scored /\ s.follow_ups_passed <= s.follow_ups
<1> DEFINE Passed(r) == {j \in DOMAIN r.follow_ups : r.follow_ups[j].route_correct
                                                      /\ r.follow_ups[j].answered}
           asked == [i \in Scored(records) |-> Len(records[i].follow_ups)]
           passed == [i \in Scored(records) |-> Cardinality(Passed(records[i]))]
           N == Len(records)
           s == summarize(records)
<1>1. /\ s.follow_ups = SumTo(asked, N) /\ s.follow_ups_passed = SumTo(passed, N)
      /\ s.scored = Cardinality(Scored(records))
  BY DEF summarize
<1>2. /\ N \in Nat /\ Scored(records) \in SUBSET (1..N) /\ FollowUps \in Nat
      /\ \A i \in Scored(records) : asked[i] = FollowUps
  BY RecordsFacts, HarnessAssumption
<1>3. \A i \in Scored(records) : passed[i] \in Nat /\ passed[i] <= FollowUps
  <2> TAKE i \in Scored(records)
  <2>1. DOMAIN records[i].follow_ups = 1..FollowUps
    <3>1. records[i] \in RunRecord
      BY RecordsFacts DEF ReportInv
    <3> QED
      BY <1>2, <3>1, RecordFields
  <2>2. Passed(records[i]) \in SUBSET (1..FollowUps)
    BY <2>1
  <2> HIDE DEF Passed
  <2>3. /\ IsFiniteSet(Passed(records[i]))
        /\ Cardinality(Passed(records[i])) <= Cardinality(1..FollowUps)
        /\ Cardinality(1..FollowUps) = FollowUps
    BY <1>2, <2>2, UpToCount, FS_Subset
  <2> QED
    BY <2>3, FS_CardinalityType
<1> DEFINE D == Scored(records)
<1>4. DOMAIN asked = D /\ DOMAIN passed = D
  OBVIOUS
<1> HIDE DEF asked, passed, N, s
<1>5. SumTo(asked, N) = FollowUps * Cardinality(D)
  <2> HIDE DEF D
  <2>1. D \in SUBSET (1..N) /\ \A i \in D : asked[i] = FollowUps
    BY <1>2 DEF D
  <2> QED
    BY <1>2, <1>4, <2>1, SumOfSame
<1>6. SumTo(passed, N) <= SumTo(asked, N)
  <2>1. \A i : Value(passed, i) <= Value(asked, i)
    BY <1>2, <1>3, <1>4 DEF Value
  <2>2. /\ \A i \in DOMAIN passed : passed[i] \in Nat
        /\ \A i \in DOMAIN asked : asked[i] \in Nat
    BY <1>2, <1>3, <1>4
  <2> QED
    BY <1>2, <2>1, <2>2, SumsOrdered
<1> QED
  BY <1>1, <1>5, <1>6 DEF s

LEMMA ReportIsRight == ReportInv => ReportAddsUp
<1> SUFFICES ASSUME ReportInv PROVE ReportAddsUp
  OBVIOUS
<1> DEFINE s == summarize(records)
           tiers == summarize_by_tier(records)
           scored == Scored(records)
           correct == {i \in scored : records[i].correct}
           calls == [i \in scored |-> records[i].found.planner_tool_calls]
           invalid == [i \in scored |-> records[i].found.invalid_citations]
           made_up == [i \in scored |-> records[i].found.reader.made_up]
<1>1. /\ s.total = Len(records) /\ s.scored = Cardinality(scored)
      /\ s.correct = Cardinality(correct)
      /\ s.failed_setup = Cardinality(With(records, "setup_failed"))
      /\ s.failed_agent = Cardinality(With(records, "agent_failed"))
      /\ s.failed_scoring = Cardinality(With(records, "scoring_failed"))
      /\ s.tool_calls = SumTo(calls, Len(records))
      /\ s.invalid_citations = SumTo(invalid, Len(records))
  BY DEF summarize
<1>2. invalid = made_up
  BY RecordsFacts
<1> HIDE DEF s, tiers
<1>3. s.total = Len(Order) /\ \A i \in DOMAIN Order : records[i].scenario = Order[i]
  <2>1. DOMAIN Order = 1..Len(records)
    BY RecordsFacts, HarnessAssumption
  <2> QED
    BY <1>1, <2>1, RecordsFacts
<1>4. s.total = s.scored + s.failed_setup + s.failed_agent + s.failed_scoring
  BY <1>1, StatusesAddUp DEF Scored
<1>5. /\ Cardinality(Marked({"PASS"})) = s.correct
      /\ Cardinality(Marked({"FAIL", "ASKED"})) = s.scored - s.correct
      /\ exit_code(s) = 0 <=> Cardinality(Marked({"SETUP", "ERROR", "UNSCORED"})) = 0
  <2>1. exit_code(s) = 0 <=> s.scored = s.total
    BY DEF exit_code
  <2> QED
    BY <1>1, <2>1, MarksAddUp
<1>6. /\ s.scored = SumTo([t \in DOMAIN tiers |-> tiers[t].scored], Len(TIERS))
      /\ s.correct = SumTo([t \in DOMAIN tiers |-> tiers[t].correct], Len(TIERS))
      /\ s.tool_calls = SumTo([t \in DOMAIN tiers |-> tiers[t].tool_calls], Len(TIERS))
  BY <1>1, ScoredByTier, CorrectByTier, ToolCallsByTier DEF tiers
<1>7. s.follow_ups = FollowUps * s.scored /\ s.follow_ups_passed <= s.follow_ups
  BY FollowUpsAddUp DEF s
<1>8. s.invalid_citations = SumTo(made_up, Len(records))
  BY <1>1, <1>2
<1>9. \A r \in Final : r.status = "scored" =>
        r.found.expected_tools_missed = r.found.reader.missed
  BY RecordsFacts DEF Final, Scored, With
<1> QED
  BY <1>3, <1>4, <1>5, <1>6, <1>7, <1>8, <1>9 DEF ReportAddsUp, Marked, s, tiers

\* summarize, summarize_by_tier and _status_mark in eval/report.py, the exit code of
\* __main__.py and cited_urls in eval/scorers.py: for any number of scenarios, states
\* the graph ends in, follow-ups and faults, the numbers of the report agree with each
\* other and with what a reader of the final states finds.
THEOREM ReportStands ==
  ASSUME ReadersAgree
  PROVE  Spec => []ReportAddsUp
<1> DEFINE Inv == HarnessInv /\ RecordInv /\ VerdictInv /\ CountInv
<1>1. Init => Inv
  BY HarnessInvInit, RecordInvInit, CountInvInit
<1>2. Inv /\ [Next]_vars => Inv'
  BY HarnessInvStep, RecordInvStep, VerdictInvStep, CountInvStep
<1>3. Inv => ReportAddsUp
  <2>1. Inv /\ at = "reported" => ReportInv
    BY DEF ReportInv, RecordInv, VerdictInv
  <2>2. at # "reported" => ReportAddsUp
    BY DEF ReportAddsUp
  <2> QED
    BY <2>1, <2>2, ReportIsRight
<1> HIDE DEF Inv
<1> QED
  BY <1>1, <1>2, <1>3, PTL DEF Spec
===============================================================================
