--------------------------------- MODULE Trail ---------------------------------
(***************************************************************************)
(* The investigation trail of backend/api/trail.py: the steps a client     *)
(* sees of how an answer was reached, one for each thing that happened.    *)
(* How a record is summarised is left out: a step carries its record.      *)
(***************************************************************************)
EXTENDS AgentState

\* By the record's name alone, whoever called the tool.
log_step(record) ==
  [type |-> IF record.tool_name = INITIAL_SWEEP THEN "sweep" ELSE "tool",
   record |-> record]

diagnosis_step(diagnosis) == [type |-> "diagnosis", diagnosis |-> diagnosis]

docs_step(docs, error) == [type |-> "docs", docs |-> docs, error |-> error]

followup_step == [type |-> "followup"]

\* The trail of an archived turn.
turn_trail(turn) ==
  IF turn.route = "followup" THEN <<followup_step>>
  ELSE [i \in DOMAIN turn.investigation_log |-> log_step(turn.investigation_log[i])]
       \o (IF turn.diagnosis = None THEN <<>> ELSE <<diagnosis_step(turn.diagnosis)>>)
       \o (IF turn.reference_docs = <<>> THEN <<>>
           ELSE <<docs_step(turn.reference_docs, None)>>)
===============================================================================
