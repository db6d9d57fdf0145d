# Kubernetes troubleshooting agent: models, checks and proofs

TLA+ models of the agent in this repository: a LangGraph graph that investigates a
failing workload turn by turn over a checkpointer, the chat API and the MCP tool that
drive it, the page that shows it, the docs index and the cluster tools it looks things up
with, and the harness that evaluates it. Paths below are relative to the repository's root
(`src/` in `PROJECT.json`).

- [The system](#the-system): its parts, their state, how they interact
- [Modules](#modules): which module models what
- [Runs](#runs): what TLC checks, within which bounds
- [Proofs](#proofs): what holds for every instance, and why
- [Where code and documentation disagree](#where-code-and-documentation-disagree)
- [Abstractions and limits](#abstractions-and-limits)
- [Not modelled](#not-modelled)
- [Plan](#plan): what is still to be modelled and proved

## The system

| Component | Code | State it keeps | Operations | Hard behaviours | Correct when |
|---|---|---|---|---|---|
| Conversation state | `backend/graph/state.py` | `messages` and `turns` of a conversation, the run fields of a turn | merge of a turn's input, reducers | reset of run fields over whatever an earlier turn left | a turn sees no earlier turn's run fields; both lists stay in step |
| Agent nodes | `backend/agent/nodes.py` | none: a node maps the state to an update | nine nodes, two routing functions | model answers of every kind, tool errors as data, loop guard, follow-ups, namespace filling | the archived turn is what happened |
| Graph over its checkpointer | `backend/graph/build.py`, `backend/api/main.py` | a checkpoint of the whole state per superstep and thread | start of a turn, node steps, failure, cancellation, restart | concurrent turns of a thread, half-done turns, the superstep limit | only finished turns are in a thread, none is lost |
| Chat API | `backend/api/main.py` | one event stream per request | chat, events, fallback reply, error, done, thread read | client goes away, server dies, error after steps were sent | what was streamed is what a reload shows; every stream ends once, and truly |
| Trail | `backend/api/trail.py` | none | steps of a record, of a turn; the problem a pod is listed with | two ways to the same trail; init containers, several failures, moments between restarts | both give the same steps; a failing pod is listed for its own cause |
| MCP tool | `backend/mcp_server/` | checkpoints in memory | investigate | progress beside the result, fresh threads | result and progress agree; a result is of its own call |
| Chat page | `frontend/src/app/page.tsx` | messages, pending, thread id; thread id in localStorage | mount and thread load, send, stream callbacks, New conversation, reload | late answers, two tabs, broken connections | answers appear under their questions, the input comes back |
| SSE parser | `frontend/src/lib/sse.ts` | the unparsed rest | push a chunk | events split anywhere, inside a CRLF too; pings; data of several lines | events out are events in, each as soon as it is whole |
| Docs index | `backend/rag/index.py`, `loader.py`, `retriever.py` | a vector collection | rebuild in batches with retries, search | rate limits, a rebuild that dies half way, searches and other rebuilds beside it | every chunk is there once; a search finds nothing stale or twice |
| Cluster tools | `backend/tools/` | none | reads of pods, events, configuration, Services, NetworkPolicies | pods at any moment of their life, full event lists, selectors that select all or none | what is reported names the cause, and explains what traffic passes |
| Eval harness | `backend/eval/runner.py`, `cluster.py`, `__main__.py` | run records, namespaces of the cluster | set up, wait, run the agent, follow-ups, score, tear down | kubectl failing or hanging, leftovers, failures seen and gone again | the agent is asked about what the scenario says; nothing is left up |
| Eval scoring and report | `backend/eval/scorers.py`, `report.py` | none | signals, citations, judge, summary, tiers, exit code | malformed verdicts, a name inside a longer name, denominators | verdicts are earned; the report adds up |
| Configuration, prompts, logging, tracing, infra | `backend/models`, `prompts`, `observability`, `infra/` | none | | | not modelled |

How they interact. The page posts a message and its thread id; `main.chat` starts a turn
of the graph on that thread and pulls it, sending an event for every token of a prose
node and a step for every record a node added; the SSE parser gives the page those events
back. A turn's input is merged into the thread's latest checkpoint; LangGraph saves a
checkpoint after every node; `finalize` appends to the two conversation fields. Nothing
keeps two turns of one thread apart but their clients. `GET /api/threads/{id}` rebuilds a
conversation from the archived turns; the MCP tool and the eval harness run the same graph
over checkpointers in memory, the first with a new thread per call, the second with one per
scenario and its follow-ups. Nodes call the cluster tools and search the docs index; the
trail reads the result of the pod listing, the harness's readiness predicates read the same
tools' results and so wait for what the agent will see.

The hazards of this code, each at its line and with the properties that would show it
going wrong, are listed in `PROJECT.json`.

## Modules

| Module | Models | State and actions |
|---|---|---|
| `AgentState` | `graph/state.py` | record sets for the state and its parts, `NewTurn` = `new_turn_input` merged |
| `AgentNodes` | `agent/nodes.py` | one operator per node, named as in the code, from a state and an answer to a state; the routing functions |
| `AgentGraph` | `graph/build.py`, the turn loop of `api/main.py`, LangGraph's checkpointer (external) | `saved` (latest checkpoint per thread), `state`, `node`, `thread`, `supersteps` per run; one action per node plus start, model error, superstep limit, disconnect, restart |
| `Conversation` | what the service promises | `history`, `phase`, `where`; open, archive, drop |
| `AgentGraphRefinement` | the refinement mapping | `history` is what `get_thread` reads, `phase` comes from `node` |
| `Trail` | `api/trail.py`: steps | `turn_trail` and the steps it is made of |
| `ChatApi` | `api/main.py` | adds `stream` and `events` per run to `AgentGraph`; `Chat`, `Token`, `NodeUpdate`, `Finish`, `Fail`, `GoAway`, `Crash`; `get_thread` |
| `McpInvestigate` | `mcp_server/investigate.py` | adds `progress` and `result` to `AgentGraph`; `run_investigation`, `NodeDone`, `Return`, `Raise` |
| `ChatPage` | `frontend/src/app/page.tsx` | `localStorage`, and per page `threadId`, `messages`, `pending`, the thread load under way; one action per handler and callback; the server external |
| `SseParser` | `frontend/src/lib/sse.ts`; sse-starlette's encoding external | `buffer` and the events `shown`; `Push` of a chunk of any length, `Break` of the connection |
| `DocsIndex` | `rag/index.py`, `loader.py`, `search_docs` of `retriever.py`; Qdrant and Voyage external | `points` of the collection, where each build is; one action per request to Qdrant, plus rate limit, retry, death |
| `ClusterViews` | `tools/pods.py`, `events.py`, `describe.py`, `_pod_problem` of `api/trail.py`, the predicates of `eval/cluster.py`; the kubelet external | `status` per container, `events` of the namespace, `seen` by the harness; one action per kubelet step, `Poll`; the tools are operators |
| `ServiceTraffic` | `tools/services.py`, `policies.py`, `_check_service_endpoints`; label selectors and the CNI external | adds a network to `ClusterViews`; the tools are operators |
| `EvalRecords` | `eval/scorers.py`, `report.py`, what `runner.py` keeps of a final state | operators: signals, citations, summary, tiers, exit code |
| `EvalHarness` | `eval/runner.py`, `cluster.py`, `__main__.py`, the verdict of `scorers.py` | where the current run stands, the kubectl command it is at, namespaces of the cluster, records; one action per outcome of a step |
| `AgentGraphProofs`, `ConversationProofs`, `EntryPointProofs` (of `ChatApi` and `McpInvestigate`), `ChatPageProofs`, `SseParserProofs`, `DocsIndexProofs`, `EvalHarnessProofs`, `ServiceTrafficProofs` (of `ClusterViews`, too) | | theorems |
| `MCAgentGraph`, `MCChatApi`, `MCMcpInvestigate`, `MCChatPage`, `MCSseParser`, `MCDocsIndex`, `MCClusterViews`, `MCEvalHarness` | | instances for TLC |

A turn is identified with its request: run `r` is the one turn whose `user_request` is
`r`. What a node computes carries the turn that computed it (`by`); the program has no
such tag, the properties need it, as they need the `reader` of an eval record, which says
what one who reads a final state would find in it. Operators whose name ends in `_` and a
word (`NewTurn_ResetsAll`) are mutants: the definition they are named after with a plausible
bug. No specification uses them; each one breaks the property `PROJECT.json` lists it for,
which shows that the property depends on that line of the code.

## Runs

Every run says `CHECK_DEADLOCK FALSE`: each turn, page load, question, build, stream or
scenario is used once, and when all are used the system has nothing left to do.

| Run | Question | Bounds |
|---|---|---|
| `graph_serial` | what does a thread keep, what does a follow-up look back on, and does the graph implement `Conversation`, when each turn waits for the one before? | 1 thread, 3 turns, every fault, guard at 1, a limit of 8 that some turns meet, window of 1 |
| `graph_concurrent` | what still holds of archived turns when nothing waits? | 2 threads, 3 turns, errors and disconnects |
| `graph_rich` | routes, namespaces, pages and the superstep limit over all kinds of data; does every turn finish? | 2 turns, 2 namespaces, made-up tools, empty texts, no faults but one turn that may hang, limit 2 * 1 + 8 = 10 |
| `chat_streams` | does a reload show what was streamed, does a stream end once, truly, and at all? | 2 requests, all faults, one turn that may hang, guard at 2, a limit of 9: a turn without a tool call ends, one with a call is archived and then told it failed, one with two calls fails half way |
| `mcp_calls` | does a call return what it did, and does it return? | 2 calls at once, model errors, one that may hang, guard at 2, limit of 2 * 2 + 8 = 12 |
| `page_shows` | are answers where they belong, does the input come back? | 2 page loads, 2 ids, 2 questions of 2 pieces, one whose turn may hang |
| `sse_chunks` | has the page been given exactly what has arrived? | up to 3 of 4 kinds of event and pings, every chunking |
| `rag_index` | what does the collection hold, and what does a search find, at any moment? | 3 builds over corpora of 0, 2 and 3 chunks, batches of 2, 2 hits, every fault |
| `cluster_views` | does what the tools report name the cause, last, and explain the traffic? | 14 pods, a limit of 2 events, 2 restarts, 2 other objects, about 110 sets of policies, Services that select another pod, no pod, or send to a port nothing listens on |
| `eval_scenarios` | what is the agent asked about, what is graded and reported, what is left, does it end? | 2 scenarios, one with a second namespace, all faults, any leftovers, a call that may hang in the second |
| `graph_lost_turn`, `page_stale_load` | violations, see below | as small as shows them |

Why the bounds are enough. A bad turn needs at most an earlier turn to take something
from and a third one to be mistaken for it, hence three turns; two of one thread and one
of another for concurrency. With the guard at 1 or 2 the plan loop is cut, ends on its own
and goes round; everything that depends on its length is proved for any length. One thread
is enough where turns do not interact across threads, which the concurrent run and the
proofs confirm for two and for any number. Two page loads are a reload, or two tabs; two
scenarios are a scenario and what the one before it left. Three builds are one that died,
one after it and one beside that; batches of 2 over 3 chunks are a full batch and a rest.
Three frames put an event between two others. The pods of `cluster_views` are the kinds of
failure of the scenarios, and four that no scenario has: a sidecar that fails beside the
culprit, an init container and a second container blocked by their configuration, and a
job; two restarts are the most any predicate asks for. Symmetry (runs, threads, pages, ids,
questions, builds, other objects) is only used in runs that check no liveness.

Fairness. The code bounds the time of one thing it calls, kubectl in the harness
(`eval/cluster.py:38`, 120 s). Models are built without a timeout (`models/config.py:44-49`),
the Kubernetes clients and every call of them without `_request_timeout`
(`tools/client.py:25-39`), no node and neither `ainvoke` of `eval/runner.py` (`:172`, `:211`)
is waited for with a limit, and the deadline of `wait_until_broken` is only looked at between
two reads of the cluster. One call that never comes back leaves its turn unfinished for good,
and with it the stream (which goes on with pings), the MCP call, the page's disabled input, or
the whole harness. So no liveness is claimed of such a turn: the constant `Hanging` names the
turns, questions and scenario runs a call may hang in, fairness is only assumed of the others,
and the liveness properties say that these come to their end whatever the first do. `Hanging`
holds one of two in each run, and the properties are about both: one that hangs may not keep
the other waiting, and what does not depend on a call goes on even for one that hangs.

What is assumed then: a node whose calls come back runs to its end (`FairSpec` of
`AgentGraph`), for a handler is a task of an event loop that is pulled as long as its client is
there; models are awaited and the tools run in threads (`nodes.py:119`, and the executor of
LangChain's `ainvoke` for synchronous tools), so that other turns go on as long as fewer calls
hang than the executor has threads. `ChatApi` adds that what is left to send is sent when the
graph is through, `McpInvestigate` that a finished call returns, `ChatPage` that what was sent
arrives, and the end of the stream with it once the turn is over, `EvalHarness` that the steps
between two calls, and kubectl, are got over with. Nothing is assumed about faults, about
requests being made, about two turns taking turns, or about scenarios breaking and namespaces
terminating. `SseParser`, `DocsIndex` and `ClusterViews` assume none: their properties are
about every moment. A rebuild need not end (a rate limit is retried without bound), and no pod
has to fail.

## Proofs

All of these hold for every value of the constants that meets the modules' assumptions: any
number of threads, turns, tool calls, page loads, builds and scenarios, any set of model
answers, any corpus, any pods and policies. A theorem that needs more states it as its own
hypothesis, named below; TLC has found each of them true of the instance that is checked.

| Theorem | Says |
|---|---|
| `TypeCorrect` | the state stays well typed |
| `EvidenceOwned` | an archived turn holds only its own evidence, concurrent turns included |
| `RoutesTrue` | an archived turn's route is the one it took; a follow-up stands on an investigation before it |
| `MessagesPaired` | `messages` and `turns` are the same conversation |
| `PagesCitable` | grounding pages are distinct, at most `GROUNDING_DOCS`, looked for with a cause |
| `SuperstepsSuffice` | a limit of `2 * LOOP_GUARD_MAX + 8` supersteps is never met, neither before a node nor after the last one; with the code's 8 that is 24, within LangGraph's default of 25 |
| `NoCallMisrouted` | where the scope names a namespace, every call of a tool that works on one went to one, and to the scope's if the model left it out |
| `FollowupsDrawOnLatest` | a follow-up is answered from the newest investigations of the conversation it continues, and from at least one |
| `OnlyFinishedKept` | only finished turns are in threads, each once and in its own |
| `NoFinishedTurnLost`, `ThreadsAppendOnly` | with `Serial`: a finished turn stays, a thread only grows at its end |
| `Refinement` | with `Serial`: the graph implements `Conversation` |
| `EndsOnce` | a stream says how its turn ended once, as its last event; one that is done carried one reply |
| `EndingsTrue` | an error means the turn is in no thread, unless it is the superstep limit met after the last node, which `SuperstepsSuffice` rules out; with `Serial`, done means it is in its own |
| `TrailsReload`, `RepliesReload` | a reload shows the steps that were streamed and the reply that was spoken, but for the two exceptions below and a reply cut off by an error |
| `DiagnosedTrue` | an MCP result marked diagnosed is a diagnosis of its own call, and truly says whether the guard cut it short; assumes no tool is called like the sweep |
| `ProgressTrue` | the progress an MCP client was sent adds up to the result: as many tool calls reported as the result counts and its trail shows; the same assumption |
| `PageTypeCorrect` | the state of a page stays well typed |
| `AnswersInPlace` | under each question there are only pieces of its own answer, in order, however late a thread load or an update comes |
| `OneTurn` | a turn that runs on while its page may send is one whose connection broke |
| `WholeAnswers` | an answer without an error that is not waited for is whole, and archived |
| `StreamUnderstood` | however the network cuts the stream, the page has been given exactly the events whose frame has arrived to its end, each as it was sent |
| `RebuiltIsWhole` | a build that returned, with no other beside it, left its corpus in the collection, each chunk once |
| `HitsAreSound` | a search beside or after a rebuild finds distinct chunks of one corpus |
| `AgentSeesIt` | the agent only works on a namespace of this run's making with all of its scenario in it, which has broken |
| `NothingStaysUp` | a harness that reported left nothing it created live, but what kubectl would not delete |
| `HarnessTypeCorrect` | the state and the records of the harness stay well typed |
| `VerdictsEarned` | with `ReadersAgree`: no run counts as correct but on the judge's word or, without one, for an answer a reader finds right |
| `ReportStands` | with `ReadersAgree`: the headline, the tiers, the marks and the exit code of the report agree with each other, with the records and with what a reader of the final states finds made up or missed |
| `WarningsShown` | a warning of a pod is in its description until as many newer events as the limit are about the pod itself |
| `BlockedExplained` | the references and keys `describe_resource` reports tell which container or mount is blocked by its configuration |
| `TrafficExplained` | what the tools return of Services and policies, with the one port they do not show, decides whether a client gets through: to the pod by what they return, into the container by whether it listens on the target port |
| `CulpritsNamed` | with `FailsFirst`: a pod is listed as unhealthy exactly if an app container is not ready, with the reason of one that is down for its fault |
| `FailureTraced` | with `Telltale`: what a poll of the harness has found stays visible in every later listing |

The argument for the graph. None of these is inductive alone: what is archived depends on
the run fields of the turn that archives it, and these on the node it is at. `IInv`
(`AgentGraphProofs`) says for each node which run fields are set and that they are the
turn's own, that the step count is the number of tool calls in the log and is bounded by
the guard, that the nodes completed are bounded by the steps to that node (by
`2 * LOOP_GUARD_MAX + 7` at the end), and that
`saved` and every `state` hold well-formed turns. `NewTurn` gives it at `intake` from any
saved state, which is why no assumption about other turns is needed: a copy is only ever
read by its own run, and a new turn takes nothing from it but the two lists.
The first part of the module has the facts about single nodes this rests on,
`DistinctPages` among them. `FinishedInv` (`ConversationProofs`) adds that a turn in a thread
is done and was started on it; for the theorems that assume `Serial`, `SerialInv` adds that,
with one active turn per thread, `saved[t]` is the active turn's copy and its lists are the
thread's. The run `graph_lost_turn` shows that they need the assumption. `RoutedInv` adds to `IInv` that
the scope is there from the first call on and that only `intake` writes it: what the log was
sent by is what it is archived beside. `LatestInv` needs `FinishedInv`, for an answer names
its evidence by turn, and only where a turn is in a copy once does a name stand for one
position of it; what `finalize` appends after the answer is a follow-up, no investigation.

For the API, `ChatInv` (`EntryPointProofs`) ties each stream to the node its run is at: open
while it is active, ended only when it is done or failed, with an ending as its last event
and nowhere else, an error only if the run failed or met the limit after its last node, and with a token before a done. What a stream says is then what the graph
knows (`OnlyFinishedKept`, `NoFinishedTurnLost`), since the API only takes the graph's
steps (`ChatServesGraph`). `ReloadInv` follows what was sent: at every node, the steps
streamed so far are those of the turn the state would be archived as, and the tokens are
the reply it holds; `finalize` archives exactly that, and from then on only the turn's own
ending is sent.

For the MCP tool, `McpInv` (in the same module) says that nothing is on a thread no call was given
yet, so that the one turn of a call has none before it to follow up on, and that all of its
log but the sweep goes by other names. The theorem assumes that of the catalogue and of the
names a model makes up; the code does not check it (`nodes.py:192`). `CountInv` adds the
counting: a call at work has reported every node it is through with, `execute_tool` as often
as `step_count` says, so that the archived log and its trail have as many tool calls.

For the index, `IndexInv` (`DocsIndexProofs`) says how far the latest build is: before its
collection is created the old one stands or is gone, after that the collection is the part
of the corpus it is through with, a batch at a time, unless another build was beside it.

For the page, `PageInv` (`ChatPageProofs`) says that a page that waits has its last message
open for the turn it waits for, whose connection it alone listens to and whose pieces that
have arrived are that message; that every other answer is whole and archived or marked as
failed; and that a thread load under way brings nothing but archived answers.

For the parser, `StreamInv` (`SseParserProofs`) says where in the stream the page is: a text `y`
has arrived, which is the frames of `k` events and the beginning `p` of the next; the buffer
holds `p` with its line endings normalized, and the page has been given what the `k` events
meant. Three things carry it over a chunk `x`. Normalizing and appending may be done in either
order (`LfOnlyGoesOn`), but only because what is kept is normalized text that normalizing
leaves alone (`Tidy`): no `"\n"` in it follows a line ending. Texts without that property
exist, and every beginning of a frame has it (`BeginningsTidy`). The text `p \o x` is whole
frames and a beginning again (`WhereItStops`), and splitting it gives the bodies of those
frames (`StreamAndRest`). And a frame's body is read as its event meant (`Understood`): its
lines are the fields it was written with, since no field has a line ending in it. The texts
are joined and split by functions over their positions, and what holds of them for every
length is shown by induction over a set of lengths, or of texts (`AllNumbers`, `AllTexts`).

For the harness, `HarnessInv` says what the kubectl commands behind the current step have
made of the scenario's namespaces, that no namespace is of a run to come, and which ones
teardown is still to delete. `VerdictInv` adds that a record that is not graded is incorrect
and without a word of the judge, who is only asked about an answer. `ReadersAgree` is about
the golden labels: where the signals match, a reader finds the answer right, and a turn that
asks back says nothing else. No code could make that so for every label.

For the report, `CountInv` (`EvalHarnessProofs`) says that there is a record for each run that is over, in order,
and that one that was scored has all of its follow-ups and the findings of a final state.
`SumTo` is a sum over positions, so that the denominators of the tiers are those of the headline
(`ReportStands` splits each sum by difficulty); `ReaderAssumption` says what the `reader` of a
final state counts: the public pages that are not in the docs index, the expected tools that
were neither called nor stood in for by the sweep.

For the cluster, `ClusterInv` (`ServiceTrafficProofs`) says that whatever was started was
mounted, configured and behind its finished init containers, and that a configuration error
or a failed mount is reported only where there is one; `SelectorString` that the strings
selectors are rendered to are understood as the selectors. `TurnInv` adds the order: a
container that was tried has all before it tried, its init containers done, so that none but
a failing one is listed before one that fails. `FailsFirst` asks this of the pod: of two
troubles, one a fault and one a missing key, the first is named, whichever the scenario is
about. `TraceInv` says that what a poll found leaves a container that was restarted or cannot
start, or a mount that is missing. `Telltale` asks that a predicate wait for what the pod's
faults make it do; a pod that is merely not ready yet leaves no trace of that.

The listing of events is stated by positions: `Newest` of a set of positions are those with
fewer than `LIMIT` before them. `EventsInv` gives that the positions are finite, and the rest
of `WarningsShown` is that a limit taken after the filter counts no event of another object.

Assumed of the constants: every scenario has one of the three tiers (`TIERS` of `report.py`),
a limit of events is a number, pods have containers of different names, the fields of a
record have their types, the events the API sends have a name without blanks and data in
lines (`SseAssumption`: sse-starlette breaks data at every line ending). TLC evaluates all of
them on the instances of the runs.

What stays with TLC is liveness: `EveryTurnFinishes`, `EveryRequestAnswered`,
`EveryCallReturns`, `InputFreed` and `HarnessEnds` need fairness and `ENABLED`, which are out
of the prover's reach. Every other property of a passing run is a theorem.

## Where code and documentation disagree

- `graph_lost_turn`: `graph/state.py:143` calls the conversation fields append-only. Two
  turns of a thread at once each checkpoint their own copy, and the later one drops what the
  other archived. Two tabs of a browser share the thread id through localStorage.
- `page_stale_load`: `page.tsx:80-81` says a reload can fetch the conversation back. A thread
  load that is answered after New conversation shows the old one under the new id.

Also met, and stated as exceptions of a property or not at all:

- `api/trail.py:5-7` says the streamed and the rebuilt trail cannot drift. A failed docs
  lookup is streamed (`main.py:96`) and not archived (`trail.py:111`). `TrailReloads` excepts it.
- `graph/state.py:129-131` says the reply seen and the one recorded cannot drift apart. They do
  when a prose node returns no text: the client is sent the default question, an empty reply
  is archived. `ReplyReloads` excepts it.
- `eval/runner.py:8-11` says scenarios run one after the other so as not to contend. Teardown
  is not waited for (`:165`, `:185`, `:201`), and a namespace may still terminate beside the
  next scenario's setup, which only waits for its own.
- `eval/scenarios.py:98` says a follow-up runs after the first turn is scored; the follow-ups
  run before scoring.
- `tools/langchain_tools.py:62` calls the events deduplicated; the tool returns what the API has.
- `tools/langchain_tools.py:76` reads two empty lists of endpoints as a selector that matches no
  pods; a pod without an address is in neither list, too.
- `tools/describe.py:94-100` reports Secret and ConfigMap volumes, not the sources of a
  projected volume.
- A job that ran to completion is listed as unhealthy, for `Succeeded` (`api/trail.py:34-43`).
- The loop guard is documented to lower confidence (`docs/architecture.md`), which only a
  sentence of the prompt asks for (`nodes.py:235-241`); `graph/README.md:11` still says that no
  checkpointer is wired in.

## Abstractions and limits

- Models, tools and the docs index answer with any member of a set. Texts are empty or not, or
  tell two namespaces or pages apart; in `EvalRecords` a text is the set of identifiers in it,
  an identifier the parts its hyphens join, which is what signal matching tells apart.
- A node's completion and its checkpoint are one step, and so are the merge of a turn's input
  and its checkpoint. LangGraph may write a checkpoint while the next node runs; only
  `finalize` changes what a thread shows, and `done` is sent after all were written.
- LangGraph counts a step of its own, `__start__`, and looks at its limit before it sees that
  no node is left: a turn of N nodes needs a limit of N + 1 (`StepsLeft`). At a limit of
  exactly N the turn is archived and then raises (`RaisesAtEnd`); the client is told of an
  error although the turn is in its thread. The code sets no limit, and its guard of 8 keeps
  every turn below the default.
- Checkpoints of a thread are ordered by the time they were made and the latest is read, as
  the SQLite saver does. A restart keeps the file and loses the running turns.
- A prose node's tokens are one event with all of their text; `ChatPage` takes events whole,
  and that they come out of the network's chunks whole is `SseParser`'s matter. There, a stream
  is a sequence of the characters the parser looks for, field names and words.
- A turn is cancelled between nodes, not inside one: a node has no effect before it ends.
- `ChatPage` takes from the server only that a turn is archived before its stream is done or
  not at all. The page takes any end of the body without an error event for the end of the
  answer and does not wait for `done` (`page.tsx:67-72`); `AnswersAreWhole` rests on the server,
  or a proxy in between, never closing a body in good order before its last event (`BodyEnds`):
  one that dies breaks the connection, which the page's reader raises. What two turns at once do to a thread is `AgentGraph`'s matter. React's batching
  of updates is left out: an update is applied when it is made.
- `DocsIndex`: a batch is upserted in one request or not at all. The opening of the collection
  in between (`index.py:53`), which embeds a text of its own, is not retried and may end the
  build. A corpus without chunks returns 0 and keeps the old collection. Two rebuilds at once
  do leave a mixture; nothing keeps them apart and both properties except them.
- `ClusterViews`: one pod per namespace beside the others' events, and each tool result is of one
  moment. Endpoints follow from the pods at once, with no controller's lag; a Service without a
  selector has none (those made by hand are left out), and reading them is a 404. The port a
  container listens on is in no tool's result, on purpose (`tools/describe.py:63-64`, the scenario
  `targetport`): `TrafficIsExplained` takes it as given, so that of a Service with a ready
  endpoint that no policy stands before, the tools do not tell whether connections are refused.
  Peers by `ip_block` admit no pod. Named ports, the predicate over logs, and the tools for logs, nodes and
  deployments are left out.
- `EvalHarness` has one observable failure per scenario, which stays once it shows
  (`FailureLeavesTrace` of `ClusterViews`, and nothing in this module, covers a failure that is
  seen and gone again before the agent looks), and grades a follow-up as recorded. The two
  scenarios of its run share no namespace: that a teardown overlaps with the setup of the same
  scenario, asked for twice (`-s` may be repeated), is only covered by the theorem
  `AgentSeesIt`, which holds for every order. An interrupt from the keyboard is what `Leftovers` stands for.

## Not modelled

`frontend/src/app/trail.tsx` and `layout.tsx` render a step each and keep nothing but whether a
panel is open. `backend/models`, `prompts` and `observability` are configuration, texts, logging
context and tracing. `infra/` and the registry of `eval/scenarios.py` are data: its readiness
predicates are instances of `cluster_views`; prompts, golden labels and the advisory
`forbidden_terms` of a label decide nothing. Adapters of the tools for LangChain format results.

## Plan

1. More of the system: a composition of `ChatPage` with `ChatApi` in place of its external
   server, so that two tabs lose turns in the model as they do in the code; endpoints that lag
   behind the pods and a predicate that is met and unmet again; the tool results whose reads are
   of several moments.
2. More proofs: what each of these would add, and the safety half of the liveness properties,
   that a fair step brings a turn, a call or a harness nearer to its end (a measure that falls).
