# A TLA+ model of diffbot-agent

`diffbot-agent` runs one long-lived language-model agent that drives a robot. An
operator speaks or types commands to it (`Orchestrator`), or coding agents send it
commands over A2A and MCP (`server.py` and `RuntimeController`). Each command is a
*turn* of the OpenAI Agents SDK, whose tools are those of `diffbot-mcp`; a tool may ask
the operator a question, the SDK session keeps the conversation, and each turn leaves an
episode in a long-term memory.

Everything runs on one asyncio event loop. There are no threads to interleave; what
interleaves are coroutines, at their suspensions. The models therefore take the stretch
between two suspensions of a coroutine as one step, and the comments at the head of each
module say which stretches those are.

## Inventory

Paths are relative to `src/src/diffbot_agent/`.

| component | state | operations | talks to |
|---|---|---|---|
| `OperatorInputCoordinator` (`operator_input.py`) | queue of commands, the pending question, closed flag, lock | `submit_answer`, `enqueue_command`, `request_answer`, `next_command`, `close` | producer, loop, elicitation callback |
| `Orchestrator` (`orchestrator.py`) | `_turn_running`, the producer task | `run`, `_produce_inputs`, `_accept_command` | coordinator, runtime, line sources |
| `RuntimeController` (`runtime_controller.py`) | lock, started flag | `start`, `stop`, `run_command`, `reset`, `status` | runtime; called by the server |
| server (`server.py`) | A2A tasks, lifespan | `execute`, `cancel`, the three MCP tools | controller, A2A SDK, MCP SDK |
| `OpenAIAgentsRuntime` (`openai_agents_runtime.py`) | agent, session, memory, exit stack, usage | `start`, `run_turn`, `reset`, `stop` | Agents SDK, memory backend |
| MCP session (`openai_agents_runtime.py:468-627`) | session, exit stack | `connect`, `call_tool`, reconnection, `cleanup` | diffbot-mcp |
| memory backend (`memory_backend.py`, `mcp_client.py`) | connected flag, pending writes, client | `start`, `add_episode`, `close` | diffbot-mcp |
| context window (`context_window.py`) | completed calls, latest frame and its validity | `filter_model_input` and what it calls | SDK, before every model request |
| session usage (`session_usage.py`) | counters, gauge | `add`, `snapshot`, `delta_since`, `reset` | runtime's hooks, console, `status` |
| voice commands (`audio_client.py:26-82`) | channel, stream | `command_stream` | diffbot-audio (gRPC) |
| console (`audio_client.py:85-148`) | terminal | `stdin_commands` | the operator |
| elicitation (`elicitation.py`) | none | `elicitation_callback` | coordinator |
| episode (`episode.py`) | the categories of the tools | `build_canonical_record`, `build_episode_draft` | runtime, memory backend |
| sanitizer (`sanitize.py`) | none | functions over JSON values of any depth | session, episode, context window |
| run log (`mcp_logging.py`) | the pending calls of a turn | `handle_event`, `log_pending_errors` | the stream of the SDK's run |
| Ollama vision provider (`ollama_vision_provider.py`) | a converter of the SDK, replaced during a request | `_fetch_response` | SDK |
| `config.py`, `main.py`, `logging_utils.py`, `proto/` | configuration, wiring, logging, generated code | | |

There are two ways to wire these (`main.py`). From the command line the `Orchestrator`
calls the runtime itself, one turn after the other, with no timeout on a turn; the
coordinator answers the elicitations. With `serve` the `RuntimeController` stands
between the server and the runtime, with a lock that is tried and a timeout; nobody feeds
the coordinator, so that a question waits for its whole timeout.

What is hard here, and what makes each component correct:

- **Routing of the operator's lines.** A line is an answer, a command, or dropped,
  according to two flags that other coroutines change. Each line must be used once, a
  question must not be hidden by the cleanup of an earlier one, an answer that was taken
  must arrive, and the shutdown must leave no question waiting.
- **One command at a time.** The robot must not serve two turns; a caller that is timed
  out or cancelled must not leave its turn running behind it; `stop()` takes no lock.
- **What outlives a turn.** Episodes are written by tasks nobody awaits, and the shutdown
  must not cut them off.
- **A tool call over a dying session.** A tool that moves the robot must not be sent
  twice; reconnections take no lock.
- **What the model sees.** The only camera frame in a request is one that was taken after
  the robot last moved; the cut of the thread leaves no call without output.
- **Three clocks on one question.** A question of `speak.ask` has the session's 90 s, the
  operator's 120 s and the turn's cancellation over it, and a request that was given up does not
  take its question back.
- **What a turn leaves.** The log follows the stream, the episode follows the run, and they end at
  different places when the stream raises; no image may outlive the turn in any of them.
- **A replacement in a shared class.** Model requests swap a converter of the SDK and put it back,
  while the request of a turn that was given up may still be unwinding.
- **Streams that come and go.** The voice stream is opened again and again.

`PROJECT.json` lists these as hazards, at their lines, with the properties that would
fail if they went wrong.

## Modules

```
CommandTurns            what the agent promises about commands (abstract)
    ^ refinement
Orchestrator            EXTENDS OperatorInput
OperatorInput           the coordinator, with the callers of request_answer
    ^ EXTENDS
SpokenQuestion          a question of speak.ask in time: call, elicitation, operator

CommandService          what the server promises to its clients (abstract)
    ^ refinement
RuntimeController       the lock, the timeouts, the lifespan; EXTENDS AgentRuntime
AgentRuntime            life cycle, turns, episodes
    ^ EXTENDS RuntimeController       ^ EXTENDS RuntimeController
A2ATasks                        SessionUsage
                                    ^ EXTENDS
                                ModelRequests   the replaced converter

RunLog                  the tool calls of one run, and their log
    ^ EXTENDS
ToolRecord              which calls are in the record and in the memory
    ^ EXTENDS
TurnRecord              the session's items, and the contents of the record
    v EXTENDS
Sanitizer               functions over JSON values of any depth

ContextWindow           the filter of the model's input
McpSession              tool calls over a session that is replaced
VoiceCommands           the voice stream and its reconnections
```

`MC*.tla` are the instances that TLC runs, with the `.cfg` files of the same prefix;
`*Proofs.tla` hold the theorems; those of `RuntimeController`, `A2ATasks`, `SessionUsage` and
`ModelRequests` are together in `RuntimeControllerProofs`, and those of `RunLog`, `ToolRecord`, `Sanitizer` and
`TurnRecord` in `TurnRecordProofs`.

### OperatorInput

`commands` is the `asyncio.Queue` with `CLOSED` for the end marker; `pendingAnswer` is the
caller whose future `_pending_answer` refers to; `closed` is the flag. The futures are
kept per caller, as a future is created by exactly one call of `request_answer`: it is
`pending`, `answered`, `released` (by `close`, with `None`) or `cancelled`. `caller` is
where the coroutine of each call is, `signals` what has been told to its `wait_for`.
`_lock` has no variable: no coroutine suspends while it holds it, so that each of its
blocks is part of one step.

`asyncio.wait_for` is the one library function whose exact behaviour matters. Up to
Python 3.11 an answer that is set in the same iteration as the timer is returned; from 3.12
on, `asyncio.timeout` cancels the waiting task, and the timeout wins. The project requires
Python 3.11 or later, so the constant `EagerCancel` selects one, and both are checked: `input`
takes the first, `orchestrator` the second, and the proofs both. With `EagerCancel = TRUE` the
answer to a question that loses this race is taken from the operator's input and lost; that is
why `AnswersDelivered` is checked and proved for 3.11 only.

`submit` is not modelled apart: it is `submit_answer` followed by `enqueue_command`, with
no caller in the agent.

### Orchestrator

Extends the coordinator with `run()` (`loop`), the producer task, `_turn_running` and the
history of the lines. `Hear(t)` stands for a line that the source of lines yields: each line
is said at most once, so that histories stay finite. `HearAnswer`, `HearIgnored`
and `HearCommand` are the three branches of `_produce_inputs`. The end of a turn and the
taking of the next item are one step when the queue is not empty, as the loop does not
suspend there. `Interrupt` is the SIGINT that `asyncio.run` turns into one cancellation of
the main task, at every place where `run()` may be suspended. `Ask` is the elicitation
callback: it may come during a turn, or after it, when diffbot-mcp still waits for a call
that the agent has given up.

`CommandTurns` is the abstract specification: commands are accepted when none is being
served, begun in order, and not begun after the stop. `OrchestratorProofs` proves the
refinement mapping, in which the accepted commands are those begun followed by those in the
queue.

### SpokenQuestion

The coordinator with the two ends that are behind it: the `tools/call` of `speak.ask` over the MCP
session, with its 90 s (`call`, `age`), and `elicitation_callback`, with the time that the
elicitation names (`limit`, `waited`, `replied`). The clock advances by ticks of 30 s, and only
while no coroutine can run and no timer is due, so that a race is a race at the same instant.
`ToolArguments` is `_mcp_tool_arguments`, which replaces the timeout that the model has written;
`TimeoutSeconds` is `_timeout_seconds`. A session that gives a request up stays open, and so does
the question: `CallTimesOut` and `CallLeft` leave `caller` alone, and a later call may find that
question pending and be refused. The operator may still answer it, between 90 s and 120 s: the callback
accepts an answer that nobody waits for. The code says nothing of this case.

A session may also break, by a fatal error of its own request or of another tool's (`SessionBreaks`):
the call that waits over it ends, as `call_tool` reconnects and raises without repeating `speak.ask`, and
the callbacks of the broken session (`lost`) may be cancelled, at any time later or not at all. The answer
that the operator has given by then is lost. `TimelyAnswerArrives` therefore says of an answer given in
time that only the end of the turn and a broken session come between it and the call: no timer, no close
and no other question does.

### AgentRuntime and RuntimeController

`AgentRuntime` keeps which of the runtime's fields are set (`session`, `memory`, `stack`),
the connection of the memory backend, what each call is doing in the runtime and what has
become of its episode. `stop()` is split where it suspends: in the gather of the writes
(`StopBegins`, `Flushed`), in the client's stop (`Disconnected`, `DisconnectRaises`) and in
the exit stack (`StackCloses`).

`RuntimeController` adds the lock, which is tried and never waited for, `wait_for` around
the turn, and the lifespan of the server. `wait_for` gives a turn up only after the turn has
ended; so the timer (`Timeout`) and the end of the turn (`CommandCancelled`) are two steps,
and the turn may still end by itself in between, be it with a `TimeoutError` of its own, which the
controller takes for the timeout. A2A calls run in tasks of their own, which
may reach the controller at any time, the shutdown included; MCP calls are cancelled before
it begins.

`CommandService` is the abstract specification, from a client's point of view: a call is taken
when nobody is being served, it is served alone, it is sent away at once otherwise, and nothing is
taken before the service opens or after it begins to close. The mapping takes the lock for the call
that is being served, and `stage` for the phase: the service closes when `stop()` is called, not
when it returns, while a call that was taken before may still be going on.

### A2ATasks

What `DiffbotAgentExecutor` publishes for each A2A task, composed with the whole
controller. `told` is the last state that `execute()` published; `cancel()` publishes
"canceled" from a coroutine of its own (`canceled`). That the SDK then cancels the task of
`execute()`, and which of two final events a client sees, is outside this code.

### SessionUsage and ModelRequests

The counters composed with the controller: a turn takes a snapshot when it begins,
`on_llm_end` adds to the counters, `reset()` zeroes them and a completed turn prints its
delta. Token counts are small numbers; only equality and order matter to the properties.

`ModelRequests` refines a model call into its request and its response. While the request is being
sent, `_fetch_response` has replaced `Converter.items_to_messages`, which belongs to a class and so
to all requests, and the `finally` clause puts back what it has saved. A turn that is given up
leaves the stream of its run; the run's own task unwinds later (`RequestUnwinds`), at worst when the
next turn has sent a request of its own. `overlap` remembers that this has happened:
`ConverterScoped` says that until then the SDK's converter is back whenever no request is under
way. After an overlap a replacement may stay; it does what the next requests want anyway, as all
of them go through this provider.

### ContextWindow

A thread of items (`system`, `user`, `message`, `call`, `output`, `compaction`) with what the
filter looks at: the id of a call, whether an output carries an image, whether the tool moves
the robot, and a size. `compactLocally` is chosen at the start and never changes, so that one run covers the path of
Ollama (the cut to a budget) and that of OpenAI (the compaction markers of the server).
`FilterModelInput` is the whole of `filter_model_input`. The model
calls tools in batches of up to `MaxBatch`: the SDK appends all calls of a response and
then all outputs, and before them what else the response holds (`Openings`: a message or a piece of
reasoning, or a compaction marker). `InSequence`, the condition under which nothing is orphaned, looks for
an output between two calls and so is not deceived by a message there. The sizes of the operator's lines
and of the outputs are parameters (`LineSizes`, `OutputSizes`); an output with a frame is as short as its
placeholder once the frame has been taken out. `BeginCommand` starts a new `CommandContextState`, as `run_turn` does, and
the items stored in the session are sanitized.

### McpSession

One MCP session, replaced when a call meets a fatal error. `alive` are the sessions that are
connected, `owned` those that the exit stack will close. `Fatal` is what
`_is_fatal_mcp_session_error` answers for each class of error. Every suspension of
`call_tool` is a place where the session may have been replaced, so a call carries the
session it captured (`using`). A call raises at once when there is no session or a required argument
is missing; a reconnection fails when the cleanup of the old session or the new connection does
(`ReconnectFails`). `overlap` remembers that two calls have been reconnecting at
once: then a session may be left open, and `NothingLeaked` says that it takes no less.

### Sanitizer, RunLog, ToolRecord and TurnRecord

`Sanitizer` translates the recursive functions of `sanitize.py` over JSON values (lists, dicts with
a `type` and other fields, strings, numbers, null). A string is the set of what is found in it:
words, a data URL, bare base64, the placeholder; a list is the set of its items and a dict the set of its
other fields, as nothing in `sanitize.py` depends on their order. What a function does with one value is
an operator (`Contains`, `Sanitized`, `Removed`); the recursion is a function of the depth, up to `MaxDepth`:
`sanitize[n]` is for the values of depth n at most (`Json[n]`) and calls `sanitize[n - 1]` on the items and
fields of its argument. `sanitize_images`, `contains_image` and `remove_image_placeholders` are those of
`MaxDepth`. `HasImageData`, the reference for the check, looks for the data of an image wherever it may
be, and not for the types and keys that the code looks for. `WellFormed` is the environment, the form in
which MCP and the SDK give results: bare base64 is the content of an image or of a file, in an item of
one of the image types or under `image_url` or `file_data`; words are not, and those of a text item are its
`text` or `content`.

`RunLog` is the run and its log. The run makes items and sends events; the events are handled behind
the run (`queue`), so that the stream may raise with calls that have run and were not logged, or were
logged and have not run (`RunRaises`). `pending` and `reported` belong to `McpRunLogger`.

`ToolRecord` adds which of these calls are recorded: `RecordedCalls` and `DraftedCalls` are the lists of
`build_canonical_record` and of `build_memory_episode_draft`, with the pairing of calls and outputs, the tool
categories and the noise that is left out. Both are made when the stream ends or raises; a cancelled turn
records nothing. A list comprehension with a condition is `AtPlaces`: the elements at the places that the
condition allows, in their order.

`TurnRecord` adds the values: each of its actions is one of `ToolRecord` with what happens to the session in
the same stretch. `AddItems` is `ImageSanitizingSQLiteSession.add_items`; `ToolEvents` and `DraftEvents` are
what the record and the draft say of their calls. They are functions of the calls, as the items they are made
of do not change any more.

### VoiceCommands

The generator `command_stream` with its channel, and diffbot-audio, which speaks only to a
stream that is open. `Orchestrator`'s `Hear` is what this generator yields.

## Runs

Every run is listed in `PROJECT.json` with its properties.

| run | instance | what it shows |
|---|---|---|
| `input` | 2 calls of `speak.ask`, 2 texts, ticks of 30 s, sessions that break, `wait_for` as in 3.11 | no question is hidden, none is answered twice, an answer that was taken arrives, and arrives at the call if that still waits and its session lives; a waiting call's question does not time out; the close releases every question; every question ends |
| `orchestrator` | 2 commands and `/reset`, 2 questions, `wait_for` as in 3.12 | lines are used once, the busy policy, the order of the shutdown, refinement of `CommandTurns`; the end of the input ends the run, after the commands accepted before it |
| `orchestrator_reset` | 1 command and `/reset`, 1 question | divergence 1 below |
| `controller_episode` | 1 A2A call, 1 MCP call | divergence 2 below |
| `a2a_tasks` | 1 A2A task, 1 MCP call | one call in the runtime, refinement of `CommandService`, what the shutdown does to the episodes; what a task is told is what happened, and is told when it is over; every task and the shutdown end |
| `usage` | 2 MCP calls, 2 model requests of 0 or 1 tokens each way | a turn's summary is its own; the gauge is that of a call since the last reset; the converter is put back |
| `record` | 2 tool calls, in one response or two; 4 tools in 2 spellings, 2 forms of arguments, 7 of outputs | no image outlives the turn, the log says once how a call ended, what was answered is remembered and the noise is not |
| `window` | 3 tool calls in batches of up to 2, 2 commands, budget 4, lines and outputs of 1 or 5; both paths | the only frame shown is current, and it is shown; the budget is kept; nothing is orphaned without parallel calls |
| `window_orphan`, `window_empty` | 2 calls; 1 call with an output of 1 or 5 | divergences 3 and 4 below |
| `mcp_session` | a safe and an unsafe call, at once | unsafe tools are sent once, a safe one at most twice, nothing is leaked unless reconnections overlap, every call ends |
| `voice` | 4 events, one of them an error, 2 lost streams, a cancellation at any time | the commands come in order and once; a lost stream is opened again over one channel, or the producer is cancelled and leaves none open |

### Bounds

- `Text`, `Request`, `Call`, `ToolCall`, `CallId` and `Event` are small sets, and each member
  is used once. Two callers give every race of two questions: the second may be asked
  before the caller of the first has run its cleanup; that more callers change nothing is
  proved. Two commands and `/reset` give a queue with a command behind a command. An A2A task and
  an MCP call give a caller that holds the lock, one that is busy, one that is drained with its
  session manager and one that survives the shutdown; a task is told nothing of the others, and
  that more of them change nothing is proved.
- `MaxQueued` bounds the queue of commands before the end marker. In `Orchestrator` it is the
  number of lines and so bounds nothing.
- `CallTimeout = 3` and `AnswerTimeout = 4` are the 90 s and the 120 s of the code at a tick of
  30 s, the largest unit that both are multiples of; `ModelTimeout = {0, 1}` is no timeout, and one
  that would end the question under its call. The event loop and diffbot-mcp take no time
  themselves: `Tick` waits until what is due has been done.
- `MaxTokens = 4` and `ImageTokens = 2`, with lines and outputs of 1 and 5, put the cut at every place
  of a thread: within a batch, between batches, where the budget is exactly met, and at an item that exceeds it
  by itself, which is kept when it is a line and lost to the repair when it is an output. Calls, messages and the
  placeholders of frames have size 1. The outputs of `window_empty` have the same sizes; `window_orphan` needs none over the budget.
  (In the code an image is estimated at 1000 tokens and the budget is 32000 by default.)
- `MaxParallel` is the number of tool calls of one model response in `McpSession`; `MaxBatch` the
  same for `ContextWindow` and `TurnRecord`; `MaxCommands` the turns on one thread; `MaxStreams` how
  often the voice stream is lost; `MaxRequests` the model requests of the usage run, two being what
  an overlap needs.
- `MaxCalls = 2` in `TurnRecord` gives a batch of two and two batches of one. The values have each
  form that `sanitize.py` distinguishes, once at the top and once inside another value, with those
  of the repository's tests among them. The deepest has three levels of lists and dicts (a URL in a field of a
  field of a field), within `MaxDepth = 4`; that more of them change nothing is proved. The tools are one of each category, and one that the
  memory drops by its name.
- Symmetry is declared where the members of a set are interchangeable and the run checks no
  liveness: `usage` and the three runs of the window.
- No run checks for deadlock: in each of the models everything may have been done (the agent
  has stopped, every call has been made), and that what must happen does happen is what the
  liveness properties say.

### Fairness

- `SpokenQuestion` (for the coordinator) and `Orchestrator`: time passes, the event loop fires a
  timer that is due and runs a coroutine that can run, a turn ends and the runtime's `stop()`
  returns; diffbot-mcp answers a call whose elicitation it has a reply to. The operator need never
  say anything. On the command line nothing but the SDK's `max_turns` and the timeouts of its
  requests bounds a turn; that is the assumption behind "a turn ends".
- `RuntimeController`, under `TaskFairness` of `A2ATasks`: a command has a timer; a turn that is cancelled ends; clearing the
  session ends; diffbot-mcp answers a write, or the connection fails. Nothing in the agent bounds
  the last: the memory client sets no timeout for an answer.
- `McpSession`: a request ends by the session's timeout of 90 s, a connection by its own; the
  request lock is fair, so that a call that keeps waiting is served (strong fairness of `Send`,
  as the lock is taken and freed in between).
- `VoiceCommands`: the delay ends and what has arrived is read.
- `ModelRequests`, `TurnRecord` and `ContextWindow` state no fairness: nothing is claimed of them
  but safety.

### Where the code and its documentation differ

1. `src/README.md:163-164` says that `/reset` during a turn is ignored. When the turn has asked
   a question, `/reset` is the answer to it (`orchestrator_reset`).
2. `episode.py:54` (and `src/README.md:60-61`) says that an episode is written after each
   command. A command that times out writes none (`controller_episode`).
3. `context_window.py:109` says that no tool call or output is orphaned by the cut. With
   parallel calls an output may lose its call (`window_orphan`).
4. `context_window.py:108` says that at least one item is kept. A last output that is larger
   than the budget by itself (in the run, 5 against 4) is kept alone by the cut and dropped by the repair
   (`window_empty`).

## Proofs

TLAPS checks every theorem for all values of the constants, under the assumptions that the
modules name (`ConstantsAssumption`, `TimesAssumption`, `ResetAssumption`, `ControllerAssumption`,
`UsageAssumption`, `McpAssumption`, `VoiceAssumption`, `WindowAssumption`, `RunAssumption`, `NameAssumption`,
`DepthAssumption` and `RecordAssumption`: markers are not texts, bounds and sizes are natural numbers, the reset
lines are lines, the A2A calls are calls, the safe calls are calls, the names that `sanitize.py` writes are
names). The last is the one that says something of the environment: the outputs of tools are `WellFormed`, and a
model that passes an image to a tool passes a data URL. An output with bare base64 in an unmarked string would
be kept by the code as it is.

- **OperatorInputProofs.** The inductive invariant joins the types with the facts that tie the
  three places where a question is recorded: its future, the caller's program counter, and
  `pendingAnswer`. `PendingIsTracked` alone is not inductive: that a finished question may not
  clear the place of another needs to know which futures are done. From it follow
  `ClosedReleasesAll`, `SentinelLast`, and, as an action property, `FuturesResolveOnce`.
  `AnswersDelivered` is proved under `~EagerCancel`, with `OpenIsWaiting`: a line is given to a
  question whose caller is still suspended.
- **OrchestratorProofs.** First, every step of the orchestrator is a step of the coordinator or
  leaves its variables alone (the lemma `OrchestratorUsesCoordinator`), so that what is proved of the
  coordinator carries over (`OrchestratorKeepsQuestions`). Then `TurnFlag`, `BusyLinesNeverRun` and `NothingOpenAtStop`
  from an invariant that ties `loop`, `producer` and `closed` together. `EachLineUsedOnce` is about a
  cardinality; `LinesInv` says the same without one, as disjointness and injectivity of the queue,
  the history of turns, the answers and the ignored lines, and needs that an open question has no
  answer yet (`UnansweredIsBlank`), or the close would lose one.
  `OrchestratorServesInTurn` is the refinement: the initial state maps to the initial state of
  `CommandTurns`, and each step to a step or a stutter. Its heart is a set of lemmas on `Lines(q)`,
  the queue without its end marker.
- **SpokenQuestionProofs.** Every step is one of the coordinator or leaves it alone, from which
  `SpokenQuestionsTracked` follows. `SpokenInv` puts
  the clocks in order: the question of a call that waits was asked after the call was sent, so that it
  has waited no longer (`waited <= age`), and it waits for the default time. With
  `CallTimeout < AnswerTimeout`, the 90 s and 120 s of the code, `QuestionOutlastsCall` follows.
  `TimelyAnswerArrives` is proved under `~EagerCancel`, from the fact that the clock stands still
  between an answer and the end of its call, and that only the callbacks of a broken session are
  cancelled, whose calls wait no longer.
- **RuntimeControllerProofs.** The invariant of the lock (`OneCallInRuntime`) is inductive with
  the types; the episodes need that the writes of before the shutdown are in the gather's
  snapshot as long as the shutdown waits for it.
  `ControllerServesCommands` is the refinement of `CommandService`. It needs
  `OneCallInRuntime`, for the ends; that there is a session only while the stage is "up", for the
  beginnings; and that a call has no result before it returns, so that a call is waiting when it
  arrives.
  The *tasks of A2A clients*: every step is a step of the controller or leaves it alone. On top,
  `TaskInv` says for each place of `execute()` how far its command is (`CommandByPlace`) and what
  the controller has noted of it (`CallNoted`); `ToldTheOutcome` and `EndedTaskIsOutOfRuntime` follow.
  The *model requests*: again every step is one of the controller. `SummaryIsOwn` follows from
  `RunningCounted`, which says that the counters are a running turn's snapshot plus what it has used:
  it is inductive only because the controller runs one turn at a time and resets under the same
  lock. `ConverterScoped` needs that the one request being sent has saved the SDK's converter.
- **McpSessionProofs.** `UnsafeSentOnce` counts what each call has sent by the place where the call
  is; `NothingLeaked` ties `alive`, `owned` and the sessions being opened together while no
  reconnections overlap.
- **ContextWindowProofs.** The largest proof, as the filter is made of loops over a thread of any
  length. They are written as recursive functions over `0..Len(items)`, and what they compute is proved by
  induction: `SetInduction` says that a set with 0 that has n + 1 whenever it has n is all of the
  naturals, from the least number of its complement; `Recursion` says, by the same means, that the function
  which such a definition names exists, so that its equation may be used. `TotalsFacts` (the sum of a
  prefix), `TokensOfSuffix` (the tokens of a suffix are a difference of such sums) and
  `UpdateDescribes` (what the visual state says after n items) are proved in this way.
  The inductive invariant is `WindowInv`, which TLC has checked on the instance of `window`. `ThreadInv`
  says what a thread of the SDK is: ids are of one call and one output, an output comes after its
  call, pairs come in the order of the calls, no compaction marker stands inside a pair, and frames are in outputs of
  the current turn. `VisualInv` says that the visual state describes the prefix of the thread that it has
  observed, with the last frame after which nothing has moved. `ShownInv` says that what was shown is what
  the filter makes of the thread as it is. `ImageIsCurrent`, `CurrentFrameShown` and `BudgetKept` say less than
  that and are not inductive: they speak of the request that was sent, and the next one is made from the
  visual state that the whole turn has left. `NoOrphansUnlessParallel` rests on `CutFacts`, by which the window is the preamble and a
  suffix of the thread, and on `RepairDropsOutputs`, by which the repair drops leading outputs only.
- **TurnRecordProofs.** The *log*: `RunInv` says where a call can be: each event is in the queue once, the call before
  its output (`Orderly`); of what the queue, the batch or `pending` holds nothing is reported, and a call that has
  begun is running, has its output in the queue, or is reported (`Progress`). The calls that have begun are
  counted by the items, so that the step of the tools needs the cardinality of a disjoint union.
  By the lemma `RecordIsRun` every step of `ToolRecord` is one of the run, so that `RunInv` holds there too.
  The *record*: `RecordInv` adds what the record needs of the items: the calls are in them in the order of their ids
  (`CallsAscend`), an output is there with its call, and an answer that the log has, or has yet to handle, is
  there as an output (`Paired`); and when the turn has ended the record is that of these items
  (`RecordOfItems`). `AnsweredIsRemembered` is not inductive without them: it speaks of the end alone.
  `PlacesInOrder` says what `AtPlaces` does: the place with k - 1 others before it is there for every k, because
  the ranks are as many as the places and no two places have the same. `KeptIsMemorable` says that what the filters
  of the record and of the draft leave is what the categories and the names of `AnsweredIsRemembered` say.
  The *sanitizer*: that the functions of the depth exist, and so satisfy their equations, is shown for all of them
  at once, row by row (`Rows`, `RowsExist`); what they do is shown by `DepthInduction`, from what they do with each
  kind of value (`SanitizedByKind`, `RemovedByKind`). `SanitizedParts` says that sanitizing leaves no data URL and
  adds nothing but placeholders, `RemovedParts` that the second pass leaves no placeholder, `NoBase64Left` that bare
  base64 goes with what it stands in. `WordsOutlast` is the one about what must stay: words come through both
  passes and a third at any depth, since a dict or list with words in it is never `Empty`, nor is a text item that
  has its text. `SdkFormIsNoFrame` says that `contains_image` finds none in a sanitized result of the SDK.
  The *turn*: by the lemma `TurnIsRecord` its steps are steps of `ToolRecord`, so that `ReportedOnce` and
  `AnsweredIsRemembered` hold in it (`TurnReportedAndRemembered`). `TurnInv` adds that the session is the sanitized items (`SessionOfItems`, which
  TLC has checked on the instance of `record`), for which sanitizing response by response is as good as at once
  (`AddItemsConcat`). `NoImageKept` is not inductive without it, as it does not say of which item a stored one was
  made; with `TurnInv` it is a fact about the values alone, `ArgumentFacts` for the calls and `OutputFacts` for the outputs, whose previews pass
  through `sanitize_images` three times before they are remembered.
- **VoiceCommandsProofs.** What has arrived is the end of what was said (`ArrivedIsLatest`), and every
  command that was yielded has a place before it (`Places`), in increasing order; an event that is
  read takes the next place, and events that are lost leave theirs empty.

Model-checked only: all liveness (`AcceptedIsBegun`, `EveryCallEnds`, `EveryQuestionEnds`, `EveryTaskEnds`,
`InputEndEndsRun`, `LostStreamIsReopened`, `ShutdownEnds`), which is out of reach of the prover, as is ENABLED.
Every invariant, every action property and every refinement that a run checks is proved. `WritesHaveConnection` is
proved only. Type correctness is proved, within the invariants, for every module.

## Not modelled

- `config.py` (parsing and validation without state), `main.py` (arguments and wiring),
  `logging_utils.py` (formatting) and the generated `proto/` have no behaviour of their own to check.
- The settings of the agent that `start()` builds, the texts of prompts, events and summaries, the limits
  on lengths, timestamps, prices and the console's terminal.
- A cancellation during `start()` (`openai_agents_runtime.py:166`): the exit stack that `start()` has
  filled is not closed then. It is listed as a hazard; nothing runs after it in either wiring, so
  that there is no later state of the agent to state a property about.
- The isolated session by which the SDK of MCP may serve a shared transport.
- The Agents SDK, the A2A SDK, the MCP SDK, gRPC and the services they reach are the environment: each
  is modelled by what its callers in the agent rely on, and marked external. In particular the SDK is
  taken to cancel a run whose stream is left, so that a turn that was given up calls no model and
  no tool afterwards, though its last request may take a while to unwind.
- A few texts of the documentation describe what is not in the code any more (`full_tool_rounds`, the
  status note appended to each request); there is nothing to model.

## Plan

What is left: the composition of `Orchestrator` with `AgentRuntime`, instead of a turn that is seen from outside:
the shutdown of the command line over the writes of the last turns.
