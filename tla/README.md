# Formal models of the OpenHands core

This directory holds TLA+ models of the core of OpenHands
(`OpenHands/openhands/`): the event stream, the agent controller with the
runtime and the memory that answer it, the limits on iterations and budget, the
history of a session and what its condensers and its stuck detector make of it,
the agent sessions and the manager that starts and closes them, the ports of the
docker sandboxes, and the file store that copies its changes to a webhook.  TLC
checks them on small instances; TLAPS proves most of their safety properties for all
values of the constants.  Paths below are relative to `src/OpenHands/openhands/`
unless they start with another directory of the repository.

Checking, in this directory:

    tlc -config EventStream_safety.cfg MCEventStream.tla      # any X_*.cfg with MCX.tla, or X.tla
    tlapm EventStreamProofs.tla                               # any *Proofs.tla

## 1. Inventory

| Part | State | Operations | Interacts through |
|---|---|---|---|
| Event stream (`events/stream.py`, `event_store.py`) | event files, cache pages, `_cur_id`, `_lock`, `_write_page_cache`, `_queue`, subscribers and their pools, `_stop_flag` | `add_event`, `subscribe`, `unsubscribe`, `search_events`, `close`, dispatcher thread | every other part publishes and hears events here |
| Agent controller (`controller/agent_controller.py`) | `state.agent_state`, `_pending_action`, `delegate` | `on_event`, `should_step`, `_step`, `set_agent_state_to`, `_reset`, `_react_to_exception`, `start_delegate`, `end_delegate` | its pool thread of the stream; the session's loop sets its state |
| Control flags (`controller/state/control_flags.py`) | current and maximal value, `_hit_limit` | `step`, `reached_limit`, `increase_limit` | shared by a root controller and its delegate |
| State and its tracker (`controller/state/`) | `State`: history, `start_id`, `end_id`, flags, `conversation_stats`, view cache | `set_initial_state`, `_init_history`, `run_control_flags`, `sync_budget_flag_with_metrics`, `save_to_session` | file store; called on two threads |
| View and condensers (`memory/view.py`, `memory/condenser/`) | none of their own; a condensation is an event | `View.from_events`, `condensed_history` | the agent asks for a view before each call of the LLM |
| Stuck detector (`controller/stuck.py`) | the last analysis | `is_stuck` | `_step`; loop recovery of the controller |
| Runtime events (`runtime/base.py`) | none of its own | `on_event`, `_handle_action`, `run_action` | actions in, observations or error statuses out |
| Memory (`memory/memory.py`) | microagents, `loop` | `_on_event`, `set_runtime_status` | recalls in, recall or null observations out |
| Web session (`server/session/session.py`) | its loop | `dispatch`, `queue_status_message`, `_send_status_message` | clients, controller |
| Confirmation buttons (`OpenHands/frontend/.../confirmation-buttons.tsx`) | last chat entry, announced state | confirm, reject | publishes a state change |
| Agent session (`server/session/agent_session.py`) | `_starting`, `_closed`, controller, runtime, memory, stream | `start`, `close` | conversation manager |
| Standalone conversation manager (`server/conversation_manager/`) | loops per conversation, connections, conversations in use and detached ones | join, send, disconnect, `attach_to_conversation`, `detach_from_conversation`, `_cleanup_stale`, `close_session`, limit on conversations | agent sessions, clients, requests |
| Server conversation (`server/session/conversation.py`) | runtime and stream, its own or borrowed | `connect`, `disconnect` | requests over the manager |
| Port lock (`runtime/utils/port_lock.py`) | lock files | acquire, release, find a port | several processes |
| Docker runtime (`runtime/impl/docker/docker_runtime.py`) | its container and ports | `connect`, `init_container`, `close` | port lock, docker |
| Batched webhook store (`storage/batched_web_hook.py`) | batch, size, timer | write, delete, flush, send with retries | a remote service |
| Replay, nested event store, docker nested manager | small | cursor over events, HTTP paging, forwarding | controller, servers |
| Bash session and other runtimes, LLM clients, agents, enterprise server, frontend, SWE-bench harness, evaluation scripts | outside the core | | |

What is hard in it:

* Concurrency.  `add_event` holds its lock only to take an id; files, cache page
  and queue are written outside.  The dispatcher copies the subscriber ids and
  looks callbacks and pools up later.  The controller runs on its pool thread,
  while an error status sets its state on the session's loop.  Sessions start
  and close in tasks of one loop that lose it at every `await`.
* Order.  A confirmation, a stop or a message is an event like any other: it is
  handled after whatever was queued before, in a state that may have changed.
  Batches of changes are sent by a pool and may overtake each other.
* Failure.  A process dies between two of the writes of one `add_event`, or with a
  port's lock; the runtime or the memory raises and answers nothing; a save fails
  half way; a request to the webhook is processed and its answer is lost.
* Boundaries.  Limits are compared, extended and shared between two controllers;
  a condenser cuts a view by positions and by ids.
* Restart.  The history is computed anew from `start_id`, `end_id` and pairs of
  delegate actions and observations.

`PROJECT.json` lists these hazards one by one with their lines and the
properties that watch them.

## 2. Modules

| Module | Models | Composes |
|---|---|---|
| `EventLog` | abstract: a log with unique ids and subscribers that read it in order | implemented by `EventStream` |
| `EventStream` | the stream and the store | |
| `AgentController` | the root controller with runtime, memory, session loop, user and client | the stream appears as what `EventLog` promises |
| `ControlFlags` | both flags, a root and its delegate, saves on two threads | |
| `HistoryInit` | `_init_history` as functions on sequences, beside it what a live root hears, and when | |
| `AgentView` | `View.from_events` and the condensers, as functions | |
| `StuckDetector` | the stuck detector, as functions | extends `AgentView` |
| `AgentHistory` | a session's history: stream, controller, agent, condensations, loop recovery, restart | extends `StuckDetector` |
| `AgentSession` | `start` and `close` of each session | |
| `ConversationManager` | the standalone manager, clients, requests | extends `AgentSession` |
| `PortLock` | lock files, `flock`, release | |
| `SandboxPorts` | the docker runtime's search for a port, its container | extends `PortLock` |
| `BatchedWebHook` | the webhook store, the pool and the service | |
| `MC*` | for TLC, where a configuration needs more than numbers: symmetry sets, sequences | |
| `*Proofs` | theorems | |

Operators named `Name_Variant` and marked *mutant* are deliberately broken forms
of the operator after them.  No specification uses them; each documents a bug the
named property detects when the variant takes the operator's place.

### EventStream and EventLog

`AddEvent_*` are the steps of `add_event`: enter the lock and read
`cur_id`; advance it and append to the write page; open the file; write it;
open the page when it is full, and write it; put the event on the queue.  Opening and
writing are separate since a local file store truncates first; a crash in between
leaves a torn file, an event with call number 0, or an empty page.  `pages` keeps the
write pages by reference: a producer holds an index, so a page that another producer
fills meanwhile is stored by both, as in the code, and is empty again in the midst of
the second time; when their writes overlap it may be unreadable until the last of them
is done.  `AddEvent_Fail` is a `file_store.write` that raises, before or after the
truncation, for the event or for the page: the event keeps its id and its place on the
page, is not queued, and goes to the history variable `lost`.  `ReadCurId_*` is the lazy property
read outside the lock.  `Subscribe_*` and `CleanUp_*` make each assignment to
the two dictionaries a step: `sub[s]` runs through none, adding (callback
without pool), on, draining (shutdown requested) or deaf (its loop has been
closed under it), poolgone, off.  `Dispatch_*` is the dispatcher thread, with
state `dead` for an exception.  `Close_*` is `close`.  `Crash` is the death of
the process followed by `__init__` over the same files.  `log`, `from` and `seen`
are history variables, cleared by a crash.

`EventLog` is what the users of the stream rely on: `Publish`, `Join`, `Handle`,
`Leave`, `Restart`.  The refinement maps a put to `Publish` and a callback that
handles its event to `Handle`; a subscriber is "in" from its registration until
its pool has drained, or its loop was closed under it.

Simplifications: secrets and (de)serialisation leave ids alone, do not raise and are
left out; a file that is not completely written counts as empty;
a subscriber has one callback; nobody subscribes while `close` walks over its
copy of the subscriber ids; one process life at a time.

### AgentController

Three event queues stand for the pools of the stream: `inC`, `inR` and `inM` (the
last two hold only what the runtime and the memory act on).  `todo` is what the
controller's thread and the session's loop still have to do, one entry for
each point where the other thread can interleave.  Handlers map to actions by
name; `set_agent_state_to` is `SetState` (state, limits, the observation `_reset`
posts), `ClearPending` (the rest of `_reset`), `Reissue` (a confirmed or rejected
action is published again under a new id), `Announce`/`PublishState`, and
`PickleState`/`WriteState` (`save_state`).  `_step` is `StepBegin` up to the LLM
call, one `LLM*` action for each kind of answer, and `EmitAction`.

An event has a kind, an id, a cause, a tool call (0 for none) and one argument.
Contents are left out.  Two details of asyncio matter and were taken from the
code as it runs: the task that `step()` creates runs to its end before the pool
thread takes the next event, since nothing in `_step` suspends; and the status the
memory schedules on its own loop runs only when that loop is run for the next
event (`late`, `wake`, `MemoryWakes`).

An LLM call has `Retries` attempts (`LLMRetries`).  tenacity calls `before_sleep`
only when another attempt follows, so the exception of the last one carries no
number (`CarriesAttempt`), and a `RateLimitError` ends in the state RATE_LIMITED,
never in the ERROR that is meant for it.

What a client sends and what an error status does both happen on the session's
loop, one after the other (`LoopIsFree`).  `forsaken` and `dropped` remember two
things that go wrong, a recall the memory failed on and an error status that
cleared the recall of a message; properties that are false after them say so.

Not modelled: PAUSED (the loop detection of the command line sets it; the web
client would send it for a message that begins with "Agent reached maximum", but
the text it gets begins with "RuntimeError: "), replay, `close`.  Loop recovery
and what a condensation does to the view are in `AgentHistory`, delegates in `ControlFlags` and
`HistoryInit`.  An error status is modelled with the session's loop present, as
in the server.

### ControlFlags

`Step` is `sync_budget_flag_with_metrics`, `run_control_flags` and the begin of
the LLM call, `Answers` its end; `Resume` a message of the user with
`maybe_increase_control_flags_limits`; `EndDelegate` and `Forwarded` the first
half of `on_event`.  `BeginSave`, `EndSave` and `FailSave` are
`save_to_session`, which sets `conversation_stats` to `None`, pickles and writes,
and restores the reference (not when the write raises).  A delegation carries a task,
as CodeAct's does, so that `StartDelegate` sets the delegate running and saves it
(`agent_controller.py:514-519`).

`Forwarded` follows the code in that the text it looks for after a budget error
(`RuntimeError:Agent ...`) differs from the one raised (`RuntimeError: Agent ...`)
and so never matches.

### HistoryInit

Events are numbers, their kinds are kept, dropped, delegate (action) and result.
`Stored` is the filtered search, `DelegateRanges` the stack of unmatched delegate
actions, `Sorted` puts the ranges in the order of these, `Filtered` is the loop over them, `NewStart` the `start_id` that
remains after that loop, in which the variable is assigned again.
An event gets its id when it is published (`Log`) and waits in `unheard`; the
controller hears it later, after all that was put on the queue before, which need
not be all with a smaller id (`Heard`, `overtaken`).  What it then does follows
`on_event`: `HearOwn`, `StartDelegate`, `Forward` to an active delegate, or
`EndDelegate`, which loses the event and publishes the result.

`HistoryIsComplete` states what the docstring says without ranges and stacks, of the
events that were heard.  Live and restored history differ in two cases, which it
names.  An event that was published before the result of a delegation and is heard
after it (`late`: a message during the delegate's last step, or what closing it
publishes) is in the live history and not in the restored one.  And where events
are not heard in the order of their ids (`overtaken`), the live history is in the order of
hearing and an event may be the delegate's for one and the root's for the other; of
such a session nothing is claimed until it is restored.  Without either exception
TLC finds the property false.

Simplified: put and get are one step, so that of several unheard events any may come
first; an agent publishes a delegate action only when none is under way, and a
delegate delegates no further; a delegate may be finished after any event it heard.

### AgentView, StuckDetector and AgentHistory

`AgentView` has `View.from_events` (`ViewOf`, `Unhandled`) and the condensers:
`Window` with its essential events, its slicing and the removal of dangling
observations, `Summarize` and `Amortize` with head, tail and size, `Due` for when
each one acts, and `Condensed` for a pipeline of them.  A summary is abstracted to the set of events it was written
from, so that a property can ask whether anything got lost on the way from one
summary to the next.  `StuckDetector` has the five scenarios with the index at
which the loop begins.

In `AgentHistory` the controller hears the events of the stream (`log`) one by one and
appends them to `history`.  Ids are taken under the lock of `add_event` and the queue
is filled outside of it, so an event may be heard before an earlier one of another
producer, unless it answers that one (`MayOvertake`, `Producer`); `heard` is the
greatest id heard, `skipped` has the earlier ones that are still on their way, and
`overtaken` counts such hearings.  The `Hear*` actions are `_on_event` for
each kind of event, with the step that follows.  `Step` looks at the detector,
computes the view, or takes the one `state.view` keeps under the length of the
history (`CacheFor`), has it condensed (a `CondensationAction` is published
instead of an action), or asks the LLM, whose answers are a call, a message, and
an exceeded context window, upon which a condensation is requested.
`UserRecovers` is the choice a client is offered after a loop was found, and
`HearRecovery` what the controller does: options 1 and 2 cut the history at the
begin of the loop and set `end_id`, option 3 stops the agent.  `Crash` restores
the history from the stream up to the saved `end_id`.

Simplifications: put and get are one step, as in `HistoryInit`; one action per answer
of the LLM (what happens in between is
`AgentController`'s); finishing and delegation are left out; a restart is a crash;
`say` (a message that does not wait) is what other agents than CodeAct may
publish; the comparisons of IPython syntax errors are folded into `error`.  The
browser-output, attention and structured-summary condensers are left out, and so
is the prompt: `conversation_memory.py:93-97` inserts the first user message into
the list of the cached view itself, which happens at most once per list.
`attempt_loop_recovery` (`agent_controller.py:1110-1147`) has no caller.  A loop of
condensations can be in a view but never in a history the detector looks at.
`OnlyShortViewsFail` says when a condenser raises, after which every step does.  It
is so when the sizes leave nothing of the tail (`max_size // 2 = keep_first + 1`,
which the constructors accept: `events[-0:]` then is the whole view), and when the
context of the LLM is exceeded by a view of at most half of `max_size`, which has no
middle, and no window condenser comes first (`llm_summarizing_condenser.py:67, 153`).
`SummaryIsComplete` makes three exceptions.  One are events heard out of the order of
their ids (`overtaken`): a condensation forgets all ids from the smallest to the
greatest of its middle (`llm_summarizing_condenser.py:153-154`), and that may be an
event of the head or the tail, or one that is not heard yet, that no summary was
written from.  With one overtaking TLC finds that: a system message that is heard
after two later events is forgotten by the next condensation, and so is a user message
that was still on its way.  `TaskIsKept` makes the same exception.  Another is a loop
that was cut out, with which condensations may be cut that a later summary relies on.
The third is a window condensation that forgets one of the first `keep_first` events
(`PrefixStays`): if a size condensation is on its way meanwhile, and the next one is decided on before it
is heard, an event that the first one forgot has moved up into the prefix, the second
one does not summarize it, and its summary replaces the first one's.  That takes a
`keep_first` of three and a log of 76 events.

### AgentSession and ConversationManager

A session is a number; its coroutines suspend where the code has an `await` that
can suspend, and each continuation is an action.  `stage` is where `start` is (not
begun, connecting the runtime and setting up memory and controller, ended), `closing`
where the session's `close` is (sending its last status, waiting for a start under
way, closing the event stream).  What `start` and the clients publish is `unheard`
until a pool thread of the stream hears it (`Hear`), and only then does the agent run.
Closing the stream waits for those threads and blocks the loop (`Blocked`): then only
`Hear`, `AgentStops` and the end of the close are possible.  It ends with `Release`, or
with `Release_Fails` when the state cannot be saved, in which case the exception leaves
`close` before controller and runtime are closed, and no later call closes them.
`Close_GiveUp` is the comparison in `agent_session.py:234`, which is true at once for
a session that was started less than 90 seconds ago.  `Start_Controller` still
creates the controller of a session that was closed meanwhile, as the code does;
`gaveUp` remembers it.

The manager's `Join_Starts` registers a session at once; at the limit
`Join_Limit` suspends with the conversations it is to close first (`Join_Evict`,
`Join_StartsAfterwards`), or ends with the exception of one that could not be closed
(`Join_Fails`).  `closer[o]` is the task of whoever runs
`_close_session` (`CloseSession_*`), one state per `await`.  `Cleanup_*` is the
periodic task with its timeout (`async_utils.py:74-77` cancels the closing tasks
where they are: `closing = "cut"`), `StopRequest` a stop or delete request,
`Attach_*` and `Detach` the requests, with the lock they hold while connecting.
`talk` are the ServerConversations, with the stream of a session or their own.
`raced` remembers the conversations that were joined while a join of them was
suspended at the limit.

Simplifications: `close_delay` is positive; socket.io delivers, and what is
published between the replay of old events to a client and its entering the room
(`listen_socket.py:97-124`) is not modelled; a client joining between the closing of a
session and the deletion of its metadata, neither.  Sandboxes are not shared: that closing the
runtime of an old session may stop the container a new session of the same
conversation has reused is not modelled, and neither is the stale `cur_id` of a
conversation that attached with its own stream before a session was started
(`standalone_conversation_manager.py:109-115`).

### PortLock and SandboxPorts

`PortLock` has names, inodes, locks on inodes and open files, as `flock` works on
them: release unlocks and closes (`Unlock`) and then removes the name
(`Unlink`), and a file that is open outlives its name.  `SandboxPorts` is
`connect`: reuse the container of the conversation (`Attach`), or search a port
(`InitContainer`, `NextAttempt`, `Acquired` or `TimedOut`, the check by binding,
`DockerUses` or `PortFound`, and `Fallback` without a lock), start the container
(`Started`, `StartFails`), give the lock back on failure, and `Close`, which stops
the container and releases.  A death of the process drops its locks and leaves the
container.  Docker may refuse a request: the list of containers raises with a port's
lock in hand (`CheckFails`), the container does not run (`RunFails`), or `close` raises
before the locks are released (`RunFails`, `StopFails`).  The descriptor then stays open
and locked in a `PortLock` nobody uses, kept in `lost` until the process dies.

Simplifications: one of the four port ranges is modelled, the search in the
others is the same; `keep_runtime_alive` and `attach_to_existing` are off; only the
branch with `fcntl`; `cleanup_stale_locks` has no caller and is left out; a second
`close` of a runtime whose first one raised, which may release its locks after all, is
left out.  As in the code, a container that is started again takes no lock.

### BatchedWebHook

A change is a number and a size.  `ChangeFile` is the wrapped store's write or
delete, `QueueUpdate_*` the update of the batch under the lock, with size, timer
and, when it is full, submission; `TimerFires`
and `TimerEnqueues` are the two ends of a timer that can no longer be cancelled once it
has run out, `Send(i)` is one attempt of a pool thread, and `Flush_*` the call that sends its batch itself and keeps the lock meanwhile.  An attempt fails before
or after the service has processed the request; the third failure gives the batch
up.  The set `excused` records the paths for which the code promises nothing: changed by
two threads at once, in two batches at once, or in a batch that was given up.

## 3. Runs

Bounds are constants named `Max...` (and `Limit`, `Iterations`, `Budget` for the
configured limits).  Where a configuration has `CHECK_DEADLOCK FALSE`, every
behaviour ends when its bounded inputs are used up, and a user may stay silent;
`SandboxPorts_alloc` is checked for deadlock as well, since a runtime that is
closed can always be connected again.

### Runs that pass

| Configuration | Properties | Bounds | Distinct states |
|---|---|---|---|
| `EventStream_safety` | `TypeOK`, `UniqueIds`, `QueuedIsReadable`, `NoGapAtRest`, `HandledInQueueOrder`, `FilesImmutable`, `ImplementsEventLog` | 3 producers, 1 subscriber, 3 events, cache pages of 2, 1 failing write, 1 crash | 317,674 |
| `EventStream_liveness` | `SilentAfterClose`, `EventuallyHandled`, `CloseReturns` | 1 producer, a reader of `cur_id`, 2 subscribers, 2 events | 196,501 |
| `AgentController_stop` | `PendingIsAnswered`, `NeverIdleWhileRunning`, `StopHolds` | 2 messages, 1 stop, 1 tool call, 1 failure | 5,509,094 |
| `AgentController_fail` | `TypeOK`, `ExecutedAsApproved`, `RunsEnd` | 2 tool calls, 1 message, 1 stop, 1 failure, 2 attempts per LLM call | 52,450 |
| `ControlFlags_limits` | `TypeOK`, `CallsWithinLimit`, `ExtensionsAreEarned`, `BudgetHoldsUndisturbed` | 6 calls, 3 messages, 2 delegations, 2 error statuses, 1 failing save, headless and not | 296,722 |
| `HistoryInit_restore` | `HistoryIsComplete` | every log of 7 events and every order of hearing them, 1 restart | 1,809,145 |
| `AgentHistory_condense` | `SummaryIsComplete`, `TaskIsKept`, `ViewIsCurrentUnlessCut`, `CondensationShrinks`, `OnlyShortViewsFail` | `KeepFirst` 2, `MaxSize` 8, three pipelines with and without the window condenser, 2 messages, 3 LLM calls, 1 context overflow, 1 overtaking, 1 recovery, 1 crash | 511,656 |
| `ConversationManager_sessions` | `CloseReleases`, `IdleIsClosed`, `JoinReturns` | 2 conversations, 2 sessions, 2 clients, limit 1, 1 stop, no messages but the first ones | 545,577 |
| `ConversationManager_attach` | `UsedIsOpen`, `NeverRunsAfterClose` | 1 conversation, 2 sessions, 2 requests, 1 client, 2 `ServerConversation`s, 1 unheard message | 793,078 |
| `SandboxPorts_alloc` | `TypeOK`, `ExclusiveUntilRelease`, `NoLeakedLock`, `ConflictIsExplained`, `SearchEnds` | 2 runtimes, 2 ports, 4 inodes, 2 attempts, 1 fault (a death or a refused request) | 1,113,808 |
| `BatchedWebHook_sync` | `SizeIsRight`, `PendingIsScheduled`, `RemoteIsCurrent`, `Settles` | 2 writers, 2 paths, 3 changes, 1 flush, a pool of 2 | 467,544 |

What they show:

* `EventStream_safety`: whatever the order in which producers write files and
  pages, ids are unique, a queued event can be found by its id, a subscriber
  handles its part of the queue in order, and written events stay as they are.  The
  exception is named by `PageInDoubt`: a lookup of a queued event raises while another
  producer stores the same page once more, and for good when a failing write has left
  the page empty.  Only the ids of failed writes are missing (`NoGapAtRest`).
  Across a crash, the stream seen from the outside is the abstract log, restarted.
* `EventStream_liveness`: a queued event reaches a subscriber that stays, and
  `close` returns and leaves silence, also with a reader of `cur_id`.
* `AgentController_stop`, `AgentController_fail`: a pending action that blocks the
  agent is on its way to an answer, and nothing is at rest with the agent RUNNING,
  unless the memory has failed; a stop holds against late results; a call that asks
  for confirmation is executed only after the button of that very call was pressed,
  and at most once, unless an error status has cleared the recall of a message; a
  run ends, unless the memory has failed.
* `ControlFlags_limits`: the limit in force bounds the calls of root and delegate
  together, and is extended one portion at a time, only after it was reached and
  never in headless mode; the budget is checked before each call as long as no
  save on the other thread and no failing write comes between a state and its
  conversation stats (`BudgetHoldsUndisturbed`).
* `HistoryInit_restore`: the live history and the restored one are both what the
  root has heard, without its delegates' events, but for what a live root hears after
  the end of a delegation it belongs to, and as long as it hears in the order of the ids.
* `AgentHistory_condense`: through condensations of three kinds, an exceeded
  context, a loop that is cut out and a crash, and as long as events are heard in the
  order of their ids, the system prompt and the first user message stay in the view,
  and the one summary that is left covers everything that was forgotten for any (until
  a loop is cut out).  In any order a condenser raises only on a view that is too short
  for it, and one that acts because of the size leaves half of it; the agent decides
  on a view of the present history, as long as no loop was cut out of it.
* `ConversationManager_sessions`: a close that ended leaves nothing open but what a
  failing save leaves behind, or the controller of a start that was given up; a
  registered session that is idle and unconnected is closed, and a join at the limit
  returns, though joins, closes and the cleanup wait for each other.
* `ConversationManager_attach`: nobody's ServerConversation is disconnected under
  him, nothing is published for a session that is being closed, and what was published
  before, and may be heard while `close` waits for the stream, sets no agent running
  once `close` has ended.
* `SandboxPorts_alloc`: a port's lock excludes until the first release of that port,
  no lock stays behind after a failure or a death, except the ones that a refused
  request to docker loses, a search ends, and a sandbox
  with a locked port fails to start for two reasons only: another uses the port
  without a lock, or the port's lock had been released before.
* `BatchedWebHook_sync`: no interleaving of writes, timers, sends and flush leaves a
  change in a batch nobody sends, the size is right, all is sent or given up in the
  end, and then the service has the last change of every path that is not excused.

Why these bounds are enough to be of interest.  Two producers and three events
give a full page, a page shared by two producers, files written out of id order
and a queue out of id order; one crash leaves a gap, a torn file and a stale
page.  Two messages around a tool call give the overwritten pending action, the
stop before, during and after the execution, and the late second click on a
button.  A limit of two with six calls gives two extensions, one of them by a
delegate.  Nine events hold two finished delegations, events between and after
them, and one that is cut off by the restart.  A view of eight events with two kept
in front is condensed twice within four answers of the LLM, once because of its size and
once by request, and the loop of four equal failures fits between.  Two
conversations where one is allowed make each join close the other's session, while
the stop request and the cleanup close the same one; two sessions are those of two
conversations, or the closed and the new one of the same.  Two ports for two runtimes give each search a
second choice and then a conflict, four inodes two removals of each port's
file.  Three changes of two paths with a limit of two make a full batch and one
that waits for its timer; a pool of two lets them overtake each other.

### A run that ends in a violation

`AgentHistory_restart` checks `RestartKeepsMessages`, what a comment says of the
restoration (`agent_controller.py:1088`): "Always load from the event stream to
avoid losing history".  The `end_id` a loop recovery sets
(`agent_controller.py:1310`) is saved and never reset, and the next restart
restores the history up to it only: what was written after the recovery is
missing.  The finding in `PROJECT.json` has the details.

Further configurations record statements that are false of the code under some
interleaving, and are not part of the regular runs:

| Configuration | Property | What happens |
|---|---|---|
| `EventStream_lazy_id` | `FilesImmutable` | a reader stores a stale `cur_id` over the advanced one: two events share a file (`events/event_store.py:57`) |
| `EventStream_dispatcher` | `DispatcherSurvives` | during an unsubscribe the dispatcher finds a callback without pool (or a closed pool) and ends (`events/stream.py:271`) |
| `EventStream_stale_cache` | `FoundIsQueued` | an id taken before a crash is given again, and a page stored before the crash hides the new event (`events/stream.py:201`) |
| `AgentController_memory` | `FailureIsReported` | the memory's error status waits for an event that need not come; the agent stays RUNNING (`memory/memory.py:372`) |
| `AgentController_late_error` | `ErrorEndsRun` | the status of a failed recall sets ERROR on the session's loop just before or while the next message sets RUNNING; the agent stays RUNNING with nobody to wake it (`controller/agent_controller.py:673`) |
| `AgentController_approval` | `OnlyApprovedIsExecuted` | a failed recall's status clears a message's recall, the LLM is asked while a decision still waits in the queue, and the decision confirms the next call (`controller/agent_controller.py:689`) |
| `AgentController_rate_limit` | `RateLimitedRetries` | "All retries exhausted, set to ERROR" is never reached: the agent rests in RATE_LIMITED, "still retrying" (`controller/agent_controller.py:354-361`, `llm/retry_mixin.py:71`) |
| `AgentController_saved_state` | `SavedStateIsCurrent` | two threads save, the older pickle is written last (`controller/agent_controller.py:712`) |
| `AgentController_not_executed` | `NotExecutedIsTrue` | "has not been executed" is reported for an action that is executing (`controller/agent_controller.py:96`) |
| `AgentController_message` | `MessageIsRead` | the agent's own question, published first and handled last, leaves the message unread (`controller/agent_controller.py:405`) |
| `AgentController_results` | `CallsAreAnswered` | a message replaces the pending action, and the LLM is asked without its result (`controller/agent_controller.py:590`) |
| `ControlFlags_delegate` | `FinishedDelegateEnds` | a delegate that once hit the iteration limit is never ended (`controller/agent_controller.py:460`) |
| `ControlFlags_save_race` | `StatsComeBack` | of two overlapping saves, the later restores `None` (`controller/state/state.py:125`) |
| `ControlFlags_overspent` | `BudgetHolds` | during a save on the session's loop the budget flag is not synchronised (`controller/state/state_tracker.py:265`) |
| `HistoryInit_twice` | `HistoryIsComplete` | the second restore starts at the last delegation (`controller/state/state_tracker.py:195`) |
| `AgentHistory_stale_view` | `ViewIsCurrent` | after a loop was cut out, the history grows to the length of the cached view, and the agent sees the loop again (`controller/state/state.py:305`) |
| `ConversationManager_loops` | `OneLoopPerConversation` | two joins at the limit start two loops of one conversation (`standalone_conversation_manager.py:289`) |
| `ConversationManager_limit` | `LimitHolds` | two joins at the limit make room together and start one session each (`core/config/openhands_config.py:117`) |
| `ConversationManager_given_up` | `OnlyLongStartsAreGivenUp` | a session closed within its first 90 seconds is closed before its start has ended (`server/session/agent_session.py:236`) |
| `ConversationManager_stream` | `StreamStaysOpen` | a request that attached while the session was starting closes the session's stream (`standalone_conversation_manager.py:117`) |
| `SandboxPorts_exclusive` | `Exclusive` | after a release two runtimes hold the lock of one port, on two files of the same name (`docker_runtime.py:682-683`) |
| `BatchedWebHook_flush` | `FlushSendsAll` | `flush` returns while the pool still sends an earlier batch (`storage/batched_web_hook.py:265`) |

`PendingIsAnswered`, `NeverIdleWhileRunning` and `RunsEnd` except a run in which the
memory has failed on a recall (`forsaken`), and on purpose: such a recall is never
answered, its status may never be sent (`AgentController_memory`), and when it is
sent it may come too early (`AgentController_late_error`).  Failures of the runtime
and of the LLM are not excepted.  `ExecutedAsApproved` excepts the runs that
`AgentController_approval` finds (`dropped`).

### Fairness

Weak fairness everywhere, of threads and tasks that have begun something; each
one's next statement is executable or becomes so and stays so, so that weak
fairness is what the scheduler of the operating system, or the event loop, gives.

* `EventStream`: a producer inside `add_event`, the dispatcher loop, each pool, a
  subscription or unsubscription under way, and `close` once called.  Nobody is made
  to publish, subscribe or close.  The lock is released by a step that is fair itself.
* `AgentController`: the controller's thread, the session's loop, the runtime's
  thread and the memory's thread; that the runtime and the LLM answer at all rests
  on their own timeouts, which are not modelled.  `RunsEnd` is checked with one
  message: each further message may start a new run.
* `ConversationManager`: the loop runs what is ready (starts, closes, joins that
  suspended, closing tasks, requests that connect), the cleanup comes round, a
  runtime connects or fails.  Nobody has to join, send, attach or stop.
* `SandboxPorts`: a runtime that searches or releases goes on; a held lock need not
  come free, since a search waits for it only a bounded time.  Nobody has to
  connect or to close.
* `BatchedWebHook`: a writer between the file and the batch, timers, each pool
  thread and a flush under way.  Nobody has to write or to flush.

`ControlFlags`, `HistoryInit` and `AgentHistory` have safety properties only.

## 4. Proofs

### EventStreamProofs

For any number of producers, subscribers, events and crashes and any page size
(`ConstantsAssumption`).  Three theorems also assume `NoReaders`, that nobody reads
`cur_id` outside the lock; without it they are false, as `EventStream_lazy_id` shows.

* `TypeCorrect`: `Spec => []TypeOK`.  `TypeOK` needs strengthening by what the
  program counters say about `page` and `cur` (`TypeInv`).
* `IdsAreUnique` (`NoReaders`): `Spec => []UniqueIds`.
* `FilesAreImmutable` (`NoReaders`): `Spec => FilesImmutable`.
* `HandledInOrder`: `Spec => []HandledInQueueOrder`.
* `ImplementsLog` (`NoReaders`): `Spec => ImplementsEventLog`, the refinement.
* `SilenceAfterClose`: `Spec => SilentAfterClose`.

The second and third follow from the inductive invariant `IInv`: a producer at "locked"
holds the lock and has the id `curId`, which is known (`LockInv`); every id given
in this life, in a log, in flight or on disk, is below the next one
(`IdsBelow`); a producer that is about to write has an id whose file, if there is
one, is its own torn one (`OwnFile`); and the ids are unique (`UniqueIds`).
`UniqueIds` alone is not inductive, since nothing in it bounds the next id; the
crash needs `IdsBelow` because the next life computes its first id from files only.

The next two rest on `DeliveryInv`: the queue is the end of the log
(`QueueIsSuffix`); the dispatcher at work holds the last event taken
(`DispatchState`); and for each subscriber what was handled, and then what its pool
holds, are consecutive events of the log from where it joined, which reach up to
the last event taken, or to the one before it while the dispatcher has still to
visit the subscriber (`InOrder`).  The last clause is what makes a submission
continue the sequence; it holds only while the subscriber is registered, so a
dispatcher that died or stopped does no harm to order.  In the refinement, a put
is a `Publish` because of `UniqueIds`, and a callback a `Handle` because of
`InOrder`.  For the last one, all pools are empty once `close` has returned
(`PoolsEmpty`): each was emptied before it was shut down, and the dispatcher, which
had stopped before (`DispatchState`), fills none.

Two theorems are about what is on disk until the first crash, for any cache size,
under `NoReaders`:

* `QueuedEventsAreReadable`: `Spec => []QueuedIsReadable`.
* `RestHasNoGap`: `Spec => []NoGapAtRest`.

Both follow from `StoreInv`, inductive together with `TypeInv` and `IInv` above.
The first life starts without files, so its first id is 0 and the place of an event
fixes its id: the `i`-th event of the `k`-th list bound to `_write_page_cache` has
the id `Slot(k, i) = CacheSize * (k - 1) + (i - 1)`, and `curId` is the id of the
first free place (`PagesInv`).  A stored page is a copy of one full list under the
id of its first event, whichever producer stored it, and empty only while a producer
is storing that list, or one of its events was lost (`CacheInv`, `InDoubt`); an event
is in its producer's list from `Advance` on and in its file from `WriteFile` on
(`EventsInv`); and an id that has been passed has a complete file or a producer about
to write it, or was lost (`GapInv`).  `EventsInv` needs `UniqueIds`: another producer's write must not
replace the file.  A lookup then finds the event because the page start of
`Slot(k, i)` is `Slot(k, 1)` (`SlotFacts`) and no two lists start at the same id
(`SlotInjective`).  After a crash a cached page may outlive the ids it copied, and
the lookup finds another event, as `EventStream_stale_cache` shows.

### AgentControllerProofs

For any numbers of tool calls, messages, stops, failures and attempts of an LLM call
and any iteration limit (`ConstantsAssumption`).  The first part proves

* `TypeCorrect`: `Spec => []TypeOK`.  `Types` adds what the operations of a thread
  refer to: an operation on a state has one, what is emitted is an action, and what
  the controller has still to do after its present operation never calls the LLM and
  never makes the agent run (`Later`).  The session's loop only reports errors.
* `StopIsKept`: `Spec => []StopHolds`.  `IInv` adds `HaltedIsQuiet`: since the stop was
  handled it is about to take effect, or the agent does not run, nothing at hand
  makes it run, and no action is pending whose late answer would, by the way of
  USER_CONFIRMED.  That rests on `StoppedIsClear` (a stop clears the pending action
  first of all, so that even a stop of a stopped agent leaves none) and on
  `AskingIsNotStopped` (only the controller's own thread stops the agent, so that a
  step that has begun is not overtaken).

The second part proves

* `AnswersCome`: `Spec => []PendingIsAnswered`.
* `NeverIdle`: `Spec => []NeverIdleWhileRunning`.

Both properties speak of moments at which the threads are at rest, and neither is
inductive.  `LiveInv` says of every moment what they say of rest: a pending recall
is with the memory, answered or given up (`RecallIsAlive`); a pending tool call of a
RUNNING agent is about to be published, or does not await a confirmation and is with
the runtime, answered, or overtaken by an error (`RunIsAlive`); and if nothing is
pending, some operation, event or error on the way leads to a step or out of RUNNING
(`RunGoesOn`).  The interplay of the two threads is in `WorkFits`: the session's loop
may set ERROR and clear the pending action between any two operations of the
controller's thread, and what the latter was about to do still fits.  `PendingIsKnown`
says that the runtime has the pending action as it is (a published-again one has a
new id), and `NullsAnswer` that null observations come from the memory only; a null
observation without a cause would end no waiting and lead to no step.

The third part proves the action property

* `ApprovalHolds`: `Spec => ExecutedAsApproved`.

A decision does not name the call it is for: it is published, waits in the
controller's inbox, sets USER_CONFIRMED, and `set_agent_state_to` publishes again
whatever is pending by then.  So the proof follows the decision.  `ApprovalInv` says
that a client shows buttons only for what the agent waits for (`ShownIsPending`), and
shows none until the last decision has been carried out (`OneDecision`); meanwhile the
LLM is neither asked nor about to publish (`GuardedIsQuiet`), so that a decision
finds no other call pending than the one it was made for (`DecidedIsPending`).  What
could make the agent ask the LLM before a queued decision is a message of the user.
Its recall replaces the pending call, and is answered only after the decision has
been handled, because the answer comes later in the same inbox
(`QueuedWaitsForRecall`, `RecallIsLater`).  An error status that clears the recall
ends that argument, whence `dropped` in the property, and the configuration
`AgentController_approval` shows that it must be there.  That no call is executed
twice is a matter of copies: a call that was not made, or is held back, has no
executable copy with the runtime (`HeldIsFresh`), an executable copy is alone and
belongs to an approved call or to one that did not ask (`RunsOnce`), and an action
about to be published is pending, with the state that goes with it (`EmitsPending`,
`LastOnly`).  `dropped \/ ApprovalInv` is inductive together with `IInv` and
`LiveInv`.

### ControlFlagsProofs

For any limits, budgets, costs and bounds: `TypeCorrect`, `LimitHolds`
(`Spec => []CallsWithinLimit`), `ExtensionsEarned`
(`Spec => []ExtensionsAreEarned`) and `BudgetIsKept`
(`Spec => []BudgetHoldsUndisturbed`).  `IInv` adds `HitIsReached` (a flag that is
marked as hit has reached its limit), without which an extension could be granted
early.  The budget needs an invariant of its own, since a save takes the stats away
from a state for a while: as long as no error status and no failing write came
between, only the controller's thread saves, the agent it saves is the only one
without its stats, and the thread holds them (`StatsAtHand`), so that every step of
an agent compares what has really been spent.

### SandboxPortsProofs

For any runtimes, ports, inodes, attempts, deaths and refused requests (`PortLockAssumption`,
`SandboxAssumption`: there are ports enough for the attempts of a search):
`TypeCorrect`, `LockExcludes` (`ExclusiveUntilRelease`), `LocksAreReturned`
(`NoLeakedLock`) and the action property `ConflictsAreExplained`
(`Spec => ConflictIsExplained`).  `IInv` adds to the types that the holder of a lock has its file
open, in hand or lost (`HolderIsRight`), that only a refused request to docker loses
one (`LostByErrors`), who has a file open at which step (`OpenWhileUsed`), and
that a port's name still names the file everybody has opened as long as no
release has removed it (`NameIsOpened`), which is why two holders would have the
same inode.  `BoxFollows` relates the container to what its runtime is doing: a
runtime that searches has none, and one that is up has a running one on its own
port.  So the sandbox that a start fails on belongs to a runtime that holds no lock,
or the two locks are on different files.

### BatchedWebHookProofs

For any writers, sizes and bounds and any finite set of paths
(`WebHookAssumption`; the code keeps the paths in a dict, which is finite):

* `TypeCorrect` and `NothingLeftBehind` (`Spec => []PendingIsScheduled`).  `IInv`
  adds that the batch is empty while `flush` sends (`FlushedIsEmpty`): the timer that
  fires meanwhile finds nothing, and leaves nothing.
* `RemoteCatchesUp`: `Spec => []RemoteIsCurrent`.  The property speaks of rest;
  `TrackInv` follows the last change of a path there.  It is with the writer that
  still waits for the lock, else in the batch (`LastInBatch`); once it is in neither,
  it is in the one batch that is being sent with this path, from a pool thread or by
  `flush` (`SentOnce`, `LastIsSent`), and if there is none, with the service.  A path
  whose changes were in two batches under way, or were given up, is `excused`.
* `SizeIsExact`: `Spec => []SizeIsRight`.  `_enqueue_batch` keeps the size by
  subtracting the entry it replaces and adding the new one.  The property is a fold over the set of
  paths, that is the recursive function `Sums` on its subsets.  Its existence
  (`SumsExist`) and that one changed entry changes the sum by the difference
  (`SumOfPut`) are proved by induction on the cardinality of a subset, by means of a
  smallest counterexample: the natural numbers are well-founded, so a non-empty set
  of them has a least element.

### ConversationManagerProofs

For any conversations, clients, requests and bounds (`SessionAssumption`,
`ManagerAssumption`, which has finitely many requests so that they can be counted):

* `TypeCorrect`, with what each closing task refers to (`ClosersAreRight`).
* `OneLoop`: `Spec => []OneLoopUnlessRaced`, which no regular run checks: overlapping
  joins take two clients, two conversations and three sessions, whose states are too
  many for a run with a mutant.  It says that overlapping joins are the only way to two
  loops, which `ConversationManager_loops` shows they are.  `LoopsAreKnown` says that, until
  joins have overlapped, a session that is not being closed is the registered one
  of its conversation, and a conversation has none registered while a join of it
  is suspended.
* `ClosedIsReleased`: `Spec => []CloseReleases`.  Whether the runtime is closed when
  `close` has ended depends on how far `start` has come: `AllReleased` adds that from the
  closing of the stream on `start` has ended, or will not begin, unless its end was not
  waited for (`gaveUp`).
* `ClosedNeverRuns`: `Spec => NeverRunsAfterClose`.  `start` looks at `_closed` in the
  step that publishes the first message, and a client's message only reaches a
  registered session; what is heard is heard from an open stream, and `AllReleased` says
  that the stream is closed when `close` has ended, and stays so.
* `UsedStaysOpen`: `Spec => []UsedIsOpen`.  The count kept with an active
  conversation is the number of its users (`ActiveIsCounted`, with `Cardinality`);
  a detached conversation is open (`DetachedIsOpen`); and the lock is held by one
  request at a time, so that the conversation being connected is nobody else's
  (`HolderIsAlone`).

### AgentHistoryProofs

For any pipelines (`PipelinesAssumption`: at most one of the two condensers that
count events), all sizes that the constructors accept (`SizesAssumption`), options,
messages, crashes, recoveries and numbers of overtakings, under two hypotheses:

* `Keeps`: `keep_first` is at least two.  A session has four (`session.py:238`).  With
  one, which is the default of the configuration class (`condenser_config.py:49`),
  `TaskIsKept` is false, as TLC shows at once when `KeepFirst` is 1: the first
  condensation by size forgets the user's first message.
* `Interactive`: loops are cut out in interactive sessions only, as the code has it.
  There the detector looks at what follows the last user message; in a headless
  session a loop could begin with the task itself.

Proved are

* `Inductive`: `Spec => []Sound`, where `Sound` is `IInv` as long as no event has been
  heard before an earlier one (`InTurn`).
* `TheTaskIsKept`: `Spec => []TaskIsKept`.
* `OneSummaryCoversAll`: `Spec => []SummaryIsComplete`.
* `CondensersFailShort`: `Spec /\ []InTurn => OnlyShortViewsFail`, for any pipelines
  and sizes.
* `DecidesOnTheCurrentView`: `Spec /\ []InTurn => ViewIsCurrentUnlessCut`.
* `SizeCondensationsShrink`: `Spec /\ []InTurn => CondensationShrinks`.

The first two properties are about runs in order by their own words (see AgentView
above); the other three TLC checks in any order with one overtaking, and the proofs
have them for the runs without.

`IInv` goes from the log to the view.  `LogInv` says that the log begins with the
system message and the user's first one and that no entry forgets these two
(`Harmless`); `HistoryInv` that the history is a part of the log, in order, that
begins with them; `CutsInv` that no cut or saved end is before the second of them,
since the loop that the detector finds is behind the last user message;
`WaitingInv` that what is still to be answered is in the log; `CacheInv` that the
cached view, current or not, begins with the two and has at most one summary; and
`CurrentInv` that it is the view of the history's first `checksum` events until a
loop is cut out.  That is inductive because of what the functions do with such
arguments: `ViewOf` of a `GoodHistory` is a `GoodView`, and what a condenser makes of
a `GoodView` is `Harmless`.  In particular the window condenser finds the first user
message, and what it keeps always contains both (`Essential`).  The view that a
condensation by size leaves is bounded by an injection of what stays into the
positions outside of the middle that was taken (`ShrinkFacts`), with the
pigeonhole principle.  The filters of sequences are recursive functions (`Picked`);
what they compute is proved once (`Selects`), by induction on an interval.

`OneSummaryCoversAll` needs more, because a condensation is decided on one history,
published into a log in which others may come before it, and heard later.  A second
invariant, `UncutInv`, says that as long as no loop is cut out the history is the whole
log as far as it is heard (`Whole`), also after a crash, and that every condensation
in the log can be dated (`Dates`): it was made of the history as it was when `at[i]`
events were heard (`Made`), the dates are in the order of the log, and no condensation
is dated after itself.  The rest is an argument on ids (`Story`).  A condensation by
summary takes the middle of what was left at its date, and its summary covers that and
what the summary in view covered, which is the latest one before the date
(`Summarized`).  A window condensation takes what is before some point, except for at
most four essential events (`Windowed`).  And the first `keep_first` told events are
not taken without a summary, which is `PrefixStays` (`Foremost`).  `AllCovered` is
proved by a least counterexample.  Let the summary of `i` be the first that does not
cover an event which the condensation `j` of `S` had taken.  If the event was gone
from the view that `i` was made of, a summary heard before had taken it; the latest of
these covers it, because it comes before `i`, and what it covers `i` does.  If the
event was still in that view, then `j` is `i`, whose middle has it, or `j` was
published meanwhile and had not been heard.  Then both took the event from their
middles (`TakenAgain`): what followed it in the view of `j` still does in that of
`i`, or was taken by a window condensation, which leaves at most four essential events
before it, so that a view of at least `max_size` events has enough behind the event
(`FewAreBefore`).  `StoryHolds` reads the story off a run: the view of a
whole history is its told events without what is forgotten, in the order of their ids,
with the one summary behind the prefix (`ViewEntries`).

### HistoryInitProofs

For logs of any length and any number of restarts (`ConstantsAssumption`):

* `TypeCorrect`: `Spec => []TypeOK`, which includes that the history has no event
  twice and none that was not heard, and is in the order of the stream as long as the
  session has heard in that order.
* `HistoryComplete`: `Spec => []HistoryIsComplete` if `MaxRestarts <= 1`.  With two
  restarts the property is false, as `HistoryInit_twice` shows: the first one leaves
  the last delegation as `start_id`.

An ordered list of ids is determined by the set of its members (`ListIsUnique`), so
what `_init_history` computes is followed as a set.  The loops of the code are
recursive functions here.  That each exists is proved from one lemma on recursion
over an interval (`RecursionExists`), and what it yields by induction
(`IntervalInduction`): the stack of unmatched actions finds exactly the pairs with
nothing of a delegation between them (`RangesFound`), since a result always ends the
delegation that began last (`LogInv`); these do not overlap (`NoOverlap`), so that
sorting them by their actions puts one behind the other (`SortedIsChain`); and the
loop over them then drops what is inside of one, and nothing else
(`FilteredIsList`).  `IInv` adds to this that the active delegate is the last one that
began (`DelegateInv`), as is one whose action is not heard yet (`WaitingInv`), that what
is unheard inside a finished delegation is late, and what is late has a result behind it
(`LateInv`), and that the live history has the root's own events as long as
at most one restart has happened (`Complete`).  Without overtaking what was heard comes
before what was not (`PrefixInv`), so that an active delegate owns what it hears
(`ActiveOwns`).  The end of a delegation turns what
belonged to the active delegate into what is inside of a pair, and a restart with an
active delegate turns the delegate's events into the root's, by the docstring's rule
as well as by the code (`OthersKeepAtTheEnd`, `InsideOfDelegate`).

### Only model-checked

* All liveness (`RunsEnd`, `EventuallyHandled` and the others), which needs ENABLED
  and fairness.
* The expected violations, each of which TLC shows.

## 5. Plan

1. `Delegation`: parent and delegate over one stream, with the event that ends the
   delegate.
2. PAUSED, `close` and replay in `AgentController`.
3. The nested event store and the docker nested manager.
4. The evaluation worker pool and the SWE-bench runner, as far as they retry.

## 6. Not modelled, and why

The bash session scrapes tmux screens: its logic is text matching on timing a
model would have to invent.  The other runtime implementations and the action
execution server are HTTP and processes.  LLM clients are wrappers around litellm
and tenacity; of them, the attempts of a call are in `AgentController`.  Agents and prompts are data.  The enterprise server, the frontend
(but for the confirmation buttons) and the evaluation scripts surround the same
core.  The remaining parts are in the plan.
