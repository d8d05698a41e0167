# MiqroForge Desktop: a verification project

MiqroForge Desktop is an Electron application around an agent runtime written
in Python (asyncio). This directory models the parts where its behaviour is
hardest to get right: user messages, stop buttons, shell commands, approvals,
background agents, scheduled jobs, time-outs, restarts and teardown, meeting in
processes that are interleaved at every `await`.
TLC checks the models on small instances; TLAPS proves all the safety properties
these checks are about, and the refinement between the two central models, for
every value of the constants.

[1. The system](#1-the-system) -
[2. Modules](#2-modules) -
[3. RuntimeSession](#3-runtimesession) -
[4. ChatTurns](#4-chatturns) -
[5. SessionRegistry](#5-sessionregistry) -
[6. TurnSlots](#6-turnslots) -
[7. Approvals](#7-approvals) -
[8. Agents](#8-agents) -
[9. Asks, Cron and Gateway](#9-asks-cron-and-gateway) -
[10. Bridge](#10-bridge) -
[11. Runs](#11-runs) -
[12. Proofs](#12-proofs) -
[13. Where the code differs from what it says](#13-where-the-code-differs-from-what-it-says) -
[14. What is not modelled](#14-what-is-not-modelled) -
[15. What could come next](#15-what-could-come-next)

## 1. The system

Paths are below `src/`; `miqi/` is the Python package.

| Component | State | Operations | What is hard |
|---|---|---|---|
| **RuntimeSession** `miqi/runtime/session.py` | submission queue, `_pending`, the active turn, auxiliary tasks, bounded event queue | `submit`, `next_event`, `_run`, `stop` | a prefetching getter next to two queues; AbortTurn while a turn runs or has just ended; puts that wait; stop at any await |
| **TaskRunner** `miqi/runtime/task_runner.py` | `_running_turns`, registry of turn tasks | `handle` for each kind of submission, closing events | a cancellation before its `try`, inside a tool, inside its own error report |
| **Chat drain** `miqi/bridge/loop.py` | `_session_drain_tasks` (lock), `_released_drain_tasks` (one slot), emitter, `_terminal_sent` | `chat.send`, `chat.abort`, job drains, the drain task | several drains over one queue; stop and resend; idle time-out against a late event; stale lock |
| **ClientSessionRegistry** `miqi/runtime/app_server.py` | sessions, authorised clients, activity, account of each session | `create`, `get`, `retire`, `stop`, `evict` | awaits between looking up a session and deleting its records; account change while one is created |
| **Turn handlers** `miqi/runtime/turn_app_handlers.py`, `shell_command_app_handlers.py` | reservation per thread, active-turn id, drain per turn | `turn/start`, `turn/interrupt`, `thread/shellCommand` | slots are per thread, turn and events per session; the slot must be freed on every path |
| **Tool orchestrator** `miqi/execution/orchestrator.py`, `permission_engine.py` | pending approvals, grants, permanent list | request, answer, time-out, abort, sweep | three parties settle one future; a cancellation turned into a result |
| **Agent control and jobs** `miqi/runtime/agent_control.py`, `agent_jobs.py`, `agent_graph_store.py` | live agents, jobs, tasks, rows | spawn, run, kill, stall watchdog, restart | kill against completion; a job that ends before its spawn returns; process restart |
| **RuntimeClient** `miqi/runtime/client.py` | ask lock | `ask` | an ask that is given up leaves its answer to the next |
| **Cron** `miqi/cron/service.py`, `miqi/runtime/cron_handlers.py`, `miqi/cli/management.py` | `jobs.json`, a store in each process, one timer | add, remove, enable, run, tick | several processes write one file nobody locks; a crash before the batch is saved |
| **Gateway** `miqi/cli/gateway_cmd.py`, `miqi/runtime/gateway_dispatcher.py` | one runtime for channels, jobs, heartbeat | dispatch, on_job | all ask one runtime through one lock |
| **BridgeManager** `apps/desktop/src/main/bridge.ts` | child process, pending requests, timers | start, stop, restart, request, hot reload | overlapping starts, stops and restarts; late answers of an old process |
| **TurnRunner, AppServer fan-out, MessageBus, InputQueue, provider resilience, sandbox, stores** | messages, subscriptions, queues, retry counters, files, SQLite | provider/tool loop, emit, put/get, retry, persist | not modelled, see section 14 |

How the parts interact. The Electron main process writes requests to the bridge's
standard input (`Bridge`). `chat.send` takes the session from the registry
(`SessionRegistry`), submits a `UserMessage` to its `RuntimeSession` and starts a
drain (`ChatTurns`); the session's `_run` turns the submission into a task running
`TaskRunner.handle`, which calls the turn runner, tools and approvals
(`Approvals`), spawns sub-agents (`Agents`) and puts events on the session's queue;
the drain reads that queue, forwards progress, and answers the request with one
terminal message. `chat.abort` submits `AbortTurn` on the same queue and gives
the lock away. The codex handlers (`TurnSlots`) and `RuntimeClient` (`Asks`) drain
the same queue in their own way; the headless gateway asks through the latter for
channels and scheduled jobs (`Gateway`). `PROJECT.json` lists every component with
its status and the hazards with their lines.

What makes the components correct, in the order we consider it important:

- *RuntimeSession*: no submission is lost, duplicated or run twice; messages are
  served first come, first served, one at a time; a stop never kills a later
  message; no task outlives the bookkeeping that could cancel it; `stop()` returns.
- *Chat drain*: one reader; a request is answered by its own turn, exactly once,
  and always; the lock is given back.
- *Registry*: a live session always has its owner and account on record; a client
  never reaches a session of another account.
- *Turn handlers*: at most one turn per thread, an interrupt hits the turn it names,
  and no slot stays taken.
- *Approvals*: nothing runs that the user did not allow; what the user was told, what
  the ledger says and what happened are one; every call ends.
- *Agents*: the limit holds, memory and table agree after a restart, every job is
  reported as it ended, a hung one is ended.
- *Cron, gateway*: a one-shot job begins at most once, no wanted job is lost and no
  removed one revived, what is due runs; every caller gets its own answer.
- *BridgeManager*: no process without an owner, no request waiting for a dead
  process, and `stop()` is final.

## 2. Modules

| Module | Models |
|---|---|
| `RuntimeSession` | the dispatch loop, the tasks it spawns, `stop()` |
| `TurnService` | abstract: what a `RuntimeSession` promises its clients |
| `ChatTurns` | `chat.send`, `chat.abort`, job drains and chat drains over a `TurnService` |
| `SessionRegistry` | the cache of runtimes and its records, requests that create or stop sessions, eviction, changes of account |
| `TurnSlots` | `turn/start`, `turn/interrupt`, `thread/shellCommand` with their drains, on the loop of one session |
| `Approvals` | tool calls that need the user, from permission check to verdict; answer, time-out, abort, grants |
| `Agents` | sub-agents, their jobs, their rows, kill, stall watchdog, restart |
| `Asks` | `RuntimeClient.ask` over one runtime |
| `Cron` | the job file and every process that uses it |
| `Gateway` | `Asks` and `Cron` composed: jobs ask, all die together |
| `Bridge` | the Electron side: life of the process, hot reload, pending requests |
| `RuntimeSession_proofs`, `ChatTurns_proofs`, `SessionRegistry_proofs`, `TurnSlots_proofs`, `Approvals_proofs`, `Agents_proofs`, `Gateway_proofs`, `Bridge_proofs` | theorems |
| `MCRuntimeSession`, `MCChatTurns`, `MCSessionRegistry` | instances for TLC that need symmetry |

`TurnService` is the joint. `RuntimeSession` implements it (property
`ImplementsTurnService` of run `session_safety` and theorem `ServiceImplemented`, refinement mapping at the end of the module), and `ChatTurns`
takes the session's steps from an INSTANCE of it, so the second model does not
repeat the first. `Gateway` EXTENDS the two modules it composes and lets a step be a
step of one, of the other, or of both (`BeginJob`, `Die`). Each module holds, just before some definitions, a variant of
that definition with a plausible bug (`\* mutant`); `PROJECT.json` names the
property that notices it. Nothing else uses them.

**Consistent.** Each module has one bookkeeping invariant, `Consistent`, the
conjunction of `TypeOK` and named parts that say which pieces of state must agree
at every await. `RuntimeSession`: `LiveTasksOwned`, `StopReapsTurns`, `Bookkeeping`;
`ChatTurns`: `OneReader`, `ReaderIsWired`, `NoForgottenDrain`; `SessionRegistry`:
`LockProtects`, `RecordsComplete`, `NoOrphanRecords`; `Agents`: `RowFollowsJob`,
`NoZombie`, `SlotFreedAfterSpawn`; `Approvals`: `AbortStops`, `DeniedIsTold`,
`NothingLeftBehind`; `TurnSlots`: `SlotHasOwner`; `Bridge`: `PendingOfCurrent`,
`RunningServes`; `Gateway`: `NeverCatchesUp`, `RunsWanted`, `SavedIsTrue`.
It is proved of every module, from the inductive invariant of section 12.

**Circumstances and other exceptions.** Many properties are true of the code under some
conditions and false under others, and the line between the two is what the checks
establish. A constant `Courses` (`ChatTurns`, `TurnSlots`) is a set of sets of
circumstances; a behaviour picks one, and a property says which it is claimed
under. Elsewhere a history variable marks what happened (`hasty`, `absorbed`, `mishaps`,
`slips`, `crossed`, `overtaken`, `missed`, `lost`), and the property names it as its only exception.

## 3. RuntimeSession

**Interleaving.** An asyncio program switches tasks only at an `await`. `pc` says at
which `await` `_run` is suspended; `top` and `handle` are points where it holds
the event loop, and the guard `Yielded` disables every other actor there. What
the code does between two awaits is a sequence of actions no one interrupts.

| Model | Code |
|---|---|
| `submissions`, `pending`, `events` | `_submissions`, `_pending`, the size of `_events` (its content matters only in `ChatTurns`) |
| `active`, `aux`, `task` | `_active_turn_task`, `_pending_aux_tasks`, the asyncio state of each task |
| `getter`, `held` | `get_task` of the current wait, or the task `wait_for` makes of `get()`, and its result |
| `batch`, `watched` | the set `done` returned by `asyncio.wait`, and the snapshot it waited on |
| `aborting` | `cancelled_task` while the loop awaits a turn it cancelled |
| `stop`, `reaped` | how far `stop()` is, and the tasks it awaits |
| `python` | which `asyncio.wait_for` the program runs on, chosen once |
| `accepted`, `begun`, `handled`, `lost`, `abortedBy`, `missed` | history, for the properties only |

The finished tasks of one wait are a Python set, so the loop looks at them in any
order: the actions `TurnOver`, `TurnAlreadyCleared`, `GotAbort`, `GotLateAbort`,
`GotSteer`, `GotShell`, `GotTurn` and `AuxOver` are enabled together, and
`BatchOver` ends the batch. A task may be cancelled before its first step (its
handler then never runs), in the middle, or again while it cleans up; the
orchestrator may swallow a cancellation (`Absorb`).

**The idle wait.** The package supports Python 3.11 and later. From 3.12 `wait_for` runs
`get()` in `_run` itself: a cancellation that comes before `_run` resumes leaves the
submission in the queue (`TakeSubmission` at `idle`). In 3.11 it runs `get()` in a task of
its own, and when that is done (`IdleFetch`, `pc = "fetched"`) it returns the result whatever
happens to `_run` (`TakeFetched`): the cancellation of `stop()` is swallowed, and
the loop starts a turn that `stop()` did not see when it built its `gather`. `missed` names
that submission, and `StopReapsTurns` excepts it.

Abstractions, each of which only adds behaviours: any put on a full queue waits,
without the FIFO order of the waiters; a turn emits any number of events; an
`await` that may or may not suspend is taken as one that does.

## 4. ChatTurns

A request names its turn. `events` keeps, of each event, whose turn put it and of
which kind, because the drains read one queue and the question is whose event a
drain reads. `drain[r]` is the life of the drain task: `ready` (created, not
run), `waiting` for its predecessor, `draining`, `cancelled` or `killed` (a
cancellation delivered inside or outside the `try` that reports it), `done`.

`circumstances` is what the environment does beyond the plain course:

| Circumstance | Meaning |
|---|---|
| `overlap` | `chat.send` awaits between its check and its registration |
| `rush` | a `chat.abort` is handled before a new drain's first step |
| `silence` | the idle time-out of a drain expires |
| `stale` | a drain forwarded nothing for `STALE_TURN_TIMEOUT`, and a new send takes over |
| `error` | a turn fails |
| `warning` | history compaction fails before a turn |
| `mute` | a cancelled turn ends without reporting it |
| `job` | `sure.fix.start` dispatches a background job for the session |

All of these are reachable in the code. The runs list the largest sets found
under which each property holds.

A job is a request whose turn runs beside the session's. It never enters `line`, no
event ends it and AbortTurn does not reach it; its drain takes the lock without
looking (`StartJob`) and says nothing when it ends (`settled` is preset to
`"muted"`, as `_terminal_sent` is). Its emitter is registered under another key (the
full session id), so it neither wires nor unwires the chat's.

## 5. SessionRegistry

The registry caches one runtime per session id and keeps, in four more
dictionaries, who may use it, when it was used and for which login account it was
built. Another process changes the account (`SwitchAccount`); the key does not
contain it. `create_session` and the retiring half of `get_session` take the
lock and await inside it; `stop_session`, the eviction and the fast path of
`get_session` do not take it. A request is a whole handler (`chat.send`: get, else
create; `sessions.delete`: get, then stop), and `pc` says at which await it is.
A request names the runtime it may build. `overtaken` is history: it marks the
sessions hit by the one overlap the code does not survive, and the properties
name it as their only exception. The sandbox that goes with a session, the
published plugin manager and the reading of the configuration before the
account is sampled are left out.

## 6. TurnSlots

`turn/start` and `thread/shellCommand` reserve the slot of their thread
(`reserved`), look the thread up, submit a turn and start a drain that
reads the session's events until one of them ends a turn; then it releases the slot.
The slots are per thread, but the line of submissions, the turn being
run, the queue of events and AbortTurn are per session. `phase` is where a handler
is, `line`, `pending`, `active`, `aux`, `aborting` are the loop of `RuntimeSession`
in the detail this needs, `runner` is the registry of active turn ids that
`turn/interrupt` compares with.

| Circumstance | Meaning |
|---|---|
| `error` | a turn fails: its non-recoverable ErrorEvent ends the drain, its TurnCompleteEvent the next one |
| `threads` | two threads of one session: their drains take each other's events, and an interrupt's AbortTurn cancels whatever turn is active |
| `quiet` | no event for 300 seconds: the drain gives the slot away |

`hits` records, for each AbortTurn, the turn the interrupt named and the turn it
cancelled. A standalone command that is cancelled ends without an event, so its
slot is held until the time-out (hence `SlotFreed` is claimed with `quiet`). A
command that joins a reserved turn becomes a turn of its own, and an interrupt
may then hit it.

## 7. Approvals

`pc[c]` is the await `ToolOrchestrator.execute` is at: announcing the request,
waiting for the future, recording the answer, expiring. `future`, `pending`,
`byThread` are the three structures an approval lives in, `told` and `ledger` what
was said about it to the frontend and to the ledger. The user's answer, the time limit and
AbortTurn race at every await.

An answer is two steps. `Answer` (`resolve_approval`) grants and settles the future;
the handler then awaits the put of the `ApprovalResolvedEvent` (`Announce`), and on a full queue the
call goes on and may end first. `unsaid` holds the calls in between. The turn that `Abort` cancels may
itself be an `ApprovalResponse` waiting for that put, whose event is then `lost`. `Abort` cancels the
tasks of the calls; then the sweep snapshots the thread's approvals and takes them one after the
other, with `sweep` at the await of the event (`"telling"`) or of the ledger (`"writing"`).
A ledger write may fail: `execute` turns that into an error result whatever was decided
(`Fails`), and in a sweep it ends the sweep (`SweepFails`).

`Verdict` is the decision of
`PermissionEngine.check` as the order of its rules: blocked, plan, card, grant, mode.

The package supports Python 3.11 and later, and `asyncio.wait_for` differs: in
3.11 a result that is there when the task wakes survives a time-out and even a cancellation;
from 3.12 both cancel the future at once. `python` is chosen once per behaviour, and
the properties say what depends on it. An answer that comes after the announcement but
before the future exists is refused, and the call ends by its time-out.

## 8. Agents

`spawn[a]` is the call of `AgentControl.spawn`, `live` its registry, `job`, `task`,
`row` the job's status in memory, its asyncio task and its row in SQLite. A spawn
starts the job, registers the agent and only then awaits an event and a hook: the job
may run, end or be killed before the spawn goes on and sets the state to thinking
(`hasty` marks the agents whose job ended by then). A cancelled task may absorb the cancellation in a
tool call (`absorbed`). `Restart` forgets memory and loads the rows: a running job comes
back as interrupted, in memory only.

## 9. Asks, Cron and Gateway

`Asks`: `line` is the ask lock (its holder and the waiters, in order), `turns` the
messages the runtime has not answered, `events` what nobody has read. An ask that is given up (time-out,
cancellation, or an error event that ends it while its turn goes on) leaves its
answer behind: `slips` counts them, and `NeverCatchesUp` says that from then on every
answer is late by exactly that many.

`Cron`: a store is three sets, the jobs, the enabled ones, those with a next run. The
gateway loads the file once, keeps `memory`, runs the due ones in batches and writes
the whole store back after the batch. A desktop handler or CLI command is one step that loads,
changes and saves. `miqi cron run` is a process that loads, runs and saves what it
had loaded (`copy`). Time is `elapsed`, the jobs whose time has come. A crash may come at any
await; in the middle of a write it leaves a file that does not parse and that loads as an
empty store (`torn`). `mishaps` records `overlap` (two stores in use at once) and `torn`.

`Gateway`: `BeginJob` is a cron step and an ask, `FinishJob` waits for the ask,
`JobTimeOut` cancels it, and `Die` takes the runtime and all callers along.

## 10. Bridge

`os[p]` is each process as the operating system has it, `process` the one the manager
holds, `at[p]` where the `start()` of that process is (handshake, the 250 ms of settling, initialize),
`stopping` the process `stoppingPromise` is for, `waiting` the starts that await it,
`reloading` where `restart()` is. Between awaits JavaScript runs alone: a promise
resolved continues before any other event, which `Idle` expresses. `sentTo[r]` is the
entry of a request in `this.pending`, by the process it was written to; a response, a time-out or the end of its process
removes it, whether the caller is answered or rejected, and a stream is settled by a terminal event.

`crossed` records the three ways in which calls cross that the manager does not guard
against, each of them the exception of the properties it concerns and of no other:

| In `crossed` | What happened | Excepted in |
|---|---|---|
| `"start"` | a `start()` spawned while `restart()` waited for the old process | `NoOrphan`, `PendingOfCurrent` |
| `"stop"` | `stop()` and `restart()` were under way at once | `StopIsFinal` |
| `"absorbed"` | a `stop()` joined the one under way though a `start()` already waited for its end | `StopIsFinal` |

A `stop()` is possible at any time: while another is under way it only joins it, and
without a process it does nothing.

## 11. Runs

Every run allows the system to stop (`CHECK_DEADLOCK FALSE`): each instance has
finitely many submissions, requests, edits and crashes, and a session is stopped for
good by `stop()`. States and times are those of two workers.

| Run | States | Shows |
|---|---|---|
| `session_safety` | 1 135 982, 177 s | no orphaned task, exactly one place per submission, FIFO, aborts hit only earlier turns, no live turn after `stop()` but the one missed; the refinement of `TurnService` |
| `session_live` | 89 383, 83 s | every accepted message is served unless dropped or the session stops; AbortTurn is dequeued though turns never end by themselves; `stop()` returns from anywhere |
| `chat_safety` | 1 071 344, 30 s | one reader that has the emitter, no forgotten drain, in five sets of circumstances; without failures every request is settled by its own turn |
| `chat_settled` | 141 145, 30 s | every accepted send is settled and the lock freed, with overlap, silence, errors, warnings, mute turns, background jobs |
| `registry_safety` | 179 014, 189 s | no leaked runtime, records agree with the cache, answers of the right account and alive, every request returns |
| `turn_slots` | 390 996, 148 s | every reservation has someone to release it, slots come free, accepted turns end; on one thread without failures: one turn, the right interrupt, the own verdict |
| `approvals` | 38 106, 7 s | no call runs unallowed, an accepted answer decides, frontend and ledger agree, nothing is left behind, every call ends and every request shown is closed |
| `agents` | 28 338, 4 s | the limit holds; memory, rows and reports agree across kill, failure and restart; a hung job is ended |
| `gateway` | 55 868, 27 s | own answers until the first ask is given up; jobs kept, one-shots begun once; due jobs and asks go on |
| `bridge` | 1 397 278, 123 s | no orphan process, `stop()` final, no request of a dead process, a running bridge serves, every `start()` settles |
| `session_drop`, `bridge_deferred` | | violations, section 13 |

**Bounds.** Two turns are needed for an abort to hit the wrong one and for order to
mean anything; a third submission kind beside each of them is needed for one batch to hold the turn, the
getter and an auxiliary task. A submission is submitted once, so an instance with
`n` submissions has histories of length `n`. An event queue of one place is full after a
single event, so every put is seen waiting. In `ChatTurns` three requests let
a drain wait for one that itself waits, and three aborts release each of them;
progress events are interchangeable, so one unread progress event
(`MaxProgress`) is enough to stand between two terminal ones. The liveness runs
use no symmetry and fewer actors: two requests, of which under `job` either may be a
job. Both session runs are on Python 3.11: its `IdleFetch` and `TakeFetched`, taken
one right after the other, are the later versions' step from `idle`, so that it shows everything these do; `session_drop` is on 3.12, and
the proofs cover both. In `SessionRegistry` three
requests are one that builds, one that stops and one that comes between; two
changes of account bring the first one back. One session is enough because sessions share
only the lock and the order of the eviction.
`TurnSlots` has two messages and a command, the smallest set with a turn that runs, one that waits and one beside them,
two threads, and one interrupt of each turn. `Approvals` has one call and two aborts, so that a call
may be cancelled while it still reacts to a cancellation, and a sweep may begin with it and end without it. Calls meet only in the
grants, which are read before a call asks, and in the sweep, which takes each apart; the proof
is for any number of them. Two calls of one key with one abort have 5 424 060 states up to symmetry, too many for the
liveness properties of the run; TLC checked its invariants on them once, without an error. `Agents` has two spawns under a limit of one, so that a slot lost
or counted twice shows, and one restart. `Gateway` has a one-shot and a recurring job, so that a
batch of two exists, one sender, two edits (create and change, or two overlapping runs), one crash,
one given-up ask. `Bridge` has three processes, because an orphan takes three: the old one, the one a
`start()` spawns meanwhile and the one `restart()` spawns. Plain requests and streams differ in what settles them and in the
check for a deferred restart, which is a stream's; one stream is enough to defer.

**Fairness.** `RuntimeSession!Scheduling`: the event loop runs every ready
callback, so the loop, the getter and a started `stop()` make progress; a task that
waits to put an event is woken in turn, hence strong fairness for the steps
that put; `NextEvent` is fair, which means some client drains the session (with
no reader the bounded queue blocks everything, and nothing below it can help).
`FairSpec` assumes of a turn only that its clean-up ends once it is cancelled and
not cut short by a tool; `TurnsServed` and `StopReturns` add, as a premise
(`TurnsEnd`), that turns end by themselves, which the code gets from the
iteration budget and the provider's time-outs.
`stop()` is fair only once it has been called, `submit` never.
`ChatTurns!Scheduling` is weak fairness of each drain, of the start of the
turn at the head of the line and of the second half of `chat.send`. Nothing is assumed of a turn: it may run for
ever and ignore its cancellation. `DriesUp` says it does not also emit progress for
ever, for then the drain has something to forward and rightly never gives up.
`SessionRegistry!FairSpec`: requests that have been issued go on (strongly fair,
because an eviction under way keeps them out for a moment), since the event loop is fair and
`start()` and `stop()` return; issuing a request, switching the account and
going idle are free.
`TurnSlots`: look-ups return, drains read or time out, loop and tasks are scheduled, turns end.
`Approvals`: a call goes on whenever it can, which includes its time limit; a sweep and the
handler of an answer go on, which means that the event queue is drained; nothing of the user.
`Agents`: spawns return, tasks run, the watchdog's timer fires, a cancelled turn ends; a turn
may otherwise hang for ever. `Gateway`: the event loop runs what is ready, the clock goes on, and every turn
ends with an answer or an error, which is `TurnsServed` of the session below it; edits,
messages and crashes are free. `Bridge`: timers fire and awaited code resumes; nothing is
assumed of the processes, which may never answer or exit by themselves.

## 12. Proofs

Every invariant and every action property that a passing run checks is a theorem of the
module's specification without fairness, and so is the refinement of `TurnService`. The assumptions are those
the modules state of their constants: that kinds of actors are disjoint and sentinel
values are none of them, that bounds are numbers, and in `Agents` that there are
finitely many agents. Most properties are not inductive. Each proof has an invariant of its own
(`IInv`, or the chain of invariants named below), which TLC checked on the configurations
of section 11 before it was proved, a lemma per action or group of actions, and a theorem
per property.

`RuntimeSession_proofs` proves, for any sets of submissions and any capacity of
the event queue, from the three assumptions on the constants (the kinds of
submissions are disjoint, `NoSub` is none of them, the capacity is positive):

| Theorem | Establishes |
|---|---|
| `TypeCorrect` | `TypeOK`: among others, only messages wait in `_pending` and the loop respects the queue's bound |
| `GetterCorrect` | the getter holds a submission exactly when it is done |
| `OncePlaced` | `ExactlyOnePlace` |
| `LiveTasksAreOwned` | `LiveTasksOwned` |
| `StopReaps_Turns` | `StopReapsTurns`: of the turns only the one missed may outlive `stop()` |
| `LineCorrect`, `FirstComeFirstServed` | `OneLine`, hence `TurnsBeginInOrder` |
| `AbortsHitEarlier` | `AbortsHitEarlierTurn` |
| `BookkeepingCorrect` | the parts of the inductive invariant together |
| `SessionConsistent` | `Consistent` |
| `ServiceImplemented` | `ImplementsTurnService` |

None of the interesting invariants is inductive. `ExactlyOnePlace` needs
to know that the getter is `done` exactly when it holds something
(`GetterHolds`); `LiveTasksOwned` needs that a turn the loop is about to forget
really ended (`BatchTruthful`) and that no submission is started twice
(`ExactlyOnePlace`); `StopReapsTurns` that after the cancellation the turn that is active is awaited or missed, and
that what a loop still at `fetched` holds is what was missed (`StopAwaits`); the order of turns needs the whole line - turns begun, pending,
held, queued - to be ordered (`OneLine`); and an abort hits an earlier turn because
the abort is held or queued while the turn has begun, which is `OneLine` again.
The argument goes along that dependency: types, getter, places, ownership, line,
aborts, each an invariant proved from the earlier ones, one lemma per group of
actions (clients, tasks, loop, stop) and one step per action. Lemmas about `Range`,
`Append`, `Tail` and `Before` are stated where they are first needed.

`ServiceImplemented` shows that the initial state is one of `TurnService` and that each step
of the session is an `Accept`, `Serve`, `Aside`, `Finish` or a stutter of it, under the mapping in
`RuntimeSession`: the line is `pending`, then what the getter holds, then
`submissions`, and the live turns are the tasks that are alive. The steps that take a
message from one of the three places are those that matter: the getter's
fetch and the move of a message it held behind `pending` do not change the line (`MovesInLine`), a dispatch takes
its head (`LineHead`), a command or a dropped submission leaves from the place where
the getter was (`HeldInLine`). Types, `GetterHolds` and `Ownership` are all it needs.
Together with the theorems of `ChatTurns`, whose session is an INSTANCE of `TurnService`, it
carries what is proved of the drains over to the dispatch loop as it is written.

`SessionRegistry_proofs` proves, for any number of requests, sessions, accounts and
changes of account, from two assumptions (the sentinel values are no request, session
or account; the bound is a number):

| Theorem | Establishes |
|---|---|
| `RegistryTypeCorrect` | `TypeOK`, with who holds the lock |
| `LockCorrect` | `LockProtects`: what was read under the lock stays true across the awaits |
| `NoRuntimeLeaks` | `NoLeakedRuntime` |
| `RecordsCorrect` | `RecordsComplete` |
| `ForgettersCorrect` | `NoOneForgotten`: a session without a runtime has no records, or someone is on the way to delete them |
| `RegistryConsistent` | `Consistent`, with `NoOrphanRecords` |
| `AnswersOwnAccount` | the action property `AnsweredFromOwnAccount` |
| `CachedAliveHolds` | `CachedAlive`: a cached runtime runs, or the holder of the lock retires it |
| `AnswersWithLiveRuntime` | the action property `AnsweredWithLive` |

`LockProtects` is the strengthening the others rest on: a creator may overwrite nothing
when it registers, and the runtime a retiring request stops is the only one it
can remove from the cache, because only holders of the lock add to it.

`NoOrphanRecords` speaks of quiet states only and is not inductive; `NoOneForgotten`
says who, in the other states, still has the deletion of the records before it. `CachedAlive`
adds that a runtime is cached for the session it was built for only, and that the
runtime a `stop_session` or an eviction awaits is out of the cache for good; hence nobody stops what is
handed out, but for a retirement under the lock.

`ChatTurns_proofs` proves, for any number of requests, jobs, aborts and unread events and any
choice of circumstances:

| Theorem | Establishes |
|---|---|
| `Invariance` | the inductive invariant |
| `ChatConsistent` | `Consistent`: `OneReader`, `ReaderIsWired`, `NoForgottenDrain` |
| `SettledByOwnTurnHolds` | `SettledByOwnTurn` |

The code has no queue of drains: it has a lock, one slot for the last released drain, and
in each drain the one it awaits. The invariant says that these make a queue nevertheless.
There is an order `ahead` of the drains that are still to read such that
the first reads or may, each other awaits the one just before it, the lock names the last, and
the slot the last but the lock (`Linear`, `Queued`, `Slots`). The fault of the circumstance `rush`, a drain
released before its first step that then awaits itself, is part of it: from the first such
drain on all are `stuck`, and none of them reads. Hence at most one drain reads. In the plain courses the
turns begin in this order and the events lie in it, each turn's up to its closing one
(`TurnsInOrder`, `EventsInOrder`), so what a drain reads is of its own turn. With overlapping sends or jobs there is
no such queue, and nothing but types is claimed. TLC checked the invariant, with `ahead` and
`stuck` found by enumeration, in all 1 071 344 states of `chat_safety`.

`TurnSlots_proofs` proves, for any messages, commands, threads and interrupts:

| Theorem | Establishes |
|---|---|
| `Invariance` | the inductive invariant |
| `SlotsConsistent` | `Consistent`: `SlotHasOwner` |
| `OneTurnPerThreadHolds` | `OneTurnPerThread` |
| `InterruptHitsNamedHolds` | `InterruptHitsNamed` |
| `OwnVerdictHolds` | `OwnVerdict` |

In whatever circumstances a submission is queued once and has no task before it is taken
(`QueuedOnce`), and what TaskRunner names is running (`Named`). On one thread without failures and time-outs the slot
is held from the reservation until the drain has read the end of the turn
(`SlotHeld`), so there is at most one unread end (`EndIsRead`); and a turn that an AbortTurn in the line
does not name is behind it (`InterruptAhead`), so by the time that turn is active the AbortTurn has gone.

`Approvals_proofs` proves, for any number of calls, keys, threads, aborts and edits of the permanent list
and for both behaviours of `asyncio.wait_for`:

| Theorem | Establishes |
|---|---|
| `Invariance` | the inductive invariant |
| `ApprovalsConsistent` | `Consistent`: `AbortStops`, `DeniedIsTold`, `NothingLeftBehind` |
| `RunsOnlyIfAllowedHolds` | `RunsOnlyIfAllowed` |
| `AnswerDecidesHolds` | `AnswerDecides`, but for a failed write and, from 3.12, a time-out in the same moment |
| `LedgerAgreesHolds` | `LedgerAgrees`: one decision in the ledger, and the same one told, or not told yet, or lost |

The invariant is a statement about one call, for every call: what each await of `execute` implies of the
future, the registers, the cancellation under way and what has been said (`Unregistered`, `Stages`,
`Cancellation`, `Settlement`, `Said`, `Ended`). A step of one call leaves what is known of the
others alone (`Frame`); the user's answer, the time limit and the sweep are the steps
at which two parties meet in one call.

`Agents_proofs` proves, for any finite set of agents, any limit and any number of
restarts:

| Theorem | Establishes |
|---|---|
| `IInvHolds` | the inductive invariant |
| `AgentsConsistent` | `Consistent`: rows follow jobs, no zombie, slots freed |
| `ReportsAreTrue` | `ReportTrue` |
| `LimitKept` | `AtMostMaxRun` |

`LimitKept` is an argument about cardinality: the tasks that run
unbidden are among the agents that occupy a slot, and a spawn adds one only when
those are fewer than the limit. The invariant relates the spawn's progress, the registry, the
task and the row of each agent; a restart re-establishes it because it clears everything but the rows.

`Gateway_proofs` proves, for any senders, jobs and bounds:

| Theorem | Establishes |
|---|---|
| `OneShotsRunOnce` | `OneShotOnce`, across crashes, overlaps and torn files |
| `WantedJobsKept` | `JobsKept` |
| `MemoryIsSaved` | `RunsWanted` and `SavedIsTrue` |
| `AnswerIsOwnHolds` | `AnswerIsOwn` |
| `GatewayConsistent` | `Consistent`, with `NeverCatchesUp` |

Every step of the gateway is a step of `Cron` or leaves its variables alone, and likewise one of `Asks`, so the
two halves are proved apart. A one-shot job that has begun is `elapsed`
and, but while it is executed, is not both enabled and due a next run in memory (`Spent`), and no
store loaded afterwards gives it one; the other two follow the wanted jobs through
file, memory and copy while no mishap has happened. Of the asks, each caller is in the line once and
only its head reads (`InLine`); turns and unread events are as many as the
asks given up, and one more while someone reads (`Counted`); with none given up that one is the reader's (`Owned`).

`Bridge_proofs` proves, for any number of processes, requests and streams:

| Theorem | Establishes |
|---|---|
| `Invariance` | the inductive invariant |
| `BridgeConsistent` | `Consistent`: `PendingOfCurrent`, `RunningServes` |
| `NoOrphanHolds` | `NoOrphan` |
| `StopIsFinalHolds` | `StopIsFinal` |

There is one `stop()` under way, of the process that is held (`OneStop`). As long as no `start()` has spawned
during the wait of `restart()`, whoever waits for a stop finds a bridge that is down (`OneAtATime`), and what a spawn
replaces is gone or has been told to stop and nobody waits for its answer (`SafeToReplace`). As long as no
`stop()` has met a restart or joined another in front of a waiting `start()`, no start that is on its way after
`stop()` may still spawn (`Unwanted`). TLC checked this with three processes.

Only model-checked: the liveness properties (`TurnsServed`, `AbortsOvertakeTurn`, `StopReturns`,
`EverySendSettled`, `LockIsFreed`, `RequestsReturn`, `Progress` of `TurnSlots` and of `Gateway`, `EveryCallEnds`, `HungJobEnds`,
`StartReturns`), since liveness under fairness is beyond the prover, and the two violations, which need no proof.

## 13. Where the code differs from what it says

Two are violation runs; `PROJECT.json` (`findings`) quotes the lines.

| Run | What happens |
|---|---|
| `session_drop` | a submission the getter fetches while the loop, reporting the error of a turn or a command, is blocked in the put of the event is dropped |
| `bridge_deferred` | a restart put off because of pending requests is not made up for when the last of them ends by its response or its time-out |

The models show more of the kind. Each is an exception some property names; take it away
and TLC prints the behaviour.

*RuntimeSession.*
On Python 3.11 `stop()` may cancel the idle loop just after its `get()` is done: `wait_for` (`session.py:513`)
swallows the cancellation, the turn begins all the same and outlives `stop()`, which is to "Cancel active turn task if
still running" (272): exception in `StopReapsTurns`.
While the loop awaits a cancelled turn that goes on, a second AbortTurn stays in
the queue (exception in `AbortsOvertakeTurn`). An AbortTurn taken by the idle
loop leaves a shell command running; a shell command that arrives as the turn
ends is cancelled before it runs; one spawned while `stop()` awaits others outlives it
(`session.py:269`; `test_runtime_session.py:575` expects none).

*ChatTurns.*
The TurnCompleteEvent after an ErrorEvent settles the next request (circumstance
`error`; `loop.py:1650`, the comment at 1615 wants a clean queue). Two sends
pass the check for a running turn (`overlap`; the check at 1277, an await at
1313). A drain released before its first step waits for itself (`rush`;
914, against the docstring at 879). An abort the turn does not report lets its
drain answer with the next turn's message (`mute`). A drain force-released while it
waits ends without a terminal message (`stale`). A recoverable warning settles the
request while its turn goes on (`warning`). A job drain takes the lock from a running
chat, and both read the queue (`job`; the docstring at 1001-1003 says the drain lets a running chat
finish first and neither consumes the other's events, but it waits only for a *released*
one): the chat's answer may be read by the job's drain, which is mute, and
the request is settled by the idle time-out, as an error. A job's turn puts no event
that ends a drain, so its drain keeps the lock until that time-out or a stale
take-over, though the docstring (1005) says it ends with the job's turn.

*SessionRegistry.*
A session created again during an older `stop_session` loses its records and is
handed to another account (`overtaken`; `app_server.py:448`, docstring at 383). A
request that comes while a foreign runtime is being retired, after the
account came back, still gets that runtime (exception in `AnsweredWithLive`).

*TurnSlots.* With two threads in one session, with a failed turn or a time-out, a slot is given away while its
turn goes on, a turn's end is reported by another turn's event, and an interrupt may cancel
another thread's turn.

*Approvals.* A grant taken back from the permanent list is still used by the engine
of a running session (`command_approval.py:233-240` says removed patterns take effect
without restart). A cancelled call may leave its card without a resolution; a sweep of a call
that has been answered resolves it a second time; from 3.12 an answer given in the moment
of the time-out is shown as accepted and the call is denied. On a full event queue a call may run, write its ledger
item and end before the frontend is told of the answer, and is not told at all if AbortTurn cancels an
`ApprovalResponse` that waits (`unsaid`, `lost`). A ledger write that fails after the answer makes the allowed call an error.

*Agents.* A job that ends before its spawn has returned is never announced and keeps
its slot (`hasty`; the comment at `agent_control.py:162-166` says the state is THINKING
as soon as spawn registers the agent, it is IDLE until 244). A killed job that absorbs the
cancellation ends as completed; the kill of a completed agent raises before it reports.
Queued jobs are not started after a restart.

*Asks, Cron.* After the first ask given up every later answer is that of an
earlier message (the docstring of `ask` says it drains to *its* answer). Changes made
while the gateway runs never reach it and are overwritten (`overlap`). A file cut off loads as
an empty store, which is saved (`torn`). A one-shot job whose time passes while the gateway is down
never runs and stays enabled. The desktop's `cron.run` marks a job "ok" without
running it.

*Bridge.* A `start()` during the wait of `restart()` spawns at once, though the comment at 854 wants the old process gone
before a replacement starts, and leaves a process nobody holds once `restart()` goes on; a `stop()`
there is undone by the restart. Called as stop, start, stop, the second `stop()` joins the first
(692-695) and returns, while the `start()` that waited for it starts the bridge; an initialize answered after `stop()` sets the state
to running again until the process exits; a `stop()` within the first 250 ms ends in the error state.

## 14. What is not modelled

Of the modelled components:

- *RuntimeSession*: starting a stopped session again, and the part of `stop()` that runs after
  the tasks are gone (hooks, MCP connections, ledger). `SteerTurn` is
  modelled because the loop handles it, though nothing in `src/` submits it outside the handlers.
- *ChatTurns*: the error paths of `chat.send` before it submits (unknown session,
  authorisation, attachments); the billing emitter; the text and metadata of events. `TurnService` lets AbortTurn
  leave the line whatever it does to the turn, and `Begin` starts a turn
  and emits its first event in one step.
- *TurnSlots*: `turn/steer`, compact, inject_items, events that end no turn.
- *Approvals*: the choice of a sandbox and the retry outside it, hooks that modify a call,
  schema validation, patterns over command text; the cancellation of a sweep by `stop()` of the session. Nothing in
  `src/` submits an `ApprovalResponse` outside the tests; TaskRunner handles it, so its event is modelled.
- *Agents*: fork (a spawn with copied messages), `_run_agent` (services.py always wires an
  `AgentJobRuntime`), edges between agents, listing, a second runtime on the same database.
- *Cron*: `cron.update` (it may turn a one-shot job into a recurring one, so that the two kinds
  would no longer be constants), `delete_after_run`, which only an unwired tool sets, invalid expressions, a clock
  that goes back, torn writes of other processes. `agent_cmd.py` uses the same loop as the gateway.
- *Bridge*: the `error` event of a spawn, failing writes, notifications and log tracing.

Some hazards in `PROJECT.json` are marked out rather than prevented: the code takes no precaution, and
the properties that name them hold up to that case and say so (the reader left over by overlapping sends, the runtime
handed out while it is retired, the hasty job, two threads of one session, two stores in use at once, the crossings of the bridge).

Left out altogether, with the reasons in `PROJECT.json`. The repository has about a hundred
thousand lines of implementation; what is modelled is the small part of it in which several
actors meet. The rest is of four kinds. Tools over files, documents, downloads and shells (`miqi/agent/tools`,
`miqi/documents`): one call, input to output, whose correctness lies in formats and text.
The sandbox (`miqi/sandbox`): arguments and plumbing of processes. Handlers without an
await between reading and writing (`file_handlers.py`, settings, plugins): nothing to interleave.
The renderer: presentation. The provider/tool loop of `TurnRunner` is sequential within a turn and
appears as the events it emits.

## 15. What could come next

`turn/steer` and compact in `TurnSlots`; the retry of a sandboxed call in `Approvals`;
`MessageBus` as the source of `Gateway`'s messages. Proofs: which of the exceptions are
needed, as sharper statements (what still holds of the asks once one is given up, message by message; what
`TurnSlots` keeps with two threads).
