--------------------------- MODULE RuntimeSession ---------------------------
(***************************************************************************)
(* The dispatch loop of miqi/runtime/session.py: RuntimeSession.           *)
(*                                                                         *)
(* Clients put submissions on an unbounded queue.  One asyncio task, _run, *)
(* takes them off: it starts a task for a turn, keeps what arrives while   *)
(* the turn runs in _pending, runs shell commands beside the turn as       *)
(* auxiliary tasks, and cancels everything on AbortTurn.  Every task       *)
(* writes to one bounded event queue, where a put waits for room.          *)
(*                                                                         *)
(* An asyncio program is interleaved only where it awaits.  pc names the   *)
(* await the loop is suspended at; at "top" and "handle" the loop holds    *)
(* the event loop, and no other action is enabled (Yielded).               *)
(***************************************************************************)
EXTENDS Naturals, Sequences, FiniteSets, Functions

CONSTANTS
    Turn,       \* submissions that run as a turn: UserMessage, CompactCommand, ...
    Shell,      \* RunUserShellCommand submissions
    Abort,      \* AbortTurn submissions
    Steer,      \* SteerTurn submissions
    NoSub,      \* "no submission"
    EventCap,   \* maxsize of the event queue (4096 in the code)
    Pythons     \* interpreter versions: "3.11", and "3.12" for every later one

Sub == Turn \cup Shell \cup Abort \cup Steer

ASSUME SubKindsDisjoint ==
    /\ Turn \cap (Shell \cup Abort \cup Steer) = {}
    /\ Shell \cap (Abort \cup Steer) = {}
    /\ Abort \cap Steer = {}
ASSUME NoSubIsNone == NoSub \notin Sub
ASSUME EventCapPositive == EventCap \in Nat \ {0}

VARIABLES
    submissions,    \* self._submissions
    pending,        \* self._pending
    active,         \* self._active_turn_task, by the submission it handles
    aux,            \* self._pending_aux_tasks
    task,           \* state of the asyncio task that handles each submission
    events,         \* number of events in self._events
    pc,             \* where _run is
    getter,         \* get_task, or wait_for's: none, "waiting" on the queue, or "done"
    held,           \* the submission a finished get_task holds
    watched,        \* aux_snapshot of the current wait
    batch,          \* the finished tasks of this wait not yet looked at
    aborting,       \* cancelled_task of the AbortTurn being handled
    stop,           \* progress of stop()
    reaped,         \* the tasks stop() awaits, besides the loop
    missed,         \* history: the submission whose get() swallowed stop()'s cancel
    python,         \* the interpreter's version: what cancelling wait_for does
    accepted,       \* history: every submission, in the order of submit()
    begun,          \* history: the submissions run as turns, in order
    handled,        \* history: the submissions handled without a task
    lost,           \* history: the submissions taken off the queue and dropped
    abortedBy       \* history: the AbortTurn that cancelled a turn

loopVars == <<pc, getter, held, watched, batch, aborting>>
stopVars == <<stop, reaped, missed, python>>
histVars == <<accepted, begun, handled, lost, abortedBy>>
queueVars == <<submissions, pending>>
taskVars == <<active, aux, task>>
vars == <<queueVars, taskVars, events, loopVars, stopVars, histVars>>

-----------------------------------------------------------------------------
(* Tasks                                                                   *)

\* "ready" has not run its first step; "killed" was cancelled again while
\* it was cleaning up; "unstarted" was cancelled before its first step, so
\* its handler never ran.
AliveStates == {"ready", "running", "cancelling", "killed"}
EndStates == {"completed", "failed", "cancelled", "unstarted"}
TaskStates == {"none"} \cup AliveStates \cup EndStates

Alive(s) == task[s] \in AliveStates
Ended(s) == task[s] \in EndStates

CancelOf(st) == IF st = "ready" THEN "unstarted"
                ELSE IF st = "running" THEN "cancelling"
                ELSE IF st = "cancelling" THEN "killed"
                ELSE st

\* Task.cancel() on every member of S.
Cancelled(S) == [s \in Sub |-> IF s \in S THEN CancelOf(task[s]) ELSE task[s]]

NoBatch == [turn |-> FALSE, get |-> FALSE, aux |-> {}]

LoopStates == {"top", "idle", "fetched", "idleNotice", "wait", "handle", "turnPut", "auxPut",
               "turnGather", "abortGather", "abortAwait", "notice", "exited"}

Yielded == pc \notin {"top", "handle"}
HasRoom == events < EventCap

Init ==
    /\ submissions = <<>> /\ pending = <<>>
    /\ active = NoSub /\ aux = {} /\ task = [s \in Sub |-> "none"]
    /\ events = 0
    /\ pc = "top" /\ getter = "none" /\ held = NoSub /\ watched = {}
    /\ batch = NoBatch /\ aborting = NoSub
    /\ stop = "run" /\ reaped = {} /\ missed = NoSub /\ python \in Pythons
    /\ accepted = <<>> /\ begun = <<>> /\ handled = {} /\ lost = {}
    /\ abortedBy = [s \in Sub |-> NoSub]

-----------------------------------------------------------------------------
(* The clients of the session                                              *)

\* submit(): an unbounded put, which never waits.
Submit(s) ==
    /\ Yielded
    /\ s \notin Range(accepted)
    /\ submissions' = Append(submissions, s)
    /\ accepted' = Append(accepted, s)
    /\ UNCHANGED <<pending, taskVars, events, loopVars, stopVars,
                   begun, handled, lost, abortedBy>>

\* next_event(): whoever drains the session takes one event.
NextEvent ==
    /\ Yielded
    /\ events > 0
    /\ events' = events - 1
    /\ UNCHANGED <<queueVars, taskVars, loopVars, stopVars, histVars>>

-----------------------------------------------------------------------------
(* A task running TaskRunner.handle(submission)                            *)

SetTask(s, st) == task' = [task EXCEPT ![s] = st]

Start(s) ==
    /\ Yielded /\ task[s] = "ready"
    /\ SetTask(s, "running")
    /\ UNCHANGED <<queueVars, active, aux, events, loopVars, stopVars, histVars>>

\* A streamed event; the put waits while the queue is full.
Emit(s) ==
    /\ Yielded /\ task[s] = "running" /\ HasRoom
    /\ events' = events + 1
    /\ UNCHANGED <<queueVars, taskVars, loopVars, stopVars, histVars>>

\* The handler returns after putting its closing event.
Complete(s) ==
    /\ Yielded /\ task[s] = "running" /\ HasRoom
    /\ SetTask(s, "completed")
    /\ events' = events + 1
    /\ UNCHANGED <<queueVars, active, aux, loopVars, stopVars, histVars>>

\* An exception escapes the handler, or the clean-up after a cancellation.
Fail(s) ==
    /\ Yielded /\ task[s] \in {"running", "cancelling"}
    /\ SetTask(s, "failed")
    /\ UNCHANGED <<queueVars, active, aux, events, loopVars, stopVars, histVars>>

\* The orchestrator turns a cancellation that lands in a tool call into a
\* tool result, and the handler goes on.
Absorb(s) ==
    /\ Yielded /\ task[s] = "cancelling"
    /\ SetTask(s, "running")
    /\ UNCHANGED <<queueVars, active, aux, events, loopVars, stopVars, histVars>>

\* A cancelled handler ends: a message's turn puts TurnAbortedEvent first.
EndCancelled(s) ==
    /\ Yielded /\ task[s] \in {"cancelling", "killed"}
    /\ IF s \in Turn /\ task[s] = "cancelling"
       THEN HasRoom /\ events' = events + 1
       ELSE UNCHANGED events
    /\ SetTask(s, "cancelled")
    /\ UNCHANGED <<queueVars, active, aux, loopVars, stopVars, histVars>>

\* get_task takes the head of the queue, wherever the loop is suspended.
GetterTakes ==
    /\ Yielded /\ getter = "waiting" /\ submissions # <<>>
    /\ getter' = "done"
    /\ held' = Head(submissions)
    /\ submissions' = Tail(submissions)
    /\ UNCHANGED <<pending, taskVars, events, pc, watched, batch, aborting,
                   stopVars, histVars>>

-----------------------------------------------------------------------------
(* _run: no turn is active                                                 *)

ExitTooLate ==  \* mutant: the loop looks for the end of stop(), not its start
    /\ pc = "top" /\ stop = "stopped"
    /\ pc' = "exited"
    /\ UNCHANGED <<queueVars, taskVars, events, getter, held, watched, batch,
                   aborting, stopVars, histVars>>

\* while not self._stopped.is_set()
Exit ==
    /\ pc = "top" /\ stop # "run"
    /\ pc' = "exited"
    /\ UNCHANGED <<queueVars, taskVars, events, getter, held, watched, batch,
                   aborting, stopVars, histVars>>

\* Nothing to do: wait_for(self._submissions.get(), 0.5).
GoIdle ==
    /\ pc = "top" /\ stop = "run" /\ active = NoSub
    /\ pending = <<>> /\ submissions = <<>>
    /\ pc' = "idle"
    /\ UNCHANGED <<queueVars, taskVars, events, getter, held, watched, batch,
                   aborting, stopVars, histVars>>

\* The wait times out; only a stopped session does anything about it.
IdleTimeout ==
    /\ pc = "idle" /\ stop # "run"
    /\ pc' = "top"
    /\ UNCHANGED <<queueVars, taskVars, events, getter, held, watched, batch,
                   aborting, stopVars, histVars>>

\* With no turn to act on, AbortTurn and SteerTurn only put an event;
\* anything else becomes the turn.
Dispatch(s) ==
    /\ IF s \in Abort \cup Steer
       THEN /\ pc' = "idleNotice"
            /\ handled' = handled \cup {s}
            /\ UNCHANGED <<active, task, begun>>
       ELSE /\ pc' = "top"
            /\ active' = s
            /\ SetTask(s, "ready")
            /\ begun' = Append(begun, s)
            /\ UNCHANGED handled
    /\ UNCHANGED <<aux, events, watched, batch, aborting, stopVars, accepted, lost,
                   abortedBy>>

TakePendingPeeks ==  \* mutant: _pending[0] instead of _pending.pop(0)
    /\ pc = "top" /\ stop = "run" /\ active = NoSub /\ pending # <<>>
    /\ UNCHANGED <<queueVars, getter, held>>
    /\ Dispatch(Head(pending))

TakePending ==
    /\ pc = "top" /\ stop = "run" /\ active = NoSub /\ pending # <<>>
    /\ pending' = Tail(pending)
    /\ UNCHANGED <<submissions, getter, held>>
    /\ Dispatch(Head(pending))

TakeSubmissionFirst ==  \* mutant: the queue before _pending
    /\ \/ pc = "top" /\ stop = "run" /\ active = NoSub
       \/ pc = "idle" /\ python = "3.12"
    /\ submissions # <<>>
    /\ submissions' = Tail(submissions)
    /\ UNCHANGED <<pending, getter, held>>
    /\ Dispatch(Head(submissions))

\* get_nowait(), or the idle wait where wait_for runs get() in _run itself.
TakeSubmission ==
    /\ \/ pc = "top" /\ stop = "run" /\ active = NoSub /\ pending = <<>>
       \/ pc = "idle" /\ python = "3.12"
    /\ submissions # <<>>
    /\ submissions' = Tail(submissions)
    /\ UNCHANGED <<pending, getter, held>>
    /\ Dispatch(Head(submissions))

\* Python 3.11's wait_for runs get() in a task of its own, which is done
\* before _run goes on.
IdleFetch ==
    /\ pc = "idle" /\ python = "3.11" /\ submissions # <<>>
    /\ pc' = "fetched" /\ getter' = "done"
    /\ held' = Head(submissions)
    /\ submissions' = Tail(submissions)
    /\ UNCHANGED <<pending, taskVars, events, watched, batch, aborting, stopVars,
                   histVars>>

\* wait_for returns what get() fetched, even to a loop cancelled meanwhile.
TakeFetched ==
    /\ pc = "fetched" /\ getter = "done"
    /\ getter' = "none" /\ held' = NoSub
    /\ UNCHANGED queueVars
    /\ Dispatch(held)

-----------------------------------------------------------------------------
(* _run: a turn is active                                                  *)

\* A new get_task, and the wait on it, the turn and the auxiliary tasks.
EnterWait ==
    /\ pc = "top" /\ stop = "run" /\ active # NoSub
    /\ pc' = "wait" /\ getter' = "waiting" /\ watched' = aux
    /\ UNCHANGED <<queueVars, taskVars, events, held, batch, aborting, stopVars,
                   histVars>>

Finished == [turn |-> active # NoSub /\ Ended(active),
             get  |-> getter = "done",
             aux  |-> {s \in watched : Ended(s)}]

Wake ==
    /\ pc = "wait" /\ Finished # NoBatch
    /\ batch' = Finished
    /\ pc' = "handle"
    /\ UNCHANGED <<queueVars, taskVars, events, getter, held, watched, aborting,
                   stopVars, histVars>>

CancelGetter == getter' = IF getter = "waiting" THEN "none" ELSE getter

\* _cancel_aux_tasks(): cancel, then wait at gather unless there is nothing
\* to wait for.
CancelAux(alsoCancel, gather, next) ==
    /\ task' = Cancelled(aux \cup alsoCancel)
    /\ pc' = IF aux = {} THEN next ELSE gather

\* An AbortTurn looked at earlier in this batch cleared the turn already.
TurnAlreadyCleared ==
    /\ pc = "handle" /\ batch.turn /\ active = NoSub
    /\ batch' = [batch EXCEPT !.turn = FALSE]
    /\ CancelGetter
    /\ UNCHANGED <<queueVars, taskVars, events, pc, held, watched, aborting,
                   stopVars, histVars>>

TurnOverNotCleared ==  \* mutant: _active_turn_task stays set
    /\ pc = "handle" /\ batch.turn /\ active # NoSub
    /\ task[active] = "failed" => HasRoom
    /\ events' = IF task[active] = "failed" THEN events + 1 ELSE events
    /\ batch' = [batch EXCEPT !.turn = FALSE]
    /\ CancelGetter
    /\ CancelAux({}, "turnGather", "handle")
    /\ UNCHANGED <<queueVars, active, aux, held, watched, aborting, stopVars, histVars>>

\* The turn is over: clear it, report a crash, cancel what ran beside it.
TurnOver ==
    /\ pc = "handle" /\ batch.turn /\ active # NoSub
    /\ task[active] = "failed" => HasRoom
    /\ events' = IF task[active] = "failed" THEN events + 1 ELSE events
    /\ batch' = [batch EXCEPT !.turn = FALSE]
    /\ active' = NoSub
    /\ CancelGetter
    /\ CancelAux({}, "turnGather", "handle")
    /\ UNCHANGED <<queueVars, aux, held, watched, aborting, stopVars, histVars>>

\* The report has to wait for room: get_task is still open meanwhile.
TurnReportBlocked ==
    /\ pc = "handle" /\ batch.turn /\ active # NoSub
    /\ task[active] = "failed" /\ ~HasRoom
    /\ batch' = [batch EXCEPT !.turn = FALSE]
    /\ active' = NoSub
    /\ pc' = "turnPut"
    /\ UNCHANGED <<queueVars, aux, task, events, getter, held, watched, aborting,
                   stopVars, histVars>>

TurnReported ==
    /\ pc = "turnPut" /\ HasRoom
    /\ events' = events + 1
    /\ CancelGetter
    /\ CancelAux({}, "turnGather", "handle")
    /\ UNCHANGED <<queueVars, active, aux, held, watched, batch, aborting,
                   stopVars, histVars>>

-----------------------------------------------------------------------------
(* _run: a submission arrived during the turn                              *)

\* The branch that looks at get_task; its result is d.result().
Got(kind) ==
    /\ pc = "handle" /\ batch.get /\ held \in kind
    /\ batch' = [batch EXCEPT !.get = FALSE]
    /\ getter' = "none" /\ held' = NoSub

GotAbortDeferred ==  \* mutant: AbortTurn waits its turn like a message
    /\ Got(Abort) /\ active # NoSub
    /\ pending' = Append(pending, held)
    /\ UNCHANGED <<submissions, taskVars, events, pc, watched, aborting, stopVars,
                   histVars>>

\* AbortTurn with a turn: cancel it, whichever turn it is, and the shells.
GotAbort ==
    /\ Got(Abort) /\ active # NoSub
    /\ aborting' = active
    /\ CancelAux({active}, "abortGather", "abortAwait")
    /\ handled' = handled \cup {held}
    /\ abortedBy' = IF Alive(active) THEN [abortedBy EXCEPT ![active] = held]
                    ELSE abortedBy
    /\ UNCHANGED <<queueVars, active, aux, events, watched, stopVars, accepted,
                   begun, lost>>

GotLateAbortRequeues ==  \* mutant: nothing to abort yet, try again later
    /\ Got(Abort) /\ active = NoSub
    /\ submissions' = Append(submissions, held)
    /\ UNCHANGED <<pending, taskVars, events, pc, watched, aborting, stopVars,
                   histVars>>

\* AbortTurn after the turn ended in the same batch: TaskRunner's notice.
GotLateAbort ==
    /\ Got(Abort) /\ active = NoSub
    /\ CancelAux({}, "abortGather", "notice")
    /\ handled' = handled \cup {held}
    /\ UNCHANGED <<queueVars, active, aux, events, watched, aborting, stopVars,
                   accepted, begun, lost, abortedBy>>

\* SteerTurn is answered in place; one the runner refuses puts an event.
GotSteer ==
    /\ Got(Steer)
    /\ \/ active # NoSub /\ pc' = "handle"
       \/ pc' = "notice"
    /\ handled' = handled \cup {held}
    /\ UNCHANGED <<queueVars, taskVars, events, watched, aborting, stopVars,
                   accepted, begun, lost, abortedBy>>

GotShell ==
    /\ Got(Shell)
    /\ aux' = aux \cup {held}
    /\ SetTask(held, "ready")
    /\ UNCHANGED <<queueVars, active, events, pc, watched, aborting, stopVars,
                   histVars>>

GotTurn ==
    /\ Got(Turn)
    /\ pending' = Append(pending, held)
    /\ UNCHANGED <<submissions, taskVars, events, pc, watched, aborting, stopVars,
                   histVars>>

\* The end of _cancel_aux_tasks(); a loop that stop() cancelled exits here.
Gathered ==
    /\ pc \in {"turnGather", "abortGather"}
    /\ \A s \in aux : Ended(s)
    /\ IF stop \in {"cancelled", "stopped"}
       THEN pc' = "exited" /\ UNCHANGED aux
       ELSE /\ aux' = {}
            /\ pc' = IF pc = "turnGather" THEN "handle"
                     ELSE IF aborting = NoSub THEN "notice" ELSE "abortAwait"
    /\ UNCHANGED <<queueVars, active, task, events, getter, held, watched, batch,
                   aborting, stopVars, histVars>>

AbortDoneAtOnce ==  \* mutant: the cancelled turn is not awaited
    /\ pc = "abortAwait"
    /\ active' = IF active = aborting THEN NoSub ELSE active
    /\ aborting' = NoSub
    /\ pc' = "handle"
    /\ UNCHANGED <<queueVars, aux, task, events, getter, held, watched, batch,
                   stopVars, histVars>>

\* _await_cancelled_turn_task(), then clear the turn.
AbortDone ==
    /\ pc = "abortAwait" /\ Ended(aborting)
    /\ task[aborting] = "failed" => HasRoom
    /\ events' = IF task[aborting] = "failed" THEN events + 1 ELSE events
    /\ active' = IF active = aborting THEN NoSub ELSE active
    /\ aborting' = NoSub
    /\ pc' = "handle"
    /\ UNCHANGED <<queueVars, aux, task, getter, held, watched, batch, stopVars,
                   histVars>>

\* The event of a TaskRunner.handle() the loop awaits in place.
NoticePut ==
    /\ pc \in {"notice", "idleNotice"} /\ HasRoom
    /\ events' = events + 1
    /\ pc' = IF pc = "notice" THEN "handle" ELSE "top"
    /\ UNCHANGED <<queueVars, taskVars, getter, held, watched, batch, aborting,
                   stopVars, histVars>>

-----------------------------------------------------------------------------
(* _run: an auxiliary task finished                                        *)

AuxOver(s) ==
    /\ pc = "handle" /\ s \in batch.aux
    /\ batch' = [batch EXCEPT !.aux = @ \ {s}]
    /\ \/ /\ s \notin aux
          /\ CancelGetter
          /\ UNCHANGED <<aux, events, pc>>
       \/ /\ s \in aux
          /\ aux' = aux \ {s}
          /\ IF task[s] = "failed"
             THEN IF HasRoom THEN events' = events + 1 /\ UNCHANGED pc
                             ELSE pc' = "auxPut" /\ UNCHANGED events
             ELSE UNCHANGED <<events, pc>>
          /\ UNCHANGED getter
    /\ UNCHANGED <<queueVars, active, task, held, watched, aborting, stopVars,
                   histVars>>

AuxReported ==
    /\ pc = "auxPut" /\ HasRoom
    /\ events' = events + 1
    /\ pc' = "handle"
    /\ UNCHANGED <<queueVars, taskVars, getter, held, watched, batch, aborting,
                   stopVars, histVars>>

\* Every finished task is dealt with.  A get_task still waiting is
\* cancelled; one that finished since is forgotten, with what it holds.
BatchOver ==
    /\ pc = "handle" /\ batch = NoBatch
    /\ pc' = "top"
    /\ getter' = "none" /\ held' = NoSub
    /\ lost' = IF getter = "done" THEN lost \cup {held} ELSE lost
    /\ UNCHANGED <<queueVars, taskVars, events, watched, batch, aborting,
                   stopVars, accepted, begun, handled, abortedBy>>

-----------------------------------------------------------------------------
(* stop()                                                                  *)

\* _stopped is set and the auxiliary tasks are cancelled and awaited.
StopReaps ==
    /\ Yielded /\ stop = "run" /\ aux # {}
    /\ stop' = "reaping"
    /\ reaped' = aux
    /\ task' = Cancelled(aux)
    /\ UNCHANGED <<queueVars, active, aux, events, loopVars, missed, python, histVars>>

Current == {active} \ {NoSub}

\* The loop and the active turn are cancelled, and both are awaited.
\* Cancelling the loop while it awaits other tasks cancels those and leaves
\* it waiting for them; where a get() is already done it has no effect.
StopCancels ==
    /\ Yielded
    /\ \/ stop = "run" /\ aux = {}
       \/ stop = "reaping" /\ \A s \in reaped : Ended(s)
    /\ stop' = "cancelled"
    /\ aux' = aux \ reaped
    /\ pc' = IF pc \in {"abortAwait", "turnGather", "abortGather", "fetched"} THEN pc
             ELSE "exited"
    /\ task' = Cancelled(Current \cup (IF pc \in {"turnGather", "abortGather"} THEN aux
                                      ELSE {}))
    /\ reaped' = {s \in Current : Alive(s)}
    /\ missed' = IF pc = "fetched" THEN held ELSE NoSub
    /\ UNCHANGED <<queueVars, active, events, getter, held, watched, batch,
                   aborting, python, histVars>>

StopDoneAtExit ==  \* mutant: the cancelled turn is not awaited
    /\ stop = "cancelled" /\ pc = "exited"
    /\ stop' = "stopped"
    /\ UNCHANGED <<queueVars, taskVars, events, loopVars, reaped, missed, python,
                   histVars>>

\* gather() knows the turn that was active when the loop was cancelled, and
\* no turn the loop has begun since.
StopDone ==
    /\ stop = "cancelled" /\ pc = "exited"
    /\ \A s \in reaped : Ended(s)
    /\ stop' = "stopped"
    /\ UNCHANGED <<queueVars, taskVars, events, loopVars, reaped, missed, python,
                   histVars>>

-----------------------------------------------------------------------------
Client == NextEvent \/ \E s \in Sub : Submit(s)

TaskStep(s) == Start(s) \/ Emit(s) \/ Complete(s) \/ Fail(s) \/ Absorb(s)
                 \/ EndCancelled(s)

Loop ==
    \/ Exit \/ GoIdle \/ IdleTimeout \/ TakePending \/ TakeSubmission
    \/ IdleFetch \/ TakeFetched
    \/ EnterWait \/ Wake
    \/ TurnAlreadyCleared \/ TurnOver \/ TurnReportBlocked \/ TurnReported
    \/ GotAbort \/ GotLateAbort \/ GotSteer \/ GotShell \/ GotTurn
    \/ Gathered \/ AbortDone \/ NoticePut
    \/ (\E s \in Shell : AuxOver(s)) \/ AuxReported \/ BatchOver

Stop == StopReaps \/ StopCancels \/ StopDone

Next == Client \/ (\E s \in Sub : TaskStep(s)) \/ GetterTakes \/ Loop \/ Stop

Spec == Init /\ [][Next]_vars

(***************************************************************************)
(* Fairness.  The event loop runs every ready callback, so each task and   *)
(* the dispatch loop keep moving; a put that waits for room is served in   *)
(* turn, which is why the steps that put events are strongly fair.  A turn *)
(* ends by itself (iteration budget, provider timeouts).  NextEvent is     *)
(* fair while a client drains the session.  Submitting and stopping are    *)
(* the user's choice.                                                      *)
(***************************************************************************)
Scheduling ==
    /\ SF_vars(Loop)
    /\ WF_vars(GetterTakes)
    /\ WF_vars(stop # "run" /\ Stop)
    /\ WF_vars(NextEvent)

CleanUp(s) == Start(s) \/ EndCancelled(s)

\* A cancelled turn ends once its clean-up is not cut short by a tool.
CancelledEnd == \A s \in Turn \cup Shell : SF_vars(CleanUp(s))

\* Every turn ends by itself.
TurnsEnd == \A s \in Turn \cup Shell : SF_vars(CleanUp(s) \/ Complete(s))

\* Nothing makes a turn end except cancelling it.
FairSpec == Spec /\ Scheduling /\ CancelledEnd

-----------------------------------------------------------------------------
(* Invariants                                                              *)

\* The values every variable ranges over: only messages wait in _pending,
\* only shell commands run as auxiliary tasks, and the event queue never
\* exceeds its bound.
TypeOK ==
    /\ submissions \in Seq(Sub) /\ pending \in Seq(Turn)
    /\ active \in Turn \cup Shell \cup {NoSub} /\ aux \in SUBSET Shell
    /\ task \in [Sub -> TaskStates]
    /\ events \in 0..EventCap
    /\ pc \in LoopStates
    /\ getter \in {"none", "waiting", "done"}
    /\ held \in Sub \cup {NoSub} /\ (getter = "done" => held \in Sub)
    /\ watched \in SUBSET Shell
    /\ batch \in [turn : BOOLEAN, get : BOOLEAN, aux : SUBSET Shell]
    /\ aborting \in Turn \cup Shell \cup {NoSub}
    /\ stop \in {"run", "reaping", "cancelled", "stopped"}
    /\ reaped \in SUBSET (Turn \cup Shell) /\ missed \in Sub \cup {NoSub}
    /\ python \in Pythons
    /\ accepted \in Seq(Sub) /\ begun \in Seq(Turn \cup Shell)
    /\ handled \in SUBSET (Abort \cup Steer) /\ lost \in SUBSET Sub
    /\ abortedBy \in [Sub -> Abort \cup {NoSub}]

\* A task that is still alive, cleaning up included, is the active turn or a
\* registered auxiliary task: the loop never forgets a task it spawned, so
\* two turns never run at once and stop() can reach all of them.
LiveTasksOwned == \A s \in Sub : Alive(s) => s = active \/ s \in aux

Held == {held} \ {NoSub}

\* Everything a submission can be: waiting in a queue, held by get_task, run
\* as a task, handled in place, or dropped.
Places == << Range(submissions), Range(pending), Held,
             {s \in Sub : task[s] # "none"}, handled, lost >>

\* Every submission is in exactly one place, at most once in a queue.  None
\* is run twice and none vanishes unaccounted for, although submissions move
\* between two queues and a prefetching getter.
ExactlyOnePlace ==
    /\ IsInjective(submissions) /\ IsInjective(pending)
    /\ Range(accepted) = UNION {Places[i] : i \in 1..6}
    /\ \A i, j \in 1..6 : i # j => Places[i] \cap Places[j] = {}

\* r occurs before s in q; so do all of S before all of T; and the elements
\* of p occur in their order.
Before(q, r, s) == \E i, j \in DOMAIN q : i < j /\ q[i] = r /\ q[j] = s
Precede(q, S, T) == \A r \in S, s \in T : Before(q, r, s)
InOrder(q, p) == \A i, j \in DOMAIN p : i < j => Before(q, p[i], p[j])

\* Turns begin in the order their submissions were accepted, although they
\* pass through two queues and a prefetching getter ("FIFO").
TurnsBeginInOrder == InOrder(accepted, begun)

\* Until stop(), a turn is cancelled only by an AbortTurn submitted after
\* it, and no AbortTurn cancels two turns: a message sent right after a
\* stop is never killed by that stop (#542).
AbortsHitEarlierTurn ==
    /\ \A t \in Turn :
          task[t] \in {"cancelling", "killed", "cancelled", "unstarted"} =>
              \/ abortedBy[t] # NoSub /\ Before(accepted, t, abortedBy[t])
              \/ stop \in {"cancelled", "stopped"}
    /\ \A t, u \in Sub : abortedBy[t] = abortedBy[u] /\ t # u => abortedBy[t] = NoSub

\* When stop() returns no turn is alive, whatever the loop and the clients
\* did while it was waiting, but for one: the submission that the idle wait
\* had fetched when the loop was cancelled.  Under Python 3.11 wait_for hands
\* it over all the same, and its turn begins behind the back of stop().
StopReapsTurns == stop = "stopped" =>
    \A t \in Turn : Alive(t) => t = missed /\ python = "3.11"

(* The parts of the inductive invariant that say why those hold.           *)

\* The finished tasks still to be looked at really are over; the batch is
\* empty whenever the loop is outside it.
BatchTruthful ==
    /\ batch.turn /\ active # NoSub => Ended(active)
    /\ \A s \in batch.aux : Ended(s)
    /\ pc \in {"top", "idle", "fetched", "idleNotice", "wait"} => batch = NoBatch

\* An idle loop has nothing to run, a turn has a task, a stopped session has
\* no loop.
LoopLetsGo ==
    /\ active # NoSub => task[active] # "none"
    /\ pc \in {"idle", "fetched"} => active = NoSub /\ pending = <<>>
    /\ stop = "stopped" => pc = "exited"

\* Only Python 3.11 separates the get() from the loop; once the loop is
\* cancelled it is no longer idle, what it still holds is the submission
\* missed, and any other turn alive is awaited.
StopAwaits ==
    /\ pc = "fetched" \/ missed # NoSub => python = "3.11"
    /\ stop \in {"cancelled", "stopped"} =>
          /\ pc # "idle" /\ (pc = "fetched" => held = missed)
          /\ active # NoSub /\ Alive(active) => active = missed \/ active \in reaped

\* get_task holds a submission exactly when it is done, and there is no
\* get_task outside the waits and the handling of what it returned.
GetterHolds ==
    /\ (getter = "done") = (held # NoSub)
    /\ pc \in {"top", "idle", "idleNotice"} => getter = "none"
    /\ pc = "fetched" => getter = "done"

\* Turns begun, messages pending, the submission held and the queue form one
\* line, in the order of submit().
OneLine ==
    /\ InOrder(accepted, begun) /\ InOrder(accepted, pending)
    /\ InOrder(accepted, submissions)
    /\ Precede(accepted, Range(begun), Range(pending) \cup Held \cup Range(submissions))
    /\ Precede(accepted, Range(pending), Held \cup Range(submissions))
    /\ Precede(accepted, Held, Range(submissions))
    /\ Range(begun) \subseteq Range(accepted)
    /\ active # NoSub => active \in Range(begun)

\* An AbortTurn that cancelled a turn has been handled.
AbortersHandled == \A t \in Sub : abortedBy[t] # NoSub => abortedBy[t] \in handled

Bookkeeping ==
    BatchTruthful /\ LoopLetsGo /\ StopAwaits /\ GetterHolds /\ OneLine /\ AbortersHandled

\* No live task is out of the loop's reach or, but for the one missed,
\* outlives stop(), and what the loop and stop() note down is true of its
\* tasks.
Consistent == TypeOK /\ LiveTasksOwned /\ StopReapsTurns /\ Bookkeeping

-----------------------------------------------------------------------------
(* Action and liveness properties                                          *)

Accepted(s) == s \in Range(accepted)

\* Every accepted message is served while turns end by themselves: its turn
\* ends, unless the session is stopped or the message was dropped (see
\* NoSilentDrop).
TurnsServed == TurnsEnd => \A t \in Turn :
    Accepted(t) ~> (Ended(t) \/ t \in lost \/ stop # "run")

\* An AbortTurn does not wait for the turn it is meant to stop: even when
\* turns never end by themselves it is taken off the queue, unless the loop
\* already awaits a task that it has cancelled.
AwaitsCancelled == pc \in {"turnGather", "abortGather", "abortAwait"}
AbortsOvertakeTurn == \A a \in Abort :
    Accepted(a) ~> (a \in handled \/ a \in lost \/ stop # "run" \/ AwaitsCancelled)

\* stop() returns while turns end by themselves and some client still drains
\* the event queue.
StopReturns == TurnsEnd => ((stop # "run") ~> (stop = "stopped"))

-----------------------------------------------------------------------------
(* What the session implements (TurnService)                               *)

HeldSeq == IF held = NoSub THEN <<>> ELSE <<held>>

Service == INSTANCE TurnService WITH
    Message <- Turn,
    Command <- Shell \cup Abort \cup Steer,
    line <- pending \o HeldSeq \o submissions,
    served <- Range(begun),
    live <- {t \in Turn : Alive(t)}

\* The two queues and the prefetching getter behave as one line served from
\* its head, one live message turn at a time; only commands, and what the
\* getter drops, leave it from behind waiting messages.
ImplementsTurnService == Service!Spec

-----------------------------------------------------------------------------
(* What the comments and tests of the code say, which the code breaks      *)

\* session.py:497: what arrives during a turn is "processed after the
\* current turn completes (FIFO, no silent drops)".
NoSilentDrop == lost = {}
=============================================================================
