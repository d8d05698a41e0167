----------------------------- MODULE TurnSlots -----------------------------
(***************************************************************************)
(* turn/start, thread/shellCommand and turn/interrupt                      *)
(* (miqi/runtime/turn_app_handlers.py, shell_command_app_handlers.py) on   *)
(* one RuntimeSession.                                                     *)
(*                                                                         *)
(* A request reserves the slot of its thread, submits its turn and starts  *)
(* a drain that reads the session's events until one of them ends a turn;  *)
(* then the drain gives the slot back.  The slots are per thread; the turn *)
(* being run, the queue of events and AbortTurn are per session.           *)
(*                                                                         *)
(* What can go wrong outside the handlers is switched by circumstances,    *)
(* so that a property names the ones it survives.                          *)
(***************************************************************************)
EXTENDS Naturals, Sequences, FiniteSets, Functions

CONSTANTS
    Message,    \* turn/start requests
    Command,    \* thread/shellCommand requests
    Thread,
    Courses,    \* the sets of circumstances to look at
    MaxInterrupts   \* bound

\* "threads": requests of two threads; "error": a turn fails beyond recovery;
\* "quiet": no event for 300 seconds.
ASSUME CoursesAssumption == Courses \subseteq SUBSET {"threads", "error", "quiet"}
ASSUME BoundAssumption == MaxInterrupts \in Nat
ASSUME RequestsDisjoint == Message \cap Command = {}

Req == Message \cup Command
None == "none"
ASSUME NoneIsNoRequest == None \notin Req

VARIABLES
    thread,     \* the thread each request names
    phase,      \* where the handler of each request is
    reserved,   \* RuntimeSession._turn_reservations
    line,       \* RuntimeSession._submissions
    pending,    \* RuntimeSession._pending
    active,     \* the request whose turn is _active_turn_task
    aux,        \* _pending_aux_tasks
    aborting,   \* the loop waits for the turn it has cancelled
    task,       \* the asyncio task of each request's turn
    runner,     \* TaskRunner._active_turn_ids
    events,     \* the events that can end a drain
    drain,      \* the drain of each request
    verdict,    \* the event that ended it, or "quiet"
    hits,       \* history: <<turn named by an interrupt, turn cancelled by it>>
    interrupted,    \* history: bounds the interrupts, one of each turn
    circumstances

handlerVars == <<thread, phase, reserved, drain, verdict>>
sessionVars == <<line, pending, active, aux, aborting, task, runner, events>>
historyVars == <<hits, interrupted, circumstances>>
vars == <<handlerVars, sessionVars, historyVars>>

Run(r) == [does |-> "run", req |-> r]
Abort(r) == [does |-> "abort", req |-> r]

\* A turn has ended, and how.
Terminal == [of : Req, is : {"complete", "aborted", "fatal"}]

TypeOK ==
    /\ thread \in [Req -> Thread]
    /\ phase \in [Req -> {"new", "checking", "accepted", "beside", "refused", "failed"}]
    /\ reserved \in [Thread -> Req \cup {None}]
    /\ line \in Seq([does : {"run", "abort"}, req : Req])
    /\ pending \in Seq(Message)
    /\ active \in Req \cup {None} /\ aux \subseteq Command
    /\ aborting \in BOOLEAN
    /\ task \in [Req -> {None, "ready", "running", "cancelling", "done"}]
    /\ runner \in [Thread -> Req \cup {None}]
    /\ events \in Seq(Terminal)
    /\ drain \in [Req -> {None, "reading", "ended"}]
    /\ DOMAIN verdict = Req
    /\ \A r \in Req : verdict[r] \in Terminal \cup {[of |-> r, is |-> i] : i \in {None, "quiet"}}
    /\ hits \subseteq Req \X Req /\ interrupted \subseteq Req
    /\ circumstances \in Courses

Init ==
    /\ circumstances \in Courses
    /\ thread \in [Req -> Thread]
    /\ "threads" \in circumstances <=> \E r, q \in Req : thread[r] # thread[q]
    /\ phase = [r \in Req |-> "new"]
    /\ reserved = [t \in Thread |-> None] /\ runner = [t \in Thread |-> None]
    /\ line = <<>> /\ pending = <<>> /\ events = <<>>
    /\ active = None /\ aux = {} /\ aborting = FALSE
    /\ task = [r \in Req |-> None] /\ drain = [r \in Req |-> None]
    /\ verdict = [r \in Req |-> [of |-> r, is |-> None]]
    /\ hits = {} /\ interrupted = {}

-----------------------------------------------------------------------------
(* The handlers                                                            *)

\* RuntimeSession.active_turn_id
ActiveTurn(t) == IF runner[t] # None THEN runner[t] ELSE reserved[t]

\* try_reserve_turn refuses.
Taken(t) == runner[t] # None \/ reserved[t] # None

SetPhase(r, p) == phase' = [phase EXCEPT ![r] = p]

ReserveBlind(r) ==  \* mutant: only a turn that already runs is in the way
    /\ r \in Message /\ phase[r] = "new"
    /\ IF runner[thread[r]] # None
       THEN SetPhase(r, "refused") /\ UNCHANGED reserved
       ELSE SetPhase(r, "checking") /\ reserved' = [reserved EXCEPT ![thread[r]] = r]
    /\ UNCHANGED <<thread, drain, verdict, sessionVars, historyVars>>

\* turn/start reserves first, and then looks the thread up.
Reserve(r) ==
    /\ r \in Message /\ phase[r] = "new"
    /\ IF Taken(thread[r])
       THEN SetPhase(r, "refused") /\ UNCHANGED reserved
       ELSE SetPhase(r, "checking") /\ reserved' = [reserved EXCEPT ![thread[r]] = r]
    /\ UNCHANGED <<thread, drain, verdict, sessionVars, historyVars>>

\* thread/shellCommand looks the thread up before anything else.
LookUp(r) ==
    /\ r \in Command /\ phase[r] = "new"
    /\ SetPhase(r, "checking")
    /\ UNCHANGED <<thread, reserved, drain, verdict, sessionVars, historyVars>>

\* Submitted, with a drain; nothing is awaited from the look-up to here.
Accept(r) ==
    /\ SetPhase(r, "accepted")
    /\ line' = Append(line, Run(r))
    /\ drain' = [drain EXCEPT ![r] = "reading"]

Start(r) ==
    /\ r \in Message /\ phase[r] = "checking"
    /\ Accept(r)
    /\ UNCHANGED <<thread, reserved, verdict, pending, active, aux, aborting, task,
                   runner, events, historyVars>>

StartFailsKeepingSlot(r) ==  \* mutant: the slot of a failed start leaks
    /\ phase[r] = "checking"
    /\ SetPhase(r, "failed")
    /\ UNCHANGED <<thread, reserved, drain, verdict, sessionVars, historyVars>>

\* The thread does not exist, or the request is cancelled at the look-up.
StartFails(r) ==
    /\ phase[r] = "checking"
    /\ SetPhase(r, "failed")
    /\ reserved' = IF r \in Message THEN [reserved EXCEPT ![thread[r]] = None] ELSE reserved
    /\ UNCHANGED <<thread, drain, verdict, sessionVars, historyVars>>

\* A command joins the thread's active turn, or becomes a turn of its own.
Shell(r) ==
    /\ r \in Command /\ phase[r] = "checking"
    /\ IF Taken(thread[r])
       THEN /\ SetPhase(r, "beside")
            /\ line' = Append(line, Run(r))
            /\ UNCHANGED <<reserved, drain>>
       ELSE Accept(r) /\ reserved' = [reserved EXCEPT ![thread[r]] = r]
    /\ UNCHANGED <<thread, verdict, pending, active, aux, aborting, task, runner,
                   events, historyVars>>

InterruptUnchecked(r) ==  \* mutant: the turn is not compared
    /\ phase[r] = "accepted" /\ r \notin interrupted /\ Cardinality(interrupted) < MaxInterrupts
    /\ interrupted' = interrupted \cup {r}
    /\ line' = Append(line, Abort(r))
    /\ UNCHANGED <<handlerVars, pending, active, aux, aborting, task, runner, events,
                   hits, circumstances>>

\* turn/interrupt: compares turns, and then submits an AbortTurn of the thread.
Interrupt(r) ==
    /\ phase[r] = "accepted" /\ r \notin interrupted /\ Cardinality(interrupted) < MaxInterrupts
    /\ ActiveTurn(thread[r]) = r
    /\ interrupted' = interrupted \cup {r}
    /\ line' = Append(line, Abort(r))
    /\ UNCHANGED <<handlerVars, pending, active, aux, aborting, task, runner, events,
                   hits, circumstances>>

-----------------------------------------------------------------------------
(* The drains                                                              *)

EndDrain(r, v) ==
    /\ drain' = [drain EXCEPT ![r] = "ended"]
    /\ verdict' = [verdict EXCEPT ![r] = v]
    /\ reserved' = [reserved EXCEPT ![thread[r]] = None]

\* The first event that ends a turn ends the drain, whosever turn it is of.
Read(r) ==
    /\ drain[r] = "reading" /\ events # <<>>
    /\ events' = Tail(events)
    /\ EndDrain(r, Head(events))
    /\ UNCHANGED <<thread, phase, line, pending, active, aux, aborting, task, runner,
                   historyVars>>

\* The loop and the tasks wait for a turn, or for nothing.
Waiting ==
    /\ aborting \/ line = <<>>
    /\ active = None => pending = <<>>
    /\ \A r \in Req : task[r] # "ready"
    /\ active # None => task[active] # "done" \/ \E r \in aux : task[r] # "done"

\* next_event(timeout=300) returns nothing; the loop reacts faster than that.
Quiet(r) ==
    /\ "quiet" \in circumstances
    /\ drain[r] = "reading" /\ events = <<>> /\ Waiting
    /\ EndDrain(r, [of |-> r, is |-> "quiet"])
    /\ UNCHANGED <<thread, phase, sessionVars, historyVars>>

-----------------------------------------------------------------------------
(* The session's dispatch loop, RuntimeSession._run                        *)

CancelAll(S) ==
    [r \in Req |-> IF r \notin S THEN task[r]
                   ELSE IF task[r] = "ready" THEN "done"
                   ELSE IF task[r] = "running" THEN "cancelling" ELSE task[r]]

\* No turn is active: what waited in _pending goes first.  An AbortTurn
\* finds nothing to cancel, and the drains ignore its notice.
Dispatch ==
    /\ active = None /\ ~aborting
    /\ \/ /\ pending # <<>>
          /\ active' = Head(pending) /\ pending' = Tail(pending)
          /\ task' = [task EXCEPT ![active'] = "ready"]
          /\ UNCHANGED line
       \/ /\ pending = <<>> /\ line # <<>>
          /\ line' = Tail(line)
          /\ IF Head(line).does = "run"
             THEN active' = Head(line).req /\ task' = [task EXCEPT ![active'] = "ready"]
             ELSE UNCHANGED <<active, task>>
          /\ UNCHANGED pending
    /\ UNCHANGED <<handlerVars, aux, aborting, runner, events, historyVars>>

DispatchMoreDropsMessage ==  \* mutant: a message that waits for the turn is dropped
    /\ active # None /\ ~aborting
    /\ line # <<>> /\ Head(line).does = "run"
    /\ line' = Tail(line)
    /\ LET r == Head(line).req
       IN  IF r \in Command
           THEN aux' = aux \cup {r} /\ task' = [task EXCEPT ![r] = "ready"]
           ELSE UNCHANGED <<aux, task>>
    /\ UNCHANGED <<handlerVars, pending, active, aborting, runner, events, historyVars>>

\* A turn is active: a message waits, a command runs beside the turn.
DispatchMore ==
    /\ active # None /\ ~aborting
    /\ line # <<>> /\ Head(line).does = "run"
    /\ line' = Tail(line)
    /\ LET r == Head(line).req
       IN  IF r \in Command
           THEN aux' = aux \cup {r} /\ task' = [task EXCEPT ![r] = "ready"]
                /\ UNCHANGED pending
           ELSE pending' = Append(pending, r) /\ UNCHANGED <<aux, task>>
    /\ UNCHANGED <<handlerVars, active, aborting, runner, events, historyVars>>

\* AbortTurn cancels the active turn, of whichever thread, and the commands
\* beside it.  Their first steps were scheduled before the queue was read.
DispatchAbort ==
    /\ active # None /\ ~aborting
    /\ \A r \in {active} \cup aux : task[r] # "ready"
    /\ line # <<>> /\ Head(line).does = "abort"
    /\ line' = Tail(line)
    /\ aborting' = TRUE
    /\ task' = CancelAll({active} \cup aux)
    /\ hits' = hits \cup {<<Head(line).req, r>> :
                             r \in {q \in {active} \cup aux : task[q] # "done"
                                                              /\ phase[q] = "accepted"}}
    /\ UNCHANGED <<handlerVars, pending, active, aux, runner, events, interrupted, circumstances>>

\* The cancelled turn is over; so are the commands.
Aborted ==
    /\ aborting /\ task[active] = "done" /\ \A r \in aux : task[r] = "done"
    /\ active' = None /\ aux' = {} /\ aborting' = FALSE
    /\ UNCHANGED <<handlerVars, line, pending, task, runner, events, historyVars>>

\* The turn ends by itself: the commands beside it are cancelled.  The loop
\* waits for them as it does after an abort.
TurnOver ==
    /\ active # None /\ ~aborting /\ task[active] = "done"
    /\ aborting' = TRUE
    /\ task' = CancelAll(aux)
    /\ UNCHANGED <<handlerVars, line, pending, active, aux, runner, events, historyVars>>

-----------------------------------------------------------------------------
(* TaskRunner.handle, in a task of its own                                 *)

Owns(r) == phase[r] = "accepted"

Begin(r) ==
    /\ task[r] = "ready"
    /\ task' = [task EXCEPT ![r] = "running"]
    /\ runner' = IF Owns(r) THEN [runner EXCEPT ![thread[r]] = r] ELSE runner
    /\ UNCHANGED <<handlerVars, line, pending, active, aux, aborting, events, historyVars>>

\* finally: a message's turn clears only what it owns, a command's anything.
Over(r) ==
    /\ task' = [task EXCEPT ![r] = "done"]
    /\ runner' = IF Owns(r) /\ (r \in Command \/ runner[thread[r]] = r)
                 THEN [runner EXCEPT ![thread[r]] = None] ELSE runner
    /\ UNCHANGED <<handlerVars, line, pending, active, aux, aborting, historyVars>>

Said(r, kinds) ==
    events' = IF Owns(r) THEN events \o [i \in DOMAIN kinds |-> [of |-> r, is |-> kinds[i]]]
              ELSE events

\* A turn that is cancelled inside a tool call may end as if it were not.
Complete(r) ==
    /\ task[r] \in {"running", "cancelling"}
    /\ Said(r, <<"complete">>)
    /\ Over(r)

\* An ErrorEvent the client cannot recover from, and then TurnCompleteEvent;
\* a command says them the other way round.
Fail(r) ==
    /\ "error" \in circumstances
    /\ task[r] = "running" /\ Owns(r)
    /\ Said(r, IF r \in Command THEN <<"complete", "fatal">> ELSE <<"fatal", "complete">>)
    /\ Over(r)

EndCancelledTwice(r) ==  \* mutant: an aborted turn is completed as well
    /\ task[r] = "cancelling"
    /\ Said(r, IF r \in Message THEN <<"aborted", "complete">> ELSE <<>>)
    /\ Over(r)

\* Only a message's turn reports that it was cancelled.
EndCancelled(r) ==
    /\ task[r] = "cancelling"
    /\ \/ r \in Message /\ Said(r, <<"aborted">>)
       \/ r \in Command /\ UNCHANGED events
    /\ Over(r)

-----------------------------------------------------------------------------
Handlers == \E r \in Req :
    Reserve(r) \/ LookUp(r) \/ Start(r) \/ StartFails(r) \/ Shell(r) \/ Interrupt(r)
Drains == \E r \in Req : Read(r) \/ Quiet(r)
Loop == Dispatch \/ DispatchMore \/ DispatchAbort \/ Aborted \/ TurnOver
Tasks == \E r \in Req : Begin(r) \/ Complete(r) \/ Fail(r) \/ EndCancelled(r)

Next == Handlers \/ Drains \/ Loop \/ Tasks

Spec == Init /\ [][Next]_vars

(***************************************************************************)
(* Fairness: a look-up returns, a drain that can read does, a wait for an  *)
(* event times out if it goes on, the loop and the tasks are scheduled,    *)
(* and a turn ends.  Requests and interrupts may never come.               *)
(***************************************************************************)
Scheduling ==
    /\ \A r \in Req :
        /\ WF_vars(Start(r) \/ StartFails(r) \/ Shell(r))
        /\ WF_vars(Read(r) \/ Quiet(r))
        /\ WF_vars(Begin(r) \/ Complete(r))
    /\ WF_vars(Loop)

FairSpec == Spec /\ Scheduling

-----------------------------------------------------------------------------
(* Properties                                                              *)

Unfinished(r) == phase[r] = "accepted" /\ task[r] # "done"

\* A thread has one turn at a time, waiting or running.  A turn of another
\* thread that ends, an event left by a failed turn and a time-out each end
\* a drain too early, and the slot is given away while the turn goes on.
OneTurnPerThread ==
    circumstances = {} =>
        \A t \in Thread : Cardinality({r \in Req : thread[r] = t /\ Unfinished(r)}) <= 1

\* turn/interrupt cancels the turn it names or nothing, though its AbortTurn
\* names the thread only and may be taken up when the turn is long over.
InterruptHitsNamed ==
    circumstances = {} => \A h \in hits : h[1] = h[2]

\* The client is told of a turn's end by that turn's own event.
OwnVerdict ==
    circumstances = {} => \A r \in Req : drain[r] = "ended" => verdict[r].of = r

\* A reservation is of a request whose handler or drain will release it: no
\* slot is locked for good.
SlotHasOwner ==
    \A t \in Thread : reserved[t] # None =>
            phase[reserved[t]] = "checking" \/ drain[reserved[t]] = "reading"

\* Every reservation is one some handler or drain will give back.
Consistent == TypeOK /\ SlotHasOwner

\* A slot is always given back, at the latest by the time-out.
SlotFreed ==
    "quiet" \in circumstances =>
        \A t \in Thread : reserved[t] # None ~> reserved[t] = None

\* Every accepted turn is run to its end, whatever is queued around it.
AcceptedRuns == \A r \in Req : phase[r] = "accepted" ~> task[r] = "done"

\* Neither a slot nor an accepted turn is stuck.
Progress == SlotFreed /\ AcceptedRuns
=============================================================================
