----------------------------- MODULE ChatTurns -----------------------------
(***************************************************************************)
(* chat.send and chat.abort of one session in miqi/bridge/loop.py.         *)
(*                                                                         *)
(* chat.send submits a message to the RuntimeSession and starts a drain: a *)
(* task that reads the session's event queue until the turn is over and    *)
(* settles the request with one terminal message.  All drains of a session *)
(* read the same queue, so a drain must read only while its own turn       *)
(* runs: _session_drain_tasks is the lock, and a drain that chat.abort     *)
(* released is waited for by the next one.  A background job, whose turn   *)
(* runs beside the session's own and puts its events on the same queue,    *)
(* gets a drain too, and takes the lock without looking.                   *)
(*                                                                         *)
(* The session is taken at what it promises: the steps of TurnService.     *)
(* What the environment may or may not do on top of the plain course is    *)
(* chosen once, from the constant Courses: the properties hold under       *)
(* different circumstances, and say so.                                    *)
(***************************************************************************)
EXTENDS Naturals, Sequences, FiniteSets

CONSTANTS
    Req,            \* chat.send requests and jobs; each also names its turn
    NoReq,          \* "no request"
    AbortTurn,      \* the submission of a chat.abort
    MaxAborts,      \* bound: how many chat.abort calls there are
    MaxProgress,    \* bound: how many progress events wait unread
    Courses         \* sets of circumstances, see below

(* "overlap"  a chat.send awaits between its check and its registration    *)
(* "rush"     a chat.abort is handled before a new drain's first step      *)
(* "silence"  a drain hears nothing for CHAT_DRAIN_IDLE_TIMEOUT_SECONDS    *)
(* "stale"    a drain forwards nothing for STALE_TURN_TIMEOUT              *)
(* "error"    a turn fails: provider error, crash                          *)
(* "warning"  compaction fails before a turn: a recoverable ErrorEvent     *)
(* "mute"     a cancellation hits a turn where nothing reports it: before  *)
(*            its try, resuming a snapshot, or while it reports an error   *)
(* "job"      sure.fix.start dispatches a job for this session             *)
AllCircumstances ==
    {"overlap", "rush", "silence", "stale", "error", "warning", "mute", "job"}

ASSUME RequestsAreNot == NoReq \notin Req /\ AbortTurn \notin Req \cup {NoReq}
ASSUME Bounds == MaxAborts \in Nat /\ MaxProgress \in Nat
ASSUME KnownCircumstances == Courses \subseteq SUBSET AllCircumstances

VARIABLES
    line, served, live,     \* the session, see TurnService
    turn,       \* what the turn of each request does
    events,     \* the session's event queue: the turn and the kind of each
    phase,      \* the handler of each request
    drain,      \* the drain task of each request
    awaited,    \* the predecessor a waiting drain waits for
    lock,       \* _session_drain_tasks[session]
    released,   \* _released_drain_tasks[session]
    emitter,    \* the drain the user-input emitter of the session is wired to
    aborts,     \* history: chat.abort calls so far
    circumstances,  \* history: what the environment does in this behaviour
    settled,    \* _terminal_sent, with the terminal message
    by          \* history: the turn whose event settled the request

Kinds == {"progress", "warning", "final", "complete", "error", "aborted", "notice"}
Terminals == {"final", "error", "aborted"}
None == "none"

Session == INSTANCE TurnService WITH Message <- Req, Command <- {AbortTurn}

serviceVars == <<line, served, live>>
turnVars == <<turn, events>>
bridgeVars == <<phase, lock, released>>
drainVars == <<drain, awaited, emitter, settled, by>>
userVars == <<aborts, circumstances>>
vars == <<serviceVars, turnVars, bridgeVars, drainVars, userVars>>

Init ==
    /\ Session!Init
    /\ turn = [r \in Req |-> None] /\ events = <<>>
    /\ phase = [r \in Req |-> "new"]
    /\ drain = [r \in Req |-> None] /\ awaited = [r \in Req |-> NoReq]
    /\ lock = NoReq /\ released = NoReq /\ emitter = NoReq
    /\ aborts = 0 /\ circumstances \in Courses
    /\ settled = [r \in Req |-> None] /\ by = [r \in Req |-> NoReq]

Event(r, kind) == [turn |-> r, kind |-> kind]

-----------------------------------------------------------------------------
(* The session runs turns                                                  *)

Running(r) == turn[r] \in {"running", "cancelling"}

\* The session takes the message: TurnStartedEvent, after a warning when
\* the history could not be compacted.
Begin(r) ==
    /\ line # <<>> /\ Head(line) = r
    /\ Session!Serve
    /\ turn' = [turn EXCEPT ![r] = "running"]
    /\ \/ events' = Append(events, Event(r, "progress"))
       \/ /\ "warning" \in circumstances
          /\ events' = events \o <<Event(r, "warning"), Event(r, "progress")>>
    /\ UNCHANGED <<bridgeVars, drainVars, userVars>>

Progress(r) ==
    /\ Running(r)
    /\ Cardinality({i \in DOMAIN events : events[i].kind = "progress"}) < MaxProgress
    /\ events' = Append(events, Event(r, "progress"))
    /\ UNCHANGED <<serviceVars, turn, bridgeVars, drainVars, userVars>>

End(r, closing) ==
    /\ r \in live /\ Session!Finish
    /\ turn' = [turn EXCEPT ![r] = "over"]
    /\ events' = events \o closing
    /\ UNCHANGED <<bridgeVars, drainVars, userVars>>

\* A cancellation that a tool call absorbs lets the turn end in its own way.
Succeed(r) ==
    Running(r) /\ End(r, <<Event(r, "final"), Event(r, "complete")>>)

\* TaskRunner reports the error, then completes the turn; a crash that
\* escapes it is reported by the loop, and nothing follows.
FailTurn(r) ==
    /\ "error" \in circumstances /\ Running(r)
    /\ \/ End(r, <<Event(r, "error"), Event(r, "complete")>>)
       \/ End(r, <<Event(r, "error")>>)

EndAborted(r) ==
    /\ turn[r] = "cancelling"
    /\ \/ End(r, <<Event(r, "aborted")>>)
       \/ "mute" \in circumstances /\ End(r, <<>>)

\* A job's turn is not the session's: no event says that it is over, and
\* AbortTurn does not reach it.
EndJob(r) ==
    /\ phase[r] = "job" /\ Running(r)
    /\ turn' = [turn EXCEPT ![r] = "over"]
    /\ UNCHANGED <<serviceVars, events, bridgeVars, drainVars, userVars>>

\* AbortTurn leaves the line ahead of waiting messages.  It cancels the
\* live turn; without one, TaskRunner puts a notice, except when the turn
\* is over but the loop has not cleared it yet.
TakeAbort(k) ==
    /\ line[k] = AbortTurn
    /\ live' = live /\ Session!Aside(k)
    /\ IF live = {}
       THEN /\ UNCHANGED turn
            /\ events' \in {events, Append(events, Event(NoReq, "notice"))}
       ELSE /\ turn' = [r \in Req |-> IF r \in live THEN "cancelling" ELSE turn[r]]
            /\ UNCHANGED events
    /\ UNCHANGED <<bridgeVars, drainVars, userVars>>

-----------------------------------------------------------------------------
(* chat.send                                                               *)

Busy(r) == r # NoReq /\ drain[r] # "done"

\* Submit the message, start a drain, register it as the session's.
Register(r, drains) ==
    /\ Session!Accept(r)
    /\ phase' = [phase EXCEPT ![r] = "accepted"]
    /\ drain' = [drains EXCEPT ![r] = "ready"]
    /\ lock' = r
    /\ UNCHANGED <<turnVars, released, awaited, emitter, settled, by, userVars>>

\* The session's drain has forwarded nothing for long.
Stale ==
    /\ "stale" \in circumstances /\ Busy(lock)
    /\ drain[lock] = "draining" \/ Busy(awaited[lock])

\* The drains once the session's is cancelled, which that task notices when
\* it runs next: inside its read loop, or before.
Forced == [drain EXCEPT ![lock] = IF @ = "draining" THEN "cancelled" ELSE "killed"]

Reject(r) ==
    /\ phase[r] = "new" /\ Busy(lock)
    /\ phase' = [phase EXCEPT ![r] = "rejected"]
    /\ UNCHANGED <<serviceVars, turnVars, lock, released, drainVars, userVars>>

Send(r) ==
    /\ phase[r] = "new" /\ ~Busy(lock)
    /\ Register(r, drain)

\* The turn in progress is taken for dead.
SendOverStale(r) ==
    /\ phase[r] = "new" /\ Stale
    /\ Register(r, Forced)

\* The same in two steps, when the handler awaits in between: it persists
\* the reasoning mode.
Check(r) ==
    /\ "overlap" \in circumstances
    /\ phase[r] = "new"
    /\ phase' = [phase EXCEPT ![r] = "checked"]
    /\ \/ ~Busy(lock) /\ UNCHANGED <<lock, drain>>
       \/ Stale /\ drain' = Forced /\ lock' = NoReq
    /\ UNCHANGED <<serviceVars, turnVars, released, awaited, emitter, settled, by, userVars>>

SendChecked(r) ==
    /\ phase[r] = "checked"
    /\ Register(r, drain)

\* chat.abort: submit AbortTurn and release the lock.  The drain lives on,
\* in the one slot there is for a released drain.
Abort ==
    /\ aborts < MaxAborts
    /\ (Busy(lock) /\ drain[lock] = "ready") => "rush" \in circumstances
    /\ aborts' = aborts + 1
    /\ Session!Accept(AbortTurn)
    /\ lock' = NoReq
    /\ released' = IF Busy(lock) THEN lock ELSE released
    /\ UNCHANGED <<turnVars, phase, drainVars, circumstances>>

\* _register_agent_job_drain: the drain of a job becomes the session's,
\* whatever the lock says.  Its terminal message is marked as sent.
StartJob(r) ==
    /\ "job" \in circumstances
    /\ phase[r] = "new"
    /\ phase' = [phase EXCEPT ![r] = "job"]
    /\ turn' = [turn EXCEPT ![r] = "running"]
    /\ drain' = [drain EXCEPT ![r] = "ready"]
    /\ lock' = r
    /\ settled' = [settled EXCEPT ![r] = "muted"]
    /\ UNCHANGED <<serviceVars, events, released, awaited, emitter, by, userVars>>

-----------------------------------------------------------------------------
(* A drain                                                                 *)

\* The emitter is kept by the key of the chat; a job's drain uses another.
Wired(r) == IF phase[r] = "job" THEN emitter ELSE r
Unwired(r) == IF phase[r] = "job" THEN emitter ELSE NoReq

StartDrainAtOnce(r) ==  \* mutant: the released predecessor is not awaited
    /\ drain[r] = "ready"
    /\ drain' = [drain EXCEPT ![r] = "draining"]
    /\ emitter' = Wired(r)
    /\ UNCHANGED <<serviceVars, turnVars, bridgeVars, awaited, settled, by, userVars>>

\* The first step: await the released predecessor, or go on to read.
StartDrain(r) ==
    /\ drain[r] = "ready"
    /\ IF ~Busy(released)
       THEN /\ drain' = [drain EXCEPT ![r] = "draining"]
            /\ emitter' = Wired(r)
            /\ UNCHANGED awaited
       ELSE /\ drain' = [drain EXCEPT ![r] = "waiting"]
            /\ awaited' = [awaited EXCEPT ![r] = released]
            /\ UNCHANGED emitter
    /\ UNCHANGED <<serviceVars, turnVars, bridgeVars, settled, by, userVars>>

PredecessorOver(r) ==
    /\ drain[r] = "waiting" /\ ~Busy(awaited[r])
    /\ drain' = [drain EXCEPT ![r] = "draining"]
    /\ awaited' = [awaited EXCEPT ![r] = NoReq]
    /\ emitter' = Wired(r)
    /\ UNCHANGED <<serviceVars, turnVars, bridgeVars, settled, by, userVars>>

\* _emit_terminal: at most one terminal message per request.
Settle(r, terminal, t) ==
    IF settled[r] = None
    THEN /\ settled' = [settled EXCEPT ![r] = terminal]
         /\ by' = [by EXCEPT ![r] = t]
    ELSE UNCHANGED <<settled, by>>

\* The task ends: its done callbacks clear what still refers to it.
Leave(r) ==
    /\ drain' = [drain EXCEPT ![r] = "done"]
    /\ lock' = IF lock = r THEN NoReq ELSE lock
    /\ released' = IF released = r THEN NoReq ELSE released
    /\ UNCHANGED <<serviceVars, turn, phase, awaited, userVars>>

Take(r) == drain[r] = "draining" /\ events # <<>> /\ events' = Tail(events)

\* Progress is forwarded, an abort notice skipped.
ReadOn(r) ==
    /\ Take(r) /\ Head(events).kind \in {"progress", "notice"}
    /\ UNCHANGED <<serviceVars, turn, bridgeVars, drainVars, userVars>>

ReadFinalLeaves(r) ==  \* mutant: the drain leaves at AgentMessageEvent
    /\ Take(r) /\ Head(events).kind = "final"
    /\ Settle(r, "final", Head(events).turn)
    /\ emitter' = Unwired(r)
    /\ Leave(r)

\* AgentMessageEvent settles the request; TurnCompleteEvent is still to come.
ReadFinal(r) ==
    /\ Take(r) /\ Head(events).kind = "final"
    /\ Settle(r, "final", Head(events).turn)
    /\ UNCHANGED <<serviceVars, turn, bridgeVars, drain, awaited, emitter, userVars>>

\* Any other terminal event settles the request, unless it is settled, and
\* the drain leaves.
ReadLast(r) ==
    /\ Take(r) /\ Head(events).kind \in {"complete", "error", "warning", "aborted"}
    /\ Settle(r, IF Head(events).kind = "complete" THEN "final"
                 ELSE IF Head(events).kind = "aborted" THEN "aborted" ELSE "error",
              Head(events).turn)
    /\ emitter' = Unwired(r)
    /\ Leave(r)

HearNothingSilently(r) ==  \* mutant: the idle time-out breaks without a message
    /\ "silence" \in circumstances
    /\ drain[r] = "draining" /\ events = <<>>
    /\ emitter' = Unwired(r)
    /\ UNCHANGED <<events, settled, by>>
    /\ Leave(r)

HearNothingStays(r) ==  \* mutant: the idle time-out reports and reads on
    /\ "silence" \in circumstances
    /\ drain[r] = "draining" /\ events = <<>>
    /\ Settle(r, "error", r)
    /\ UNCHANGED <<events, serviceVars, turn, bridgeVars, drain, awaited, emitter, userVars>>

\* Nothing for CHAT_DRAIN_IDLE_TIMEOUT_SECONDS: settled by no turn's event.
HearNothing(r) ==
    /\ "silence" \in circumstances
    /\ drain[r] = "draining" /\ events = <<>>
    /\ Settle(r, "error", r)
    /\ emitter' = Unwired(r)
    /\ UNCHANGED events
    /\ Leave(r)

\* CancelledError in the read loop is reported ...
EndCancelled(r) ==
    /\ drain[r] = "cancelled"
    /\ Settle(r, "aborted", r)
    /\ emitter' = Unwired(r)
    /\ UNCHANGED events
    /\ Leave(r)

\* ... but not before it: the task ends without a word.
EndKilled(r) ==
    /\ drain[r] = "killed"
    /\ UNCHANGED <<events, emitter, settled, by>>
    /\ Leave(r)

-----------------------------------------------------------------------------
TurnStep(r) ==
    Begin(r) \/ Progress(r) \/ Succeed(r) \/ FailTurn(r) \/ EndAborted(r) \/ EndJob(r)

SendStep(r) ==
    \/ Send(r) \/ Reject(r) \/ Check(r) \/ SendChecked(r) \/ SendOverStale(r)
    \/ StartJob(r)

DrainStep(r) ==
    \/ StartDrain(r) \/ PredecessorOver(r)
    \/ ReadOn(r) \/ ReadFinal(r) \/ ReadLast(r)
    \/ HearNothing(r) \/ EndCancelled(r) \/ EndKilled(r)

TakeAborts == \E k \in DOMAIN line : TakeAbort(k)

Next == Abort \/ TakeAborts \/ \E r \in Req : TurnStep(r) \/ SendStep(r) \/ DrainStep(r)

Spec == Init /\ [][Next]_vars

(***************************************************************************)
(* Fairness: the event loop runs every ready task, so handlers, drains and *)
(* the session's loop keep moving.  Nothing is assumed of a turn: it may   *)
(* go on for ever and ignore a cancellation.  Only its progress dries up,  *)
(* or else the drain has something to forward and no reason to give up.    *)
(***************************************************************************)
Scheduling ==
    \A r \in Req : WF_vars(DrainStep(r)) /\ WF_vars(Begin(r)) /\ WF_vars(SendChecked(r))

DriesUp == <>[][\A r \in Req : ~Progress(r)]_vars

FairSpec == Spec /\ Scheduling /\ DriesUp

-----------------------------------------------------------------------------
(* Invariants                                                              *)

\* The values every variable ranges over.
TypeOK ==
    /\ line \in Seq(Req \cup {AbortTurn}) /\ served \subseteq Req /\ live \subseteq Req
    /\ turn \in [Req -> {None, "running", "cancelling", "over"}]
    /\ events \in Seq([turn : Req \cup {NoReq}, kind : Kinds])
    /\ phase \in [Req -> {"new", "checked", "accepted", "rejected", "job"}]
    /\ drain \in [Req -> {None, "ready", "waiting", "draining", "cancelled", "killed", "done"}]
    /\ awaited \in [Req -> Req \cup {NoReq}]
    /\ {lock, released, emitter} \subseteq Req \cup {NoReq}
    /\ aborts \in 0..MaxAborts /\ circumstances \in Courses
    /\ settled \in [Req -> Terminals \cup {None, "muted"}]
    /\ by \in [Req -> Req \cup {NoReq}]

\* A request is settled by an event of its own turn, never by one that an
\* earlier turn left in the shared queue, when turns succeed or are aborted.
SettledByOwnTurn ==
    circumstances \subseteq {"rush"} => \A r \in Req : settled[r] # None => by[r] = r

\* Only one drain reads the queue, however often the user stops and resends,
\* unless two sends overlap or a job is dispatched.
OneReader ==
    circumstances \cap {"overlap", "job"} = {} =>
        \A r, s \in Req : drain[r] = "draining" /\ drain[s] = "draining" => r = s

\* A drain that reads has the session's user-input emitter: a question the
\* turn asks reaches the chat.  A drain released by force clears it late.
ReaderIsWired ==
    circumstances \cap {"overlap", "stale", "job"} = {} =>
        \A r \in Req : drain[r] = "draining" => emitter = r

\* A registered drain or a waiting one is never forgotten: whoever is not
\* done is the lock, the released drain, or waited for by one that is.
Reachable(r) == r \in {lock, released} \/ \E s \in Req : awaited[s] = r
NoForgottenDrain ==
    circumstances \cap {"overlap", "rush", "job"} = {} =>
        \A r \in Req : drain[r] \in {"ready", "waiting", "draining"} => Reachable(r)

\* The event queue has one reader, which has the emitter, and no drain is
\* left behind where an abort cannot find it.
Consistent == TypeOK /\ OneReader /\ ReaderIsWired /\ NoForgottenDrain

-----------------------------------------------------------------------------
(* Liveness                                                                *)

\* Every accepted chat.send is settled by a terminal message, unless its
\* drain is released before it reads: by the next abort or by force.  A job
\* may take the events of its turn: then the idle time-out settles it.
EverySendSettled ==
    circumstances \cap {"rush", "stale"} = {} =>
        \A r \in Req : phase[r] = "accepted" ~> settled[r] # None

\* A drain does not hold the session's lock for ever, so that a later
\* message is not answered TURN_IN_PROGRESS for good.  That of a job, which
\* no event ends, relies on the idle time-out.
LockIsFreed == \A r \in Req : (lock = r /\ Busy(r)) ~> ~(lock = r /\ Busy(r))
=============================================================================
