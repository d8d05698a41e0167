------------------------------- MODULE Bridge -------------------------------
(***************************************************************************)
(* BridgeManager (apps/desktop/src/main/bridge.ts): the Electron process   *)
(* starts, stops and hot-reloads the Python bridge and matches its answers *)
(* with the requests it has sent.                                          *)
(*                                                                         *)
(* Between two awaits the manager runs alone.  start(), stop() and         *)
(* restart() may all be under way at once; each remembers the process it   *)
(* was called for and compares it with the current one when it resumes.    *)
(***************************************************************************)
EXTENDS Naturals, FiniteSets

CONSTANTS
    Call,       \* requests settled by their response
    Chat,       \* requests settled by a final, error or aborted event
    MaxSpawns   \* bound: processes spawned

Request == Call \cup Chat
Process == 1..MaxSpawns
None == 0

ASSUME MaxSpawnsAssumption == MaxSpawns \in Nat
ASSUME RequestsDisjoint == Call \cap Chat = {}

VARIABLES
    state,      \* this.state
    process,    \* this.process
    os,         \* each process as the operating system has it
    told,       \* processes that were sent SIGTERM
    spawned,    \* number of processes spawned
    at,         \* where the start() of each process is
    initialized,
    stopping,   \* the process stoppingPromise is for
    reloading,  \* restart(): none, the process it stops, or its start()
    waiting,    \* start() calls that await stoppingPromise: the user's, restart's
    asked,      \* requests made
    sentTo,     \* this.pending: the process each pending request was written to
    watching,   \* this.fileWatcher
    timer,      \* this.reloadTimer
    deferred,   \* this.deferredRestart
    cooling,    \* the last file change is less than reloadCooldown ago
    wanted,     \* history: the last call of the user was start(), not stop()
    crossed     \* history: the ways in which calls have crossed each other

startVars == <<os, told, spawned, at>>
requestVars == <<asked, sentTo>>
reloadVars == <<watching, timer, deferred, cooling>>
historyVars == <<wanted, crossed>>
vars == <<state, process, startVars, initialized, stopping, reloading, waiting,
          requestVars, reloadVars, historyVars>>

(***************************************************************************)
(* Three ways of crossing the manager does not guard against:              *)
(*   "start"     a start() spawns while restart() waits for the old        *)
(*               process, and restart() will spawn once more;              *)
(*   "stop"      stop() and restart() are under way at once, and restart() *)
(*               starts what stop() has stopped;                           *)
(*   "absorbed"  a stop() joins the stop() under way although a start()    *)
(*               already waits for its end, and will go on.                *)
(***************************************************************************)
Crossings == {"start", "stop", "absorbed"}

NoReload == [step |-> "none", of |-> None]

TypeOK ==
    /\ state \in {"stopped", "starting", "running", "stopping", "error"}
    /\ process \in Process \cup {None} /\ spawned \in 0..MaxSpawns
    /\ os \in [Process -> {"none", "booting", "ready", "exited", "closed"}]
    /\ told \subseteq Process
    /\ at \in [Process -> {"none", "handshake", "settling", "initializing", "done", "failed"}]
    /\ initialized \in BOOLEAN
    /\ stopping \in Process \cup {None}
    /\ reloading \in [step : {"none", "waiting", "starting"}, of : Process \cup {None}]
    /\ waiting \subseteq {"user", "restart"}
    /\ asked \subseteq Request /\ sentTo \in [Request -> Process \cup {None}]
    /\ watching \in BOOLEAN /\ timer \in BOOLEAN
    /\ deferred \in BOOLEAN /\ cooling \in BOOLEAN
    /\ wanted \in BOOLEAN /\ crossed \subseteq Crossings

Init ==
    /\ state = "stopped" /\ process = None /\ spawned = 0
    /\ os = [p \in Process |-> "none"] /\ told = {} /\ at = [p \in Process |-> "none"]
    /\ initialized = FALSE /\ stopping = None /\ reloading = NoReload /\ waiting = {}
    /\ asked = {} /\ sentTo = [r \in Request |-> None]
    /\ watching = FALSE /\ timer = FALSE /\ deferred = FALSE /\ cooling = FALSE
    /\ wanted = FALSE /\ crossed = {}

Running == process # None /\ state = "running"
Pending == {r \in Request : sentTo[r] # None}
Alive(p) == os[p] \in {"booting", "ready"}

\* What was awaited goes on before anything else happens, up to the bound.
Room == spawned < MaxSpawns
Due == stopping = None /\ waiting # {} /\ Room
OldClosed == reloading.step = "waiting" /\ os[reloading.of] = "closed" /\ Room
Idle == ~Due /\ ~OldClosed

\* restartInProgress
Reloading ==
    \/ reloading.step = "waiting" \/ "restart" \in waiting
    \/ reloading.step = "starting" /\ at[reloading.of] \in {"handshake", "settling", "initializing"}

RejectAll == sentTo' = [r \in Request |-> None]

\* The initialize request is among the pending ones: its start() fails too.
Failing(S) ==
    [p \in Process |-> IF p \in S \/ at[p] = "initializing" THEN "failed" ELSE at[p]]

-----------------------------------------------------------------------------
(* start()                                                                 *)

\* From the check of the state to the handshake nothing is awaited.
Spawned ==
    LET p == spawned + 1
    IN  /\ Room
        /\ spawned' = p
        /\ state' = "starting" /\ process' = p
        /\ os' = [os EXCEPT ![p] = "booting"]
        /\ at' = [at EXCEPT ![p] = "handshake"]

\* ... unless the bridge runs already.  Nothing asks whether restart() waits.
Spawns ==
    IF state \in {"running", "starting"}
    THEN UNCHANGED <<state, process, os, spawned, at>> ELSE Spawned

StartCrosses ==
    reloading.step = "waiting" /\ state \notin {"running", "starting"}

Start ==
    /\ Idle /\ wanted' = TRUE
    /\ IF stopping # None
       THEN waiting' = waiting \cup {"user"} /\ UNCHANGED <<state, process, os, spawned, at, crossed>>
       ELSE /\ Spawns /\ UNCHANGED waiting
            /\ crossed' = IF StartCrosses THEN crossed \cup {"start"} ELSE crossed
    /\ UNCHANGED <<told, initialized, stopping, reloading, requestVars, reloadVars>>

\* {"type": "ready"} on stdout ends the handshake.
Ready(p) ==
    /\ Idle /\ os[p] = "booting"
    /\ os' = [os EXCEPT ![p] = "ready"]
    /\ at' = [at EXCEPT ![p] = IF @ = "handshake" THEN "settling" ELSE @]
    /\ UNCHANGED <<state, process, told, spawned, initialized, stopping, reloading, waiting,
                   requestVars, reloadVars, historyVars>>

StartFailsAlone(p) ==  \* mutant: the failed start leaves its process running
    IF process = p
    THEN /\ state' = "error" /\ process' = None
         /\ initialized' = FALSE /\ watching' = FALSE /\ timer' = FALSE
         /\ RejectAll
         /\ at' = Failing({p})
         /\ UNCHANGED told
    ELSE /\ at' = [at EXCEPT ![p] = "failed"]
         /\ UNCHANGED <<state, process, told, initialized, watching, timer, sentTo>>

\* The catch of start(): it touches the manager only if it is still the
\* start of the current process.
StartFails(p) ==
    IF process = p
    THEN /\ state' = "error" /\ process' = None /\ told' = told \cup {p}
         /\ initialized' = FALSE /\ watching' = FALSE /\ timer' = FALSE
         /\ RejectAll
         /\ at' = Failing({p})
    ELSE /\ at' = [at EXCEPT ![p] = "failed"]
         /\ UNCHANGED <<state, process, told, initialized, watching, timer, sentTo>>

\* 180 s without a handshake, 15 s without an answer to initialize.
StartTimesOut(p) ==
    /\ Idle /\ at[p] \in {"handshake", "initializing"}
    /\ StartFails(p)
    /\ UNCHANGED <<os, spawned, stopping, reloading, waiting, asked, deferred, cooling,
                   historyVars>>

SettleWaits(p) ==  \* mutant: the start of a replaced process is left hanging
    /\ Idle /\ at[p] = "settling" /\ process = p
    /\ IF Alive(p) /\ state \in {"starting", "running"}
       THEN /\ at' = [at EXCEPT ![p] = "initializing"]
            /\ UNCHANGED <<state, process, told, initialized, watching, timer, sentTo>>
       ELSE StartFails(p)
    /\ UNCHANGED <<os, spawned, stopping, reloading, waiting, asked, deferred, cooling,
                   historyVars>>

\* 250 ms after the handshake: is this still the process, is it alive, and
\* may initialize be sent?
Settle(p) ==
    /\ Idle /\ at[p] = "settling"
    /\ IF process = p /\ Alive(p) /\ state \in {"starting", "running"}
       THEN /\ at' = [at EXCEPT ![p] = "initializing"]
            /\ UNCHANGED <<state, process, told, initialized, watching, timer, sentTo>>
       ELSE StartFails(p)
    /\ UNCHANGED <<os, spawned, stopping, reloading, waiting, asked, deferred, cooling,
                   historyVars>>

\* initialize is answered, and start() returns.
Initialize(p) ==
    /\ Idle /\ at[p] = "initializing" /\ os[p] = "ready" /\ process = p
    /\ at' = [at EXCEPT ![p] = "done"]
    /\ initialized' = TRUE /\ state' = "running" /\ watching' = TRUE
    /\ UNCHANGED <<process, os, told, spawned, stopping, reloading, waiting, requestVars,
                   timer, deferred, cooling, historyVars>>

-----------------------------------------------------------------------------
(* stop()                                                                  *)

\* A stop() during a stop() joins it and does nothing else.
Stop ==
    /\ Idle /\ wanted' = FALSE
    /\ crossed' = crossed \cup (IF Reloading THEN {"stop"} ELSE {})
                          \cup (IF "user" \in waiting THEN {"absorbed"} ELSE {})
    /\ IF stopping = None /\ process # None
       THEN /\ state' = "stopping" /\ stopping' = process /\ told' = told \cup {process}
            /\ initialized' = FALSE /\ watching' = FALSE /\ timer' = FALSE
       ELSE UNCHANGED <<state, stopping, told, initialized, watching, timer>>
    /\ UNCHANGED <<process, os, spawned, at, reloading, waiting, requestVars, deferred, cooling>>

StopDoneKeepsProcess ==  \* mutant: the state is reset, the process is not
    /\ stopping' = None
    /\ RejectAll /\ at' = Failing({})
    /\ state' = IF process = stopping THEN "stopped" ELSE state
    /\ UNCHANGED process

\* done(): every request is rejected, and the process forgotten if it still
\* is the current one.
StopDone ==
    /\ stopping' = None
    /\ RejectAll /\ at' = Failing({})
    /\ IF process = stopping
       THEN process' = None /\ state' = "stopped"
       ELSE UNCHANGED <<process, state>>

\* 5.5 s after SIGTERM.
StopGivesUp ==
    /\ Idle /\ stopping # None
    /\ StopDone
    /\ UNCHANGED <<os, told, spawned, initialized, reloading, waiting, asked, reloadVars,
                   historyVars>>

\* The start() calls that awaited stoppingPromise go on; the first spawns,
\* and is the start of a reload only if it is restart()'s.
Resume ==
    /\ stopping = None /\ waiting # {}
    /\ waiting' = {}
    /\ Spawns
    /\ crossed' = IF "user" \in waiting /\ StartCrosses THEN crossed \cup {"start"} ELSE crossed
    /\ IF "restart" \notin waiting THEN UNCHANGED reloading
       ELSE \/ state \notin {"running", "starting"} /\ reloading' = [step |-> "starting", of |-> process']
            \/ (state \in {"running", "starting"} \/ "user" \in waiting) /\ reloading' = NoReload
    /\ UNCHANGED <<told, initialized, stopping, requestVars, reloadVars, wanted>>

-----------------------------------------------------------------------------
(* The process ends: 'exit', and later 'close'                             *)

Exit(p) ==
    /\ Idle /\ Alive(p)
    /\ os' = [os EXCEPT ![p] = "exited"]
    /\ IF stopping = p THEN StopDone ELSE UNCHANGED <<stopping, sentTo, at, process, state>>
    /\ UNCHANGED <<told, spawned, initialized, reloading, waiting, asked, reloadVars,
                   historyVars>>

\* A handshake fails with its process.  After it, the end of the current
\* process is a crash, unless stop() or restart() is about to notice it.
Close(p) ==
    /\ Idle /\ os[p] = "exited"
    /\ os' = [os EXCEPT ![p] = "closed"]
    /\ IF at[p] = "handshake" THEN StartFails(p)
       ELSE IF process = p /\ state # "stopping"
       THEN /\ state' \in {"stopped", "error"} /\ process' = None /\ initialized' = FALSE
            /\ RejectAll /\ at' = Failing({})
            /\ UNCHANGED <<told, watching, timer>>
       ELSE UNCHANGED <<state, process, initialized, told, watching, timer, at, sentTo>>
    /\ UNCHANGED <<spawned, stopping, reloading, waiting, asked, deferred, cooling, historyVars>>

-----------------------------------------------------------------------------
(* Requests                                                                *)

\* sendRequest: written to the current process, or refused.
Send(r) ==
    /\ Idle /\ r \notin asked
    /\ asked' = asked \cup {r}
    /\ IF Running THEN sentTo' = [sentTo EXCEPT ![r] = process] ELSE UNCHANGED sentTo
    /\ UNCHANGED <<state, process, startVars, initialized, stopping, reloading, waiting,
                   reloadVars, historyVars>>

\* A line of a process that is not the current one is dropped.
Answerable(r) == process # None /\ sentTo[r] = process /\ os[process] = "ready"

\* A response settles a plain request, an error response any.
Respond(r) ==
    /\ Idle /\ Answerable(r)
    /\ sentTo' = [sentTo EXCEPT ![r] = None]
    /\ UNCHANGED <<state, process, startVars, initialized, stopping, reloading, waiting, asked,
                   reloadVars, historyVars>>

MayReload == state = "running" /\ initialized /\ ~Reloading

\* A terminal event of a stream, the only place with _checkDeferredRestart;
\* what that finds is handled as a file change, which the cooldown swallows.
Terminal(r) ==
    /\ Idle /\ r \in Chat /\ Answerable(r)
    /\ sentTo' = [sentTo EXCEPT ![r] = None]
    /\ IF deferred /\ Pending = {r}
       THEN /\ deferred' = FALSE /\ cooling' = TRUE
            /\ timer' = (timer \/ (MayReload /\ ~cooling))
       ELSE UNCHANGED <<deferred, cooling, timer>>
    /\ UNCHANGED <<state, process, startVars, initialized, stopping, reloading, waiting, asked,
                   watching, historyVars>>

TimeOut(r) ==
    /\ Idle /\ r \in Pending
    /\ sentTo' = [sentTo EXCEPT ![r] = None]
    /\ UNCHANGED <<state, process, startVars, initialized, stopping, reloading, waiting, asked,
                   reloadVars, historyVars>>

-----------------------------------------------------------------------------
(* Hot reload                                                              *)

\* handleFileChange.  A pending request defers the restart.
FileChange ==
    /\ Idle /\ watching /\ ~cooling
    /\ cooling' = TRUE
    /\ timer' = (timer \/ (MayReload /\ Pending = {}))
    /\ deferred' = (deferred \/ (MayReload /\ Pending # {}))
    /\ UNCHANGED <<state, process, startVars, initialized, stopping, reloading, waiting,
                   requestVars, watching, historyVars>>

CoolDown ==
    /\ Idle /\ cooling
    /\ cooling' = FALSE
    /\ UNCHANGED <<state, process, startVars, initialized, stopping, reloading, waiting,
                   requestVars, watching, timer, deferred, historyVars>>

RestartKeepsRequests ==  \* mutant: the requests of the old process are kept
    /\ Idle /\ timer
    /\ timer' = FALSE
    /\ IF state = "running" /\ ~Reloading /\ process # None
       THEN /\ reloading' = [step |-> "waiting", of |-> process]
            /\ state' = "stopping" /\ told' = told \cup {process} /\ watching' = FALSE
       ELSE UNCHANGED <<reloading, state, told, watching>>
    /\ UNCHANGED <<process, os, at, sentTo, spawned, initialized, stopping, waiting, asked, deferred, cooling,
                   historyVars>>

\* restart(), half a second later: whatever was sent meanwhile is rejected.
Restart ==
    /\ Idle /\ timer
    /\ timer' = FALSE
    /\ IF state = "running" /\ ~Reloading /\ process # None
       THEN /\ reloading' = [step |-> "waiting", of |-> process]
            /\ state' = "stopping" /\ told' = told \cup {process} /\ watching' = FALSE
            /\ RejectAll /\ at' = Failing({})
            /\ crossed' = IF stopping # None THEN crossed \cup {"stop"} ELSE crossed
       ELSE UNCHANGED <<reloading, state, told, watching, sentTo, at, crossed>>
    /\ UNCHANGED <<process, os, spawned, initialized, stopping, waiting, asked, deferred, cooling,
                   wanted>>

\* The old process has closed, or five seconds are over: start() is called,
\* and the state made to allow it.
RestartGoesOn ==
    /\ ~Due /\ reloading.step = "waiting"
    /\ initialized' = FALSE
    /\ IF stopping # None
       THEN /\ waiting' = waiting \cup {"restart"} /\ reloading' = NoReload
            /\ state' = "stopped"
            /\ process' = IF process = reloading.of THEN None ELSE process
            /\ UNCHANGED <<os, spawned, at>>
       ELSE /\ Spawned /\ reloading' = [step |-> "starting", of |-> process']
            /\ UNCHANGED waiting
    /\ UNCHANGED <<told, stopping, requestVars, reloadVars, historyVars>>

-----------------------------------------------------------------------------
Next ==
    \/ Start \/ Stop \/ StopGivesUp \/ Resume
    \/ \E p \in Process : Ready(p) \/ StartTimesOut(p) \/ Settle(p) \/ Initialize(p) \/ Exit(p) \/ Close(p)
    \/ \E r \in Request : Send(r) \/ TimeOut(r) \/ Respond(r) \/ Terminal(r)
    \/ FileChange \/ CoolDown \/ Restart \/ RestartGoesOn

Spec == Init /\ [][Next]_vars

\* Timers fire and what was awaited goes on; nothing is assumed of the
\* processes.
FairSpec ==
    /\ Spec /\ WF_vars(Resume \/ RestartGoesOn)
    /\ \A p \in Process : WF_vars(StartTimesOut(p) \/ Settle(p))

-----------------------------------------------------------------------------
(* Properties                                                              *)

\* No bridge process runs on that nobody will use and nobody has told to
\* stop, whichever of start(), stop() and restart() overlap, with the one
\* exception that a start() spawns while restart() waits for the old
\* process: restart() then spawns another and forgets the first.
NoOrphan ==
    "start" \notin crossed => \A p \in Process : Alive(p) => p = process \/ p \in told

\* A request waits for an answer only of the current process: with every
\* other process its caller was rejected as well, with the same exception.
PendingOfCurrent ==
    "start" \notin crossed => \A r \in Pending : sentTo[r] = process

\* If the user's last call was stop(), the bridge is stopped when it
\* returns, and stays so.  Two exceptions: stop() and restart() were under
\* way at once, or a stop() joined another one for whose end a start() was
\* waiting, which then starts the bridge.
StopIsFinal ==
    /\ crossed \cap {"stop", "absorbed"} = {}
    /\ ~wanted /\ stopping = None
    => process = None

\* 'running' is the state of a process that was initialized.
RunningServes == state = "running" => process # None /\ at[process] = "done" /\ initialized

\* What the manager believes of its process and requests is so.
Consistent == TypeOK /\ PendingOfCurrent /\ RunningServes

\* start() returns or raises, whatever becomes of its process, so that again
\* and again none is under way: a start() of restart() that hung would
\* switch hot reload off for good.
StartReturns == []<>(\A p \in Process : at[p] \in {"none", "done", "failed"})

\* 'The restart will be triggered when the last pending request completes.'
DeferredIsTriggered == deferred => Pending # {}
=============================================================================
