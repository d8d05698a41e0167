------------------------------- MODULE Agents -------------------------------
(***************************************************************************)
(* Sub-agents of one session: AgentControl (miqi/runtime/agent_control.py) *)
(* and the jobs that run them, AgentJobRuntime (agent_jobs.py), with their *)
(* rows in AgentGraphStore.                                                *)
(*                                                                         *)
(* A spawn starts a job, registers an agent and only then awaits (event,   *)
(* hook), so its job may run, end or be killed before the spawn returns.   *)
(* A kill takes the agent from the registry and cancels the job's task,    *)
(* which may absorb the cancellation inside a tool call.  The rows outlive *)
(* the process; the registry of agents does not.                           *)
(***************************************************************************)
EXTENDS Naturals, FiniteSets

CONSTANTS
    Agent,          \* spawns; one names its agent and its job
    MaxConcurrent,  \* AgentControl.max_concurrent
    MaxRestarts     \* bound: how often the process is restarted

ASSUME LimitAssumption == MaxConcurrent \in Nat /\ MaxRestarts \in Nat
ASSUME AgentsFinite == IsFiniteSet(Agent)

VARIABLES
    spawn,      \* the call of AgentControl.spawn
    live,       \* AgentControl._agents
    state,      \* LiveAgent.state
    told,       \* the completion the frontend was told, completion_emitted
    job,        \* AgentJob.status
    failed,     \* AgentJob.error is set
    task,       \* the asyncio task of AgentJobRuntime._run
    watched,    \* the stall watchdog of the task is waiting
    row,        \* the status in runtime_agent_jobs
    restarts,   \* history: restarts so far
    hasty,      \* history: agents whose job ended before their spawn returned
    absorbed    \* history: agents whose task survived a cancellation

agentVars == <<spawn, live, state, told>>
jobVars == <<job, failed, task, watched, row>>
historyVars == <<restarts, hasty, absorbed>>
vars == <<agentVars, jobVars, historyVars>>

None == "none"
Ended == {"completed", "error", "aborted"}

TypeOK ==
    /\ spawn \in [Agent -> {None, "announcing", "returned", "raised", "refused"}]
    /\ live \subseteq Agent
    /\ state \in [Agent -> {"idle", "thinking"} \cup Ended]
    /\ told \in [Agent -> Ended \cup {None}]
    /\ job \in [Agent -> Ended \cup {None, "queued", "running", "interrupted"}]
    /\ failed \subseteq Agent
    /\ task \in [Agent -> {None, "ready", "running", "cancelling", "done"}]
    /\ watched \subseteq Agent
    /\ row \in [Agent -> Ended \cup {None, "queued", "running"}]
    /\ restarts \in 0..MaxRestarts
    /\ hasty \subseteq Agent /\ absorbed \subseteq Agent

Init ==
    /\ spawn = [a \in Agent |-> None] /\ live = {}
    /\ state = [a \in Agent |-> "idle"] /\ told = [a \in Agent |-> None]
    /\ job = [a \in Agent |-> None] /\ row = [a \in Agent |-> None]
    /\ failed = {} /\ watched = {}
    /\ task = [a \in Agent |-> None]
    /\ restarts = 0 /\ hasty = {} /\ absorbed = {}

-----------------------------------------------------------------------------
(* AgentControl.spawn                                                      *)

\* A registered agent counts until it is completed, failed or aborted.
Occupies(a) == a \in live /\ state[a] \notin Ended

Full == Cardinality({a \in Agent : Occupies(a)}) >= MaxConcurrent

Refuse(a) ==
    /\ spawn[a] = None /\ Full
    /\ spawn' = [spawn EXCEPT ![a] = "refused"]
    /\ UNCHANGED <<live, state, told, jobVars, historyVars>>

\* From the check to the registration nothing is awaited: the job and its
\* row are created, the task scheduled, the agent registered as idle.
Spawn(a) ==
    /\ spawn[a] = None /\ ~Full
    /\ job' = [job EXCEPT ![a] = "queued"]
    /\ row' = [row EXCEPT ![a] = "queued"]
    /\ task' = [task EXCEPT ![a] = "ready"]
    /\ live' = live \cup {a}
    /\ spawn' = [spawn EXCEPT ![a] = "announcing"]
    /\ UNCHANGED <<state, told, failed, watched, historyVars>>

\* The event is emitted and the hook has run: the agent is thinking, unless
\* it was killed meanwhile, which no transition allows.
SpawnReturns(a) ==
    /\ spawn[a] = "announcing"
    /\ IF state[a] = "idle"
       THEN /\ state' = [state EXCEPT ![a] = "thinking"]
            /\ spawn' = [spawn EXCEPT ![a] = "returned"]
       ELSE /\ spawn' = [spawn EXCEPT ![a] = "raised"]
            /\ UNCHANGED state
    /\ UNCHANGED <<live, told, jobVars, historyVars>>

\* The turn that spawns is cancelled at that await; agent and job stay.
SpawnCut(a) ==
    /\ spawn[a] = "announcing"
    /\ spawn' = [spawn EXCEPT ![a] = "raised"]
    /\ hasty' = hasty \cup {a}
    /\ UNCHANGED <<live, state, told, jobVars, restarts, absorbed>>

-----------------------------------------------------------------------------
(* AgentControl.kill and notify_completed                                  *)

\* _emit_completed: the first terminal event reaches the frontend.
Tell(a, status) ==
    told' = IF told[a] = None THEN [told EXCEPT ![a] = status] ELSE told

\* VALID_TRANSITIONS, as far as an agent with a job uses them.
MayBecome(a, status) ==
    IF status = "aborted" THEN state[a] \in {"idle", "thinking"} ELSE state[a] = "thinking"

Aborting(a) ==
    /\ task' = [task EXCEPT ![a] =
                    IF @ = "ready" THEN "done"      \* its coroutine never starts
                    ELSE IF @ = "running" THEN "cancelling" ELSE @]
    /\ job' = [job EXCEPT ![a] = "aborted"]
    /\ row' = [row EXCEPT ![a] = "aborted"]

KillForgetsTask(a) ==  \* mutant: the agent is removed, its job goes on
    /\ job[a] # None /\ a \in live
    /\ live' = live \ {a}
    /\ state' = [state EXCEPT ![a] = IF MayBecome(a, "aborted") THEN "aborted" ELSE @]
    /\ Tell(a, "aborted")
    /\ UNCHANGED <<spawn, jobVars, historyVars>>

\* The job is marked and its task cancelled first; then the agent goes.  An
\* agent that has ended allows no transition: kill raises before it reports.
Kill(a) ==
    /\ job[a] # None
    /\ Aborting(a)
    /\ live' = live \ {a}
    /\ IF a \in live /\ MayBecome(a, "aborted")
       THEN state' = [state EXCEPT ![a] = "aborted"] /\ Tell(a, "aborted")
       ELSE UNCHANGED <<state, told>>
    /\ UNCHANGED <<spawn, failed, watched, historyVars>>

\* A refused transition is an exception that _run logs: nobody is told.
Notify(a, status) ==
    IF a \notin live THEN UNCHANGED <<state, told>>
    ELSE IF state[a] \in Ended THEN Tell(a, status) /\ UNCHANGED state
    ELSE IF MayBecome(a, status)
    THEN state' = [state EXCEPT ![a] = status] /\ Tell(a, status)
    ELSE UNCHANGED <<state, told>>

-----------------------------------------------------------------------------
(* AgentJobRuntime._run and its watchdog                                   *)

Run(a) ==
    /\ task[a] = "ready"
    /\ task' = [task EXCEPT ![a] = "running"]
    /\ job' = [job EXCEPT ![a] = "running"]
    /\ row' = [row EXCEPT ![a] = "running"]
    /\ watched' = watched \cup {a}
    /\ UNCHANGED <<agentVars, failed, historyVars>>

\* finally: stop the watchdog, write the row, notify.
End(a, status) ==
    /\ task' = [task EXCEPT ![a] = "done"]
    /\ job' = [job EXCEPT ![a] = status]
    /\ row' = [row EXCEPT ![a] = status]
    /\ watched' = watched \ {a}
    /\ Notify(a, status)
    /\ hasty' = IF spawn[a] = "announcing" THEN hasty \cup {a} ELSE hasty
    /\ UNCHANGED <<spawn, live, restarts, absorbed>>

Complete(a) ==
    /\ task[a] = "running"
    /\ End(a, "completed")
    /\ UNCHANGED failed

Fail(a) ==
    /\ task[a] = "running"
    /\ End(a, "error")
    /\ failed' = failed \cup {a}

\* A job that has its error already, from the watchdog, keeps its status.
EndCancelled(a) ==
    /\ task[a] = "cancelling"
    /\ End(a, IF a \in failed THEN job[a] ELSE "aborted")
    /\ failed' = failed \cup {a}

\* The orchestrator turns a cancellation inside a tool call into a result.
Absorb(a) ==
    /\ task[a] = "cancelling" /\ a \notin absorbed
    /\ task' = [task EXCEPT ![a] = "running"]
    /\ absorbed' = absorbed \cup {a}
    /\ UNCHANGED <<agentVars, job, failed, watched, row, restarts, hasty>>

StallForgetsTask(a) ==  \* mutant: the job is marked, its task not cancelled
    /\ task[a] \in {"running", "cancelling"} /\ a \in watched
    /\ failed' = failed \cup {a}
    /\ job' = [job EXCEPT ![a] = "error"]
    /\ watched' = watched \ {a}
    /\ UNCHANGED <<agentVars, task, row, historyVars>>

\* _watch_stall, once: the task has not moved for a quarter of an hour.
Stall(a) ==
    /\ task[a] \in {"running", "cancelling"} /\ a \in watched
    /\ failed' = failed \cup {a}
    /\ job' = [job EXCEPT ![a] = "error"]
    /\ task' = [task EXCEPT ![a] = "cancelling"]
    /\ watched' = watched \ {a}
    /\ UNCHANGED <<agentVars, row, historyVars>>

-----------------------------------------------------------------------------
(* The process dies; a new one loads the rows                              *)

LoadedAsIs(status) == status  \* mutant: a running row is believed

\* _load_jobs: in memory only, the row stays as it is.
Loaded(status) == IF status = "running" THEN "interrupted" ELSE status

Restart ==
    /\ restarts < MaxRestarts
    /\ restarts' = restarts + 1
    /\ job' = [a \in Agent |-> Loaded(row[a])]
    /\ task' = [a \in Agent |-> IF task[a] = None THEN None ELSE "done"]
    /\ spawn' = [a \in Agent |-> IF spawn[a] = "announcing" THEN "raised" ELSE spawn[a]]
    /\ live' = {} /\ watched' = {}
    /\ failed' = {a \in failed : row[a] \in Ended}
    /\ UNCHANGED <<state, told, row, hasty, absorbed>>

-----------------------------------------------------------------------------
Next ==
    \/ \E a \in Agent :
        \/ Spawn(a) \/ Refuse(a) \/ SpawnReturns(a) \/ SpawnCut(a) \/ Kill(a)
        \/ Run(a) \/ Complete(a) \/ Fail(a) \/ EndCancelled(a) \/ Absorb(a) \/ Stall(a)
    \/ Restart

Spec == Init /\ [][Next]_vars

(***************************************************************************)
(* Fairness: the event loop starts the task and delivers a cancellation,   *)
(* the hook of a spawn has a time limit, the watchdog samples for ever.    *)
(* Nothing is assumed of the turn: it may hang.                            *)
(***************************************************************************)
Scheduling ==
    \A a \in Agent :
        WF_vars(SpawnReturns(a)) /\ WF_vars(Run(a)) /\ WF_vars(Stall(a)) /\ WF_vars(EndCancelled(a))

FairSpec == Spec /\ Scheduling

-----------------------------------------------------------------------------
(* Properties                                                              *)

\* No more jobs run than the limit, whatever is spawned, killed and reported
\* meanwhile, not counting those told to stop.
RunsUnbidden(a) == task[a] \in {"ready", "running"} /\ a \notin absorbed
AtMostMaxRun == Cardinality({a \in Agent : RunsUnbidden(a)}) <= MaxConcurrent

\* What the frontend was told is how the job ended, unless it was killed
\* afterwards; a killed job does not complete, unless it absorbs the kill.
ReportTrue ==
    \A a \in Agent :
        /\ told[a] \in {"completed", "error"} => job[a] \in {told[a], "aborted"}
        /\ told[a] = "aborted" /\ a \notin absorbed => job[a] # "completed"

\* Once a task is over the row says what memory says, so that a restart
\* shows it; only an interrupted job differs.
RowFollowsJob ==
    \A a \in Agent :
        task[a] \in {"done", "ready"} => job[a] = Loaded(row[a])

\* No job is shown as running that has no task, a restart included.
NoZombie == \A a \in Agent : job[a] = "running" => task[a] \in {"running", "cancelling"}

\* A job that is over no longer takes one of the few slots, unless it ended
\* before its spawn had returned.
SlotFreedAfterSpawn ==
    \A a \in Agent \ hasty : task[a] = "done" => ~Occupies(a)

\* Memory, table and tasks agree about every job and every slot.
Consistent == TypeOK /\ RowFollowsJob /\ NoZombie /\ SlotFreedAfterSpawn

\* A hung job is bounded: the watchdog ends it, it is reported and its slot
\* is free again, unless the turn absorbs the cancellation.
HungJobEnds ==
    \A a \in Agent :
        a \in live ~> (a \notin live \/ told[a] # None \/ a \in hasty \cup absorbed)
=============================================================================
