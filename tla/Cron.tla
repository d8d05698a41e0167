-------------------------------- MODULE Cron --------------------------------
(***************************************************************************)
(* Scheduled jobs: CronService (miqi/cron/service.py) and the processes    *)
(* that share its file jobs.json.  The gateway loads the file once, keeps  *)
(* its store in memory, runs what is due and writes the whole store back.  *)
(* A desktop handler or a CLI command is a load, a change and a save in    *)
(* one step; `miqi cron run` loads, runs the job for as long as it takes   *)
(* and saves what it had loaded.  Nothing locks the file.                  *)
(***************************************************************************)
EXTENDS Naturals, FiniteSets

CONSTANTS
    Job,         \* job ids; the user creates each at most once
    OneShot,     \* jobs with an "at" schedule; the others recur
    MaxEdits,    \* bound: changes by the user
    MaxCrashes   \* bound: deaths of the gateway

NoJob == "no job"

ASSUME JobAssumption ==
    OneShot \subseteq Job /\ NoJob \notin Job /\ MaxEdits \in Nat /\ MaxCrashes \in Nat

VARIABLES
    file,      \* jobs.json
    torn,      \* jobs.json is cut off: json.loads fails
    memory,    \* _store of the gateway
    timer,     \* the gateway: down, or its timer
    batch,     \* due_jobs not started yet
    current,   \* the job in _execute_job
    elapsed,   \* the time of a one-shot job, or the gateway's next_run_at_ms
               \* of a recurring one, has come
    cli,       \* the job `miqi cron run` executes
    copy,      \* _store of that process
    wanted,    \* history: jobs created by the user and not removed
    made,      \* history: jobs ever created
    begun,     \* history: one-shot jobs the gateway began, and how often
    mishaps,   \* history: what happened of "overlap" (two stores in use at
               \* once, of which one is saved) and "torn"
    edits, crashes

gatewayVars == <<memory, timer, batch, current>>
cliVars == <<cli, copy>>
cronVars == <<file, torn, gatewayVars, elapsed, cliVars, wanted, made, begun, mishaps,
              edits, crashes>>

\* A store: its jobs, the enabled ones, those with a next_run_at_ms.
Store == [jobs : SUBSET Job, on : SUBSET Job, next : SUBSET Job]
Empty == [jobs |-> {}, on |-> {}, next |-> {}]

CronTypeOK ==
    /\ {file, memory, copy} \subseteq Store /\ torn \in BOOLEAN
    /\ timer \in {"down", "off", "armed", "running"}
    /\ batch \subseteq Job /\ current \in Job \cup {NoJob} /\ cli \in Job \cup {NoJob}
    /\ elapsed \subseteq Job /\ wanted \subseteq made /\ made \subseteq Job
    /\ begun \in [OneShot -> 0..2] /\ mishaps \subseteq {"overlap", "torn"}
    /\ edits \in 0..MaxEdits /\ crashes \in 0..MaxCrashes

CronInit ==
    /\ file = Empty /\ memory = Empty /\ copy = Empty /\ torn = FALSE
    /\ timer = "down" /\ batch = {} /\ current = NoJob /\ cli = NoJob
    /\ elapsed = {} /\ wanted = {} /\ made = {}
    /\ begun = [j \in OneShot |-> 0] /\ mishaps = {}
    /\ edits = 0 /\ crashes = 0

-----------------------------------------------------------------------------
(* The store                                                               *)

\* _load_store: a file that does not parse is an empty store.
Loaded == IF torn THEN Empty ELSE file

Save(store) == file' = store /\ torn' = FALSE

CatchingUp(jobs) == jobs  \* mutant: the missed time of a one-shot job counts

\* _compute_next_run: a one-shot job whose time has passed has no next run.
WithNextRun(jobs) == {j \in jobs : j \in OneShot => j \notin elapsed}

\* _execute_job, after the run: a one-shot job is switched off.
After(store, j) ==
    IF j \in OneShot
    THEN [jobs |-> store.jobs, on |-> store.on \ {j}, next |-> store.next \ {j}]
    ELSE [jobs |-> store.jobs, on |-> store.on, next |-> store.next \cup {j}]

Armed(store) == IF store.on \cap store.next = {} THEN "off" ELSE "armed"

-----------------------------------------------------------------------------
(* The gateway                                                             *)

StartUnloaded ==  \* mutant: the store is written before it is loaded
    /\ timer = "down"
    /\ memory' = Empty /\ Save(Empty) /\ timer' = Armed(Empty)
    /\ elapsed' = elapsed \cap OneShot
    /\ mishaps' = IF cli = NoJob THEN mishaps ELSE mishaps \cup {"overlap"}
    /\ UNCHANGED <<batch, current, cliVars, wanted, made, begun, edits, crashes>>

\* Load, recompute the next runs, save, arm the timer.
Start ==
    /\ timer = "down"
    /\ memory' = [jobs |-> Loaded.jobs, on |-> Loaded.on,
                   next |-> (Loaded.next \ Loaded.on) \cup WithNextRun(Loaded.on)]
    /\ Save(memory') /\ timer' = Armed(memory')
    /\ elapsed' = elapsed \cap OneShot
    /\ mishaps' = IF cli = NoJob THEN mishaps ELSE mishaps \cup {"overlap"}
    /\ UNCHANGED <<batch, current, cliVars, wanted, made, begun, edits, crashes>>

Elapse(j) ==
    /\ j \notin elapsed /\ j \in OneShot \cup memory.next
    /\ elapsed' = elapsed \cup {j}
    /\ UNCHANGED <<file, torn, gatewayVars, cliVars, wanted, made, begun, mishaps, edits, crashes>>

Due == memory.on \cap memory.next \cap elapsed

\* The timer sleeps until the earliest next run; what is due is a snapshot.
Wake ==
    /\ timer = "armed" /\ Due # {}
    /\ timer' = "running" /\ batch' = Due
    /\ UNCHANGED <<file, torn, memory, current, elapsed, cliVars, wanted, made, begun, mishaps,
                   edits, crashes>>

Begin(j) ==
    /\ timer = "running" /\ current = NoJob /\ j \in batch
    /\ current' = j /\ batch' = batch \ {j}
    /\ begun' = IF j \in OneShot THEN [begun EXCEPT ![j] = @ + 1] ELSE begun
    /\ UNCHANGED <<file, torn, memory, timer, elapsed, cliVars, wanted, made, mishaps, edits, crashes>>

Finish ==
    /\ current # NoJob
    /\ memory' = After(memory, current) /\ current' = NoJob
    /\ elapsed' = elapsed \ ({current} \ OneShot)
    /\ UNCHANGED <<file, torn, timer, batch, cliVars, wanted, made, begun, mishaps, edits, crashes>>

BatchDone == timer = "running" /\ batch = {} /\ current = NoJob

\* The store is saved when the whole batch has run, then the timer armed.
SaveAndArm ==
    /\ BatchDone
    /\ Save(memory) /\ timer' = Armed(memory)
    /\ UNCHANGED <<memory, batch, current, elapsed, cliVars, wanted, made, begun, mishaps, edits, crashes>>

\* stop() saves nothing either.  Dying inside write_text cuts the file off.
Crash ==
    /\ timer # "down" /\ crashes < MaxCrashes
    /\ memory' = Empty /\ timer' = "down" /\ batch' = {} /\ current' = NoJob
    /\ crashes' = crashes + 1
    /\ \/ UNCHANGED <<torn, mishaps>>
       \/ BatchDone /\ torn' = TRUE /\ mishaps' = mishaps \cup {"torn"}
    /\ UNCHANGED <<file, elapsed, cliVars, wanted, made, begun, edits>>

-----------------------------------------------------------------------------
(* The user, through the desktop or the command line                       *)

Edit ==
    /\ edits < MaxEdits /\ edits' = edits + 1
    /\ mishaps' = IF timer = "down" /\ cli = NoJob THEN mishaps ELSE mishaps \cup {"overlap"}
    /\ UNCHANGED <<gatewayVars, elapsed, cliVars, begun, crashes>>

Create(j) ==
    /\ j \notin made
    /\ Save([jobs |-> Loaded.jobs \cup {j}, on |-> Loaded.on \cup {j},
             next |-> Loaded.next \cup WithNextRun({j})])
    /\ wanted' = wanted \cup {j} /\ made' = made \cup {j}
    /\ Edit

RemoveJob(j) ==
    /\ j \in Loaded.jobs
    /\ Save([jobs |-> Loaded.jobs \ {j}, on |-> Loaded.on \ {j}, next |-> Loaded.next \ {j}])
    /\ wanted' = wanted \ {j} /\ UNCHANGED made
    /\ Edit

Toggle(j, enabled) ==
    /\ j \in Loaded.jobs
    /\ Save([jobs |-> Loaded.jobs,
             on |-> IF enabled THEN Loaded.on \cup {j} ELSE Loaded.on \ {j},
             next |-> (Loaded.next \ {j}) \cup IF enabled THEN WithNextRun({j}) ELSE {}])
    /\ UNCHANGED <<wanted, made>>
    /\ Edit

\* The desktop's service has no on_job: the job is marked as run.
MarkRun(j) ==
    /\ j \in Loaded.jobs
    /\ Save(After(Loaded, j))
    /\ UNCHANGED <<wanted, made>>
    /\ Edit

\* `miqi cron run`, a process of its own.
RunBegins(j) ==
    /\ cli = NoJob /\ j \in Loaded.jobs
    /\ edits < MaxEdits /\ edits' = edits + 1
    /\ cli' = j /\ copy' = Loaded
    /\ mishaps' = IF timer = "down" THEN mishaps ELSE mishaps \cup {"overlap"}
    /\ UNCHANGED <<file, torn, gatewayVars, elapsed, wanted, made, begun, crashes>>

RunEnds ==
    /\ cli # NoJob
    /\ Save(After(copy, cli))
    /\ cli' = NoJob /\ copy' = Empty
    /\ UNCHANGED <<gatewayVars, elapsed, wanted, made, begun, mishaps, edits, crashes>>

RunDies ==
    /\ cli # NoJob
    /\ cli' = NoJob /\ copy' = Empty
    /\ UNCHANGED <<file, torn, gatewayVars, elapsed, wanted, made, begun, mishaps, edits, crashes>>

UserStep ==
    \/ \E j \in Job : Create(j) \/ RemoveJob(j) \/ MarkRun(j) \/ RunBegins(j)
    \/ \E j \in Job, enabled \in BOOLEAN : Toggle(j, enabled)
    \/ RunEnds \/ RunDies

-----------------------------------------------------------------------------
(* Properties                                                              *)

\* The gateway begins a one-shot job at most once, whatever it crashes in,
\* whatever is switched on again meanwhile and whichever copy of the file
\* is written last.
OneShotOnce == \A j \in OneShot : begun[j] <= 1

\* The file holds the jobs the user wants, no lost and no revived one, unless
\* two stores were in use at once or a write was cut off.
JobsKept == mishaps = {} => Loaded.jobs = wanted

\* The same of what the gateway runs: nothing that was removed.
RunsWanted == mishaps = {} /\ current # NoJob => current \in wanted

\* Between two batches the file is what the gateway believes.
SavedIsTrue == mishaps = {} /\ timer \in {"off", "armed"} => file = memory

\* What is due runs, one-shot or recurring: the timer is armed again after
\* every batch.
DueRuns == \A j \in Job : (j \in Due) ~> (current = j \/ timer = "down")
=============================================================================
