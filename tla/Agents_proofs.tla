--------------------------- MODULE Agents_proofs ---------------------------
(***************************************************************************)
(* Theorems about the sub-agents of a session, for any number of agents,   *)
(* any limit and any number of restarts.                                   *)
(***************************************************************************)
EXTENDS Agents, FiniteSetTheorems, TLAPS

(***************************************************************************)
(* Why the four views of an agent agree: what each stage of its task says  *)
(* about the other variables.                                              *)
(***************************************************************************)

\* Nothing exists of an agent that was not spawned.
Unborn(a) ==
    spawn[a] \in {None, "refused"} =>
        /\ job[a] = None /\ row[a] = None /\ task[a] = None /\ told[a] = None
        /\ state[a] = "idle" /\ a \notin live /\ a \notin failed

Born(a) ==
    spawn[a] \notin {None, "refused"} => job[a] # None /\ row[a] # None /\ task[a] # None

\* The task has not started: nothing has failed, nothing was told.
Waiting(a) ==
    task[a] = "ready" => job[a] = "queued" /\ row[a] = "queued" /\ a \notin failed /\ told[a] = None

\* The task runs or cleans up: no end but a kill has been written or told.
Underway(a) ==
    task[a] \in {"running", "cancelling"} =>
        /\ job[a] \in {"running", "error", "aborted"} /\ row[a] \in {"running", "aborted"}
        /\ told[a] \in {None, "aborted"} /\ (a \in failed => job[a] \in {"error", "aborted"})

\* What runs unbidden takes a slot; an idle agent is about to think.
Counted(a) ==
    /\ RunsUnbidden(a) => Occupies(a)
    /\ a \in live /\ state[a] = "idle" /\ a \notin hasty => spawn[a] = "announcing"

\* A killed agent's task is told to stop.
Stopped(a) ==
    told[a] = "aborted" /\ a \notin absorbed => task[a] \in {"cancelling", "done"}

AgentInv(a) ==
    /\ Unborn(a) /\ Born(a) /\ Waiting(a) /\ Underway(a) /\ Counted(a) /\ Stopped(a)
    /\ task[a] \in {"done", "ready"} => job[a] = Loaded(row[a])
    /\ job[a] = "running" => task[a] \in {"running", "cancelling"}
    /\ a \notin hasty /\ task[a] = "done" => ~Occupies(a)
    /\ told[a] \in {"completed", "error"} => job[a] \in {told[a], "aborted"} /\ task[a] = "done"
    /\ told[a] = "aborted" /\ a \notin absorbed => job[a] # "completed"

IInv == TypeOK /\ \A a \in Agent : AgentInv(a)

USE DEF None, Ended

\* Nobody has been spawned.
LEMMA InitIInv == Init => IInv
BY LimitAssumption DEF Init, IInv, TypeOK, AgentInv, Unborn, Born, Waiting, Underway, Counted,
    Stopped, RunsUnbidden, Occupies, Loaded

\* The end of a task, whichever way it ends.
LEMMA EndStep ==
    ASSUME IInv, NEW a \in Agent, NEW status \in Ended, End(a, status),
           task[a] \in {"running", "cancelling"},
           status = "completed" => task[a] = "running",
           failed' \in {failed, failed \cup {a}}
    PROVE  IInv'
<1>1. TypeOK'
  BY DEF IInv, TypeOK, End, Notify, Tell, MayBecome
<1>2. ASSUME NEW b \in Agent PROVE AgentInv(b)'
  <2>1. CASE b = a
    BY <2>1 DEF IInv, TypeOK, AgentInv, Unborn, Born, Waiting, Underway, Counted, Stopped,
        RunsUnbidden, Occupies, Loaded, End, Notify, Tell, MayBecome
  <2>2. CASE b # a
    BY <2>2 DEF IInv, TypeOK, AgentInv, Unborn, Born, Waiting, Underway, Counted, Stopped,
        RunsUnbidden, Occupies, Loaded, End, Notify, Tell, MayBecome
  <2>3. QED  BY <2>1, <2>2
<1>3. QED  BY <1>1, <1>2 DEF IInv

\* Killing an agent, which disturbs its own job, task, row and report only.
LEMMA KillStep ==
    ASSUME IInv, NEW a \in Agent, Kill(a)
    PROVE  IInv'
<1>1. TypeOK'
  BY DEF IInv, TypeOK, Kill, Aborting, Tell, MayBecome, historyVars
<1>2. ASSUME NEW b \in Agent PROVE AgentInv(b)'
  <2>1. CASE b = a
    BY <2>1 DEF IInv, TypeOK, AgentInv, Unborn, Born, Waiting, Underway, Counted, Stopped,
        RunsUnbidden, Occupies, Loaded, Kill, Aborting, Tell, MayBecome, historyVars
  <2>2. CASE b # a
    BY <2>2 DEF IInv, TypeOK, AgentInv, Unborn, Born, Waiting, Underway, Counted, Stopped,
        RunsUnbidden, Occupies, Loaded, Kill, Aborting, Tell, MayBecome, historyVars
  <2>3. QED  BY <2>1, <2>2
<1>3. QED  BY <1>1, <1>2 DEF IInv

\* The stages of a spawn: registered, refused, returned or cut short.
LEMMA SpawnStep ==
    ASSUME IInv, NEW a \in Agent,
           Spawn(a) \/ Refuse(a) \/ SpawnReturns(a) \/ SpawnCut(a)
    PROVE  IInv'
<1>1. TypeOK'
  BY DEF IInv, TypeOK, Spawn, Refuse, SpawnReturns, SpawnCut, jobVars, historyVars
<1>2. ASSUME NEW b \in Agent PROVE AgentInv(b)'
  BY DEF IInv, TypeOK, AgentInv, Unborn, Born, Waiting, Underway, Counted, Stopped,
      RunsUnbidden, Occupies, Loaded, Spawn, Refuse, SpawnReturns, SpawnCut, jobVars, historyVars
<1>3. QED  BY <1>1, <1>2 DEF IInv

\* The first step of a task, a cancellation absorbed, and the watchdog.
LEMMA TaskStep ==
    ASSUME IInv, NEW a \in Agent, Run(a) \/ Absorb(a) \/ Stall(a)
    PROVE  IInv'
<1>1. TypeOK'
  BY DEF IInv, TypeOK, Run, Absorb, Stall, agentVars, historyVars
<1>2. ASSUME NEW b \in Agent PROVE AgentInv(b)'
  BY DEF IInv, TypeOK, AgentInv, Unborn, Born, Waiting, Underway, Counted, Stopped,
      RunsUnbidden, Occupies, Loaded, Run, Absorb, Stall, agentVars, historyVars
<1>3. QED  BY <1>1, <1>2 DEF IInv

\* A restart keeps the rows and forgets the rest.
LEMMA RestartStep ==
    ASSUME IInv, Restart
    PROVE  IInv'
<1>1. TypeOK'
  BY LimitAssumption DEF IInv, TypeOK, Restart, Loaded
<1>2. ASSUME NEW b \in Agent PROVE AgentInv(b)'
  BY DEF IInv, TypeOK, AgentInv, Unborn, Born, Waiting, Underway, Counted, Stopped,
      RunsUnbidden, Occupies, Loaded, Restart
<1>3. QED  BY <1>1, <1>2 DEF IInv

\* Every step keeps what is known of every agent.
LEMMA NextIInv == IInv /\ [Next]_vars => IInv'
<1> SUFFICES ASSUME IInv, [Next]_vars PROVE IInv'
  OBVIOUS
<1>1. ASSUME NEW a \in Agent, Spawn(a) \/ Refuse(a) \/ SpawnReturns(a) \/ SpawnCut(a) PROVE IInv'
  BY <1>1, SpawnStep
<1>2. ASSUME NEW a \in Agent, Kill(a) PROVE IInv'
  BY <1>2, KillStep
<1>3. ASSUME NEW a \in Agent, Run(a) \/ Absorb(a) \/ Stall(a) PROVE IInv'
  BY <1>3, TaskStep
<1>4. ASSUME NEW a \in Agent, Complete(a) PROVE IInv'
  BY <1>4, EndStep DEF Complete
<1>5. ASSUME NEW a \in Agent, Fail(a) PROVE IInv'
  BY <1>5, EndStep DEF Fail
<1>6. ASSUME NEW a \in Agent, EndCancelled(a) PROVE IInv'
  <2> DEFINE status == IF a \in failed THEN job[a] ELSE "aborted"
  <2>1. status \in {"error", "aborted"} /\ task[a] = "cancelling"
    BY <1>6 DEF EndCancelled, IInv, AgentInv, Underway
  <2>2. End(a, status) /\ failed' = failed \cup {a}
    BY <1>6 DEF EndCancelled
  <2> HIDE DEF status
  <2>3. QED  BY <2>1, <2>2, EndStep
<1>7. ASSUME Restart PROVE IInv'
  BY <1>7, RestartStep
<1>8. CASE UNCHANGED vars
  BY <1>8
     DEF vars, agentVars, jobVars, historyVars, IInv, TypeOK, AgentInv, Unborn, Born, Waiting,
      Underway, Counted, Stopped, RunsUnbidden, Occupies, Loaded
<1>9. QED
  BY <1>1, <1>2, <1>3, <1>4, <1>5, <1>6, <1>7, <1>8 DEF Next

\* What memory, task, row, slot and report of an agent say of each other, at
\* each stage of its spawn and across kill, stall and restart.
THEOREM IInvHolds == Spec => []IInv
BY InitIInv, NextIInv, PTL DEF Spec

(***************************************************************************)
(* What follows from it.                                                   *)
(***************************************************************************)

\* Job, row, task and slot of every agent agree, across kills, stalls,
\* absorbed cancellations and restarts.
THEOREM AgentsConsistent == Spec => []Consistent
<1>1. IInv => Consistent
  BY DEF IInv, AgentInv, Consistent, RowFollowsJob, NoZombie, SlotFreedAfterSpawn
<1>2. QED  BY IInvHolds, <1>1, PTL

\* The frontend's last word on an agent is how its job ended.
THEOREM ReportsAreTrue == Spec => []ReportTrue
<1>1. IInv => ReportTrue
  BY DEF IInv, AgentInv, ReportTrue
<1>2. QED  BY IInvHolds, <1>1, PTL

(***************************************************************************)
(* The limit: spawn counts the agents that take a slot before it takes     *)
(* one, and nothing else adds to them.                                     *)
(***************************************************************************)

Occupying == {a \in Agent : Occupies(a)}
WithinLimit == Cardinality(Occupying) <= MaxConcurrent

\* The agents that occupy a slot can be counted.
LEMMA OccupyingFinite == IsFiniteSet(Occupying)
BY AgentsFinite, FS_Subset DEF Occupying

\* A step that adds nobody keeps within the limit.
LEMMA NobodyAdded ==
    ASSUME WithinLimit, Occupying' \subseteq Occupying
    PROVE  WithinLimit'
<1>1. /\ IsFiniteSet(Occupying')
      /\ Cardinality(Occupying') <= Cardinality(Occupying)
  BY OccupyingFinite, FS_Subset
<1>2. Cardinality(Occupying) \in Nat /\ Cardinality(Occupying') \in Nat
  BY <1>1, OccupyingFinite, FS_CardinalityType
<1>3. WithinLimit' <=> Cardinality(Occupying') <= MaxConcurrent
  BY DEF WithinLimit
<1>4. QED  BY <1>1, <1>2, <1>3, LimitAssumption DEF WithinLimit

\* A spawn counts the slots taken before it takes one.
LEMMA SpawnWithinLimit ==
    ASSUME IInv, WithinLimit, NEW a \in Agent, Spawn(a)
    PROVE  WithinLimit'
<1>1. Occupying' = Occupying \cup {a} /\ a \notin Occupying
  BY DEF Occupying, Occupies, Spawn, IInv, AgentInv, Unborn, TypeOK
<1>2. ~(Cardinality(Occupying) >= MaxConcurrent)
  BY DEF Spawn, Full, Occupying
<1>3. Cardinality(Occupying \cup {a}) = Cardinality(Occupying) + 1
  BY <1>1, OccupyingFinite, FS_AddElement
<1>4. Cardinality(Occupying) \in Nat
  BY OccupyingFinite, FS_CardinalityType
<1>5. WithinLimit' <=> Cardinality(Occupying') <= MaxConcurrent
  BY DEF WithinLimit
<1>6. QED  BY <1>1, <1>2, <1>3, <1>4, <1>5, LimitAssumption

\* No other step takes a slot.
LEMMA NextWithinLimit == IInv /\ WithinLimit /\ [Next]_vars => WithinLimit'
<1> SUFFICES ASSUME IInv, WithinLimit, [Next]_vars PROVE WithinLimit'
  OBVIOUS
<1>1. ASSUME NEW a \in Agent, Spawn(a) PROVE WithinLimit'
  BY <1>1, SpawnWithinLimit
<1>2. ASSUME NEW a \in Agent,
             Refuse(a) \/ SpawnReturns(a) \/ SpawnCut(a) \/ Kill(a) \/ Run(a) \/ Absorb(a) \/ Stall(a)
      PROVE  WithinLimit'
  <2>1. Occupying' \subseteq Occupying
    BY <1>2 DEF Occupying, Occupies, IInv, TypeOK, Refuse, SpawnReturns, SpawnCut, Kill, Tell,
        MayBecome, Run, Absorb, Stall, agentVars
  <2>2. QED  BY <2>1, NobodyAdded
<1>3. ASSUME NEW a \in Agent, Complete(a) \/ Fail(a) \/ EndCancelled(a) PROVE WithinLimit'
  <2>1. PICK status : End(a, status)
    BY <1>3 DEF Complete, Fail, EndCancelled
  <2>2. Occupying' \subseteq Occupying
    BY <2>1 DEF Occupying, Occupies, IInv, TypeOK, End, Notify, Tell, MayBecome
  <2>3. QED  BY <2>2, NobodyAdded
<1>4. CASE Restart
  <2>1. Occupying' \subseteq Occupying
    BY <1>4 DEF Occupying, Occupies, Restart
  <2>2. QED  BY <2>1, NobodyAdded
<1>5. CASE UNCHANGED vars
  <2>1. Occupying' \subseteq Occupying
    BY <1>5 DEF Occupying, Occupies, vars, agentVars
  <2>2. QED  BY <2>1, NobodyAdded
<1>6. QED  BY <1>1, <1>2, <1>3, <1>4, <1>5 DEF Next

\* No more jobs run than max_concurrent allows, whatever is killed, reported
\* or restarted meanwhile.
THEOREM LimitKept == Spec => []AtMostMaxRun
<1>1. Init => WithinLimit
  <2>1. ASSUME Init PROVE Occupying = {}
    BY <2>1 DEF Init, Occupying, Occupies
  <2>2. QED  BY <2>1, FS_EmptySet, LimitAssumption DEF WithinLimit
<1>2. IInv /\ WithinLimit => AtMostMaxRun
  <2> SUFFICES ASSUME IInv, WithinLimit PROVE AtMostMaxRun
    OBVIOUS
  <2> DEFINE Unbidden == {a \in Agent : RunsUnbidden(a)}
  <2>1. Unbidden \subseteq Occupying
    BY DEF IInv, AgentInv, Counted, Occupying
  <2>2. IsFiniteSet(Unbidden) /\ Cardinality(Unbidden) <= Cardinality(Occupying)
    BY <2>1, OccupyingFinite, FS_Subset
  <2>3. Cardinality(Unbidden) \in Nat /\ Cardinality(Occupying) \in Nat
    BY <2>2, OccupyingFinite, FS_CardinalityType
  <2>4. Cardinality(Unbidden) <= MaxConcurrent
    <3> HIDE DEF Unbidden
    <3>1. QED  BY <2>2, <2>3, LimitAssumption DEF WithinLimit
  <2>5. QED  BY <2>4 DEF AtMostMaxRun
<1>3. QED
  BY IInvHolds, <1>1, <1>2, NextWithinLimit, PTL DEF Spec
=============================================================================
