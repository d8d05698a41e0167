---------------------------- MODULE Bridge_proofs ----------------------------
(***************************************************************************)
(* Theorems about the bridge process manager, for any number of processes, *)
(* requests and streams.                                                   *)
(***************************************************************************)
EXTENDS Bridge, TLAPS

(***************************************************************************)
(* Why overlapping start(), stop() and restart() do not lose a process, as *)
(* long as no start() spawns while restart() waits, and why a stop() that  *)
(* meets neither a restart() nor another stop() is final.                  *)
(***************************************************************************)

Live == state \in {"running", "starting"}

\* A stop is of the current process, and a restart waits in one place.
OneStop ==
    /\ stopping # None => process \in {None, stopping} /\ stopping \in told
    /\ "restart" \in waiting => reloading.step # "waiting"

\* While restart() waits the bridge is down, and nothing makes it live.
OneAtATime ==
    reloading.step = "waiting" => ~Live /\ (process = None \/ at[process] = "done")

\* What is replaced has been told to stop, and nobody waits for its answer.
SafeToReplace ==
    /\ ~Live => process = None \/ process \in told
    /\ \A p \in Process : Alive(p) => p = process \/ p \in told
    /\ \A r \in Request : sentTo[r] # None =>
        /\ process # None /\ sentTo[r] = process
        /\ reloading.step # "waiting"
        /\ state = "running" \/ stopping = process

\* After stop() no start() is on its way that could still spawn.
Unwanted ==
    ~wanted => process \in {None, stopping} /\ reloading.step # "waiting" /\ waiting = {}

StopMetNobody == crossed \cap {"stop", "absorbed"} = {}

IInv ==
    /\ TypeOK /\ RunningServes /\ OneStop
    /\ "start" \notin crossed => OneAtATime /\ SafeToReplace
    /\ StopMetNobody => Unwanted

USE DEF None, Process

\* TypeOK in three parts, which the provers take one at a time.
ProcessTypes ==
    /\ state \in {"stopped", "starting", "running", "stopping", "error"}
    /\ process \in Process \cup {None} /\ spawned \in 0..MaxSpawns
    /\ os \in [Process -> {"none", "booting", "ready", "exited", "closed"}]
    /\ told \subseteq Process
    /\ at \in [Process -> {"none", "handshake", "settling", "initializing", "done", "failed"}]

\* What waits for a process.
RequestTypes ==
    /\ stopping \in Process \cup {None}
    /\ reloading \in [step : {"none", "waiting", "starting"}, of : Process \cup {None}]
    /\ waiting \subseteq {"user", "restart"}
    /\ asked \subseteq Request
    /\ sentTo \in [Request -> Process \cup {None}]
    /\ crossed \subseteq Crossings

\* The flags of the manager.
Flags ==
    /\ initialized \in BOOLEAN /\ watching \in BOOLEAN /\ timer \in BOOLEAN
    /\ deferred \in BOOLEAN /\ cooling \in BOOLEAN /\ wanted \in BOOLEAN

\* A spawned process is one of the processes.
LEMMA SpawnTypes ==
    ASSUME TypeOK, Spawned, UNCHANGED told
    PROVE  /\ ProcessTypes' /\ spawned + 1 \in Process
           /\ process' = spawned + 1 /\ state' = "starting"
<1>1. spawned + 1 \in Process /\ spawned + 1 \in 0..MaxSpawns
  BY MaxSpawnsAssumption DEF TypeOK, Spawned, Room
<1>2. QED  BY <1>1 DEF TypeOK, Spawned, ProcessTypes

\* A failed start leaves known values.
LEMMA FailTypes ==
    ASSUME TypeOK, NEW p \in Process, StartFails(p), UNCHANGED spawned,
           os' \in [Process -> {"none", "booting", "ready", "exited", "closed"}]
    PROVE  ProcessTypes'
<1>1. CASE process = p
  <2>1. at' \in [Process -> {"none", "handshake", "settling", "initializing", "done", "failed"}]
    BY <1>1 DEF TypeOK, StartFails, Failing
  <2>2. state' = "error" /\ process' = None /\ told' = told \cup {p}
    BY <1>1 DEF StartFails
  <2>3. QED  BY <2>1, <2>2 DEF TypeOK, ProcessTypes
<1>2. CASE process # p
  BY <1>2 DEF TypeOK, StartFails, ProcessTypes
<1>3. QED  BY <1>1, <1>2

\* The manager begins without a process.
LEMMA InitIInv == Init => IInv
<1>1. ASSUME Init PROVE TypeOK
  <2>1. ProcessTypes
    BY <1>1, MaxSpawnsAssumption DEF Init, ProcessTypes
  <2>2. RequestTypes /\ Flags
    BY <1>1 DEF Init, RequestTypes, Flags, NoReload
  <2>3. QED  BY <2>1, <2>2 DEF TypeOK, ProcessTypes, RequestTypes, Flags
<1>2. Init => RunningServes /\ OneStop /\ OneAtATime /\ Unwanted
  BY DEF Init, RunningServes, OneStop, OneAtATime, Unwanted, Live, NoReload
<1>3. Init => SafeToReplace
  BY DEF Init, SafeToReplace, Alive
<1>4. QED  BY <1>1, <1>2, <1>3 DEF IInv

\* The user starts the bridge.
LEMMA StartStep ==
    ASSUME IInv, Start
    PROVE  IInv'
<1>1. TypeOK'
  <2>1. ProcessTypes'
    BY SpawnTypes DEF IInv, TypeOK, ProcessTypes, Spawns, Start, Room, startVars, requestVars,
      reloadVars, historyVars
  <2>2. RequestTypes'
    BY SpawnTypes
       DEF IInv, TypeOK, RequestTypes, Crossings, NoReload, StartCrosses, Spawns, Start, Room,
           startVars,
      requestVars, reloadVars, historyVars
  <2>3. Flags'
    BY DEF IInv, TypeOK, Flags, MayReload, Reloading, StartCrosses, Spawns, Start, Spawned,
       Room, startVars,
      requestVars, reloadVars, historyVars
  <2>4. QED  BY <2>1, <2>2, <2>3 DEF TypeOK, ProcessTypes, RequestTypes, Flags
<1>2. RunningServes'
  BY MaxSpawnsAssumption
     DEF IInv, TypeOK, RunningServes, Alive, StartCrosses, Spawns, Start, Spawned, Room,
      startVars, requestVars, reloadVars, historyVars
<1>3. OneStop'
  BY MaxSpawnsAssumption
     DEF IInv, TypeOK, OneStop, NoReload, Reloading, StartCrosses, Spawns, Start, Spawned, Room,
         startVars, requestVars, reloadVars, historyVars
<1>4. ASSUME "start" \notin crossed' PROVE OneAtATime' /\ SafeToReplace'
  <2>1. "start" \notin crossed /\ OneAtATime /\ SafeToReplace
    BY <1>4
       DEF IInv, StartCrosses, Spawns, Start, Spawned, Room, startVars, requestVars, reloadVars,
           historyVars
  <2>2. OneAtATime'
    BY <1>4, <2>1, MaxSpawnsAssumption DEF IInv, TypeOK, RunningServes, OneStop, OneAtATime,
      Live, NoReload, StartCrosses, Spawns, Start, Spawned, Room, startVars, requestVars,
      reloadVars, historyVars
  <2>3. SafeToReplace'
    BY <1>4, <2>1, MaxSpawnsAssumption DEF IInv, TypeOK, RunningServes, OneStop, OneAtATime,
      SafeToReplace, Live, Alive, Running, StartCrosses, Spawns, Start, Spawned, Room,
      startVars, requestVars, reloadVars, historyVars
  <2>4. QED  BY <2>2, <2>3
<1>5. ASSUME StopMetNobody' PROVE Unwanted'
  <2>1. StopMetNobody /\ Unwanted
    BY <1>5
       DEF IInv, StopMetNobody, StartCrosses, Spawns, Start, Spawned, Room, startVars,
           requestVars, reloadVars, historyVars
  <2>2. QED
    BY <1>5, <2>1, MaxSpawnsAssumption DEF IInv, TypeOK, OneStop, StopMetNobody, Unwanted,
      Live, NoReload, Reloading, StartCrosses, Spawns, Start, Spawned, Room, startVars,
      requestVars, reloadVars, historyVars
<1>6. QED  BY <1>1, <1>2, <1>3, <1>4, <1>5 DEF IInv

\* The user stops the bridge.
LEMMA StopStep ==
    ASSUME IInv, Stop
    PROVE  IInv'
<1>1. TypeOK'
  <2>1. ProcessTypes'
    BY DEF IInv, TypeOK, ProcessTypes, Stop, startVars, requestVars, reloadVars, historyVars
  <2>2. RequestTypes'
    BY DEF IInv, TypeOK, RequestTypes, Crossings, NoReload, Stop, startVars, requestVars,
       reloadVars,
      historyVars
  <2>3. Flags'
    BY DEF IInv, TypeOK, Flags, MayReload, Reloading, Stop, startVars, requestVars,
      reloadVars, historyVars
  <2>4. QED  BY <2>1, <2>2, <2>3 DEF TypeOK, ProcessTypes, RequestTypes, Flags
<1>2. RunningServes'
  BY MaxSpawnsAssumption DEF IInv, TypeOK, RunningServes, Alive, Stop, startVars,
      requestVars, reloadVars, historyVars
<1>3. OneStop'
  BY MaxSpawnsAssumption
     DEF IInv, TypeOK, OneStop, NoReload, Reloading, Stop, startVars, requestVars, reloadVars,
         historyVars
<1>4. ASSUME "start" \notin crossed' PROVE OneAtATime' /\ SafeToReplace'
  <2>1. "start" \notin crossed /\ OneAtATime /\ SafeToReplace
    BY <1>4 DEF IInv, Stop, startVars, requestVars, reloadVars, historyVars
  <2>2. OneAtATime'
    BY <1>4, <2>1, MaxSpawnsAssumption DEF IInv, TypeOK, RunningServes, OneStop, OneAtATime,
      Live, NoReload, StartCrosses, Stop, startVars, requestVars, reloadVars, historyVars
  <2>3. SafeToReplace'
    BY <1>4, <2>1, MaxSpawnsAssumption DEF IInv, TypeOK, RunningServes, OneStop, OneAtATime,
      SafeToReplace, Live, Alive, Running, StartCrosses, Stop, startVars, requestVars,
      reloadVars, historyVars
  <2>4. QED  BY <2>2, <2>3
<1>5. ASSUME StopMetNobody' PROVE Unwanted'
  <2>1. StopMetNobody /\ Unwanted
    BY <1>5 DEF IInv, StopMetNobody, Stop, startVars, requestVars, reloadVars, historyVars
  <2>2. waiting = {} /\ reloading.step # "waiting"
    BY <1>5 DEF IInv, TypeOK, StopMetNobody, Stop, Reloading
  <2>3. process' \in {None, stopping'}
    BY DEF IInv, OneStop, Stop
  <2>4. QED  BY <2>2, <2>3 DEF Unwanted, Stop
<1>6. QED  BY <1>1, <1>2, <1>3, <1>4, <1>5 DEF IInv

\* stop() waits no longer.
LEMMA StopGivesUpStep ==
    ASSUME IInv, StopGivesUp
    PROVE  IInv'
<1>1. TypeOK'
  <2>1. ProcessTypes'
    BY DEF IInv, TypeOK, ProcessTypes, StopGivesUp, StopDone, RejectAll, Failing, startVars,
      requestVars, reloadVars, historyVars
  <2>2. RequestTypes'
    BY DEF IInv, TypeOK, RequestTypes, NoReload, StopGivesUp, StopDone, RejectAll, Failing,
      startVars, requestVars, reloadVars, historyVars
  <2>3. Flags'
    BY DEF IInv, TypeOK, Flags, MayReload, Reloading, StopGivesUp, StopDone, RejectAll,
      Failing, startVars, requestVars, reloadVars, historyVars
  <2>4. QED  BY <2>1, <2>2, <2>3 DEF TypeOK, ProcessTypes, RequestTypes, Flags
<1>2. RunningServes'
  BY MaxSpawnsAssumption DEF IInv, TypeOK, RunningServes, Alive, StopGivesUp, StopDone,
      RejectAll, Failing, startVars, requestVars, reloadVars, historyVars
<1>3. OneStop'
  BY MaxSpawnsAssumption
     DEF IInv, TypeOK, OneStop, NoReload, Reloading, StopGivesUp, StopDone, RejectAll, Failing,
         startVars, requestVars, reloadVars, historyVars
<1>4. ASSUME "start" \notin crossed' PROVE OneAtATime' /\ SafeToReplace'
  <2>1. "start" \notin crossed /\ OneAtATime /\ SafeToReplace
    BY <1>4
       DEF IInv, StopGivesUp, StopDone, RejectAll, Failing, startVars, requestVars, reloadVars,
           historyVars
  <2>2. OneAtATime'
    BY <1>4, <2>1, MaxSpawnsAssumption DEF IInv, TypeOK, RunningServes, OneStop, OneAtATime,
      Live, NoReload, StartCrosses, StopGivesUp, StopDone, RejectAll, Failing, startVars,
      requestVars, reloadVars, historyVars
  <2>3. SafeToReplace'
    <3>1. process' = None /\ UNCHANGED <<told, os>>
      BY DEF IInv, OneStop, StopGivesUp, StopDone
    <3>2. \A p \in Process : Alive(p) => p \in told
      BY <2>1 DEF IInv, TypeOK, OneStop, SafeToReplace, StopGivesUp, StopDone, Live
    <3>3. \A r \in Request : sentTo'[r] = None
      BY DEF IInv, TypeOK, StopGivesUp, StopDone, RejectAll
    <3>4. QED  BY <3>1, <3>2, <3>3 DEF SafeToReplace, Live, Alive
  <2>4. QED  BY <2>2, <2>3
<1>5. ASSUME StopMetNobody' PROVE Unwanted'
  <2>1. StopMetNobody /\ Unwanted
    BY <1>5
       DEF IInv, StopMetNobody, StopGivesUp, StopDone, RejectAll, Failing, startVars,
           requestVars, reloadVars, historyVars
  <2>2. QED
    BY <1>5, <2>1, MaxSpawnsAssumption DEF IInv, TypeOK, OneStop, StopMetNobody, Unwanted,
      Live, NoReload, Reloading, StopGivesUp, StopDone, RejectAll, Failing, startVars,
      requestVars, reloadVars, historyVars
<1>6. QED  BY <1>1, <1>2, <1>3, <1>4, <1>5 DEF IInv

\* The calls that waited for a stop go on.
LEMMA ResumeStep ==
    ASSUME IInv, Resume
    PROVE  IInv'
<1>1. TypeOK'
  <2>1. ProcessTypes'
    BY SpawnTypes DEF IInv, TypeOK, ProcessTypes, Spawns, Resume, Room, startVars, requestVars,
      reloadVars, historyVars
  <2>2. RequestTypes'
    BY SpawnTypes
       DEF IInv, TypeOK, RequestTypes, Crossings, NoReload, StartCrosses, Spawns, Resume, Room,
           startVars,
      requestVars, reloadVars, historyVars
  <2>3. Flags'
    BY DEF IInv, TypeOK, Flags, MayReload, Reloading, StartCrosses, Spawns, Resume, Spawned,
       Room, startVars,
      requestVars, reloadVars, historyVars
  <2>4. QED  BY <2>1, <2>2, <2>3 DEF TypeOK, ProcessTypes, RequestTypes, Flags
<1>2. RunningServes'
  BY MaxSpawnsAssumption
     DEF IInv, TypeOK, RunningServes, Alive, StartCrosses, Spawns, Resume, Spawned, Room,
      startVars, requestVars, reloadVars, historyVars
<1>3. OneStop'
  BY MaxSpawnsAssumption
     DEF IInv, TypeOK, OneStop, NoReload, Reloading, StartCrosses, Spawns, Resume, Spawned,
         Room, startVars, requestVars, reloadVars, historyVars
<1>4. ASSUME "start" \notin crossed' PROVE OneAtATime' /\ SafeToReplace'
  <2>1. "start" \notin crossed /\ OneAtATime /\ SafeToReplace
    BY <1>4
       DEF IInv, StartCrosses, Spawns, Resume, Spawned, Room, startVars, requestVars,
           reloadVars, historyVars
  <2>2. /\ stopping = None /\ UNCHANGED <<told, asked, sentTo, stopping>>
        /\ \/ Live /\ UNCHANGED <<state, process, os, spawned, at>>
           \/ ~Live /\ Spawned /\ reloading.step # "waiting"
        /\ reloading'.step = "waiting" => reloading' = reloading
    <3>1. ~Live => reloading.step # "waiting"
      BY <1>4, <2>1 DEF IInv, TypeOK, OneStop, Live, StartCrosses, Resume
    <3>2. stopping = None /\ UNCHANGED <<told, asked, sentTo, stopping>>
      BY DEF Resume, requestVars
    <3>3. /\ \/ Live /\ UNCHANGED <<state, process, os, spawned, at>>
             \/ ~Live /\ Spawned
      BY DEF Live, Spawns, Resume
    <3>4. reloading'.step = "waiting" => reloading' = reloading
      BY DEF Resume, NoReload
    <3>5. QED  BY <3>1, <3>2, <3>3, <3>4
  <2>3. OneAtATime' /\ SafeToReplace'
    <3>1. CASE Live
      BY <2>1, <2>2, <3>1 DEF OneAtATime, SafeToReplace, Live, Alive
    <3>2. CASE ~Live
      <4>1. Spawned /\ reloading'.step # "waiting"
        BY <2>2, <3>2
      <4>2. OneAtATime'
        BY <4>1 DEF OneAtATime
      <4>3. SafeToReplace'
        BY <2>1, <2>2, <3>2, <4>1, SpawnTypes
           DEF IInv, TypeOK, SafeToReplace, Live, Alive, Spawned
      <4>4. QED  BY <4>2, <4>3
    <3>3. QED  BY <3>1, <3>2
  <2>4. QED  BY <2>3
<1>5. ASSUME StopMetNobody' PROVE Unwanted'
  <2>1. StopMetNobody /\ Unwanted
    BY <1>5
       DEF IInv, StopMetNobody, StartCrosses, Spawns, Resume, Spawned, Room, startVars,
           requestVars, reloadVars, historyVars
  <2>2. QED
    BY <1>5, <2>1, MaxSpawnsAssumption DEF IInv, TypeOK, OneStop, StopMetNobody, Unwanted,
      Live, NoReload, Reloading, StartCrosses, Spawns, Resume, Spawned, Room, startVars,
      requestVars, reloadVars, historyVars
<1>6. QED  BY <1>1, <1>2, <1>3, <1>4, <1>5 DEF IInv

\* A handshake succeeds.
LEMMA ReadyStep ==
    ASSUME IInv, NEW p \in Process, Ready(p)
    PROVE  IInv'
<1>1. TypeOK'
  <2>1. ProcessTypes'
    BY DEF IInv, TypeOK, ProcessTypes, Ready, startVars, requestVars, reloadVars,
      historyVars
  <2>2. RequestTypes'
    BY DEF IInv, TypeOK, RequestTypes, NoReload, Ready, startVars, requestVars, reloadVars,
      historyVars
  <2>3. Flags'
    BY DEF IInv, TypeOK, Flags, MayReload, Reloading, Ready, startVars, requestVars,
      reloadVars, historyVars
  <2>4. QED  BY <2>1, <2>2, <2>3 DEF TypeOK, ProcessTypes, RequestTypes, Flags
<1>2. RunningServes'
  BY MaxSpawnsAssumption DEF IInv, TypeOK, RunningServes, Alive, Ready, startVars,
      requestVars, reloadVars, historyVars
<1>3. OneStop'
  BY MaxSpawnsAssumption
     DEF IInv, TypeOK, OneStop, NoReload, Reloading, Ready, startVars, requestVars, reloadVars,
         historyVars
<1>4. ASSUME "start" \notin crossed' PROVE OneAtATime' /\ SafeToReplace'
  <2>1. "start" \notin crossed /\ OneAtATime /\ SafeToReplace
    BY <1>4 DEF IInv, Ready, startVars, requestVars, reloadVars, historyVars
  <2>2. OneAtATime'
    BY <1>4, <2>1, MaxSpawnsAssumption DEF IInv, TypeOK, RunningServes, OneStop, OneAtATime,
      Live, NoReload, StartCrosses, Ready, startVars, requestVars, reloadVars, historyVars
  <2>3. SafeToReplace'
    BY <1>4, <2>1, MaxSpawnsAssumption DEF IInv, TypeOK, RunningServes, OneStop, OneAtATime,
      SafeToReplace, Live, Alive, Running, StartCrosses, Ready, startVars, requestVars,
      reloadVars, historyVars
  <2>4. QED  BY <2>2, <2>3
<1>5. ASSUME StopMetNobody' PROVE Unwanted'
  <2>1. StopMetNobody /\ Unwanted
    BY <1>5 DEF IInv, StopMetNobody, Ready, startVars, requestVars, reloadVars, historyVars
  <2>2. QED
    BY <1>5, <2>1, MaxSpawnsAssumption DEF IInv, TypeOK, OneStop, StopMetNobody, Unwanted,
      Live, NoReload, Reloading, Ready, startVars, requestVars, reloadVars, historyVars
<1>6. QED  BY <1>1, <1>2, <1>3, <1>4, <1>5 DEF IInv

\* A start takes too long.
LEMMA StartTimesOutStep ==
    ASSUME IInv, NEW p \in Process, StartTimesOut(p)
    PROVE  IInv'
<1>1. TypeOK'
  <2>1. ProcessTypes'
    BY FailTypes DEF IInv, TypeOK, ProcessTypes, StartTimesOut, startVars, requestVars,
      reloadVars, historyVars
  <2>2. RequestTypes'
    BY DEF IInv, TypeOK, RequestTypes, NoReload, StartTimesOut, StartFails, RejectAll,
      Failing, startVars, requestVars, reloadVars, historyVars
  <2>3. Flags'
    BY DEF IInv, TypeOK, Flags, MayReload, Reloading, StartTimesOut, StartFails, RejectAll,
      Failing, startVars, requestVars, reloadVars, historyVars
  <2>4. QED  BY <2>1, <2>2, <2>3 DEF TypeOK, ProcessTypes, RequestTypes, Flags
<1>2. RunningServes'
  BY MaxSpawnsAssumption DEF IInv, TypeOK, RunningServes, Alive, StartTimesOut,
      StartFails, RejectAll, Failing, startVars, requestVars, reloadVars, historyVars
<1>3. OneStop'
  BY MaxSpawnsAssumption
     DEF IInv, TypeOK, OneStop, NoReload, Reloading, StartTimesOut, StartFails, RejectAll,
         Failing, startVars, requestVars, reloadVars, historyVars
<1>4. ASSUME "start" \notin crossed' PROVE OneAtATime' /\ SafeToReplace'
  <2>1. "start" \notin crossed /\ OneAtATime /\ SafeToReplace
    BY <1>4
       DEF IInv, StartTimesOut, StartFails, RejectAll, Failing, startVars, requestVars,
           reloadVars, historyVars
  <2>2. OneAtATime'
    BY <1>4, <2>1, MaxSpawnsAssumption DEF IInv, TypeOK, RunningServes, OneStop, OneAtATime,
      Live, NoReload, StartCrosses, StartTimesOut, StartFails, RejectAll, Failing, startVars,
      requestVars, reloadVars, historyVars
  <2>3. SafeToReplace'
    BY <1>4, <2>1, MaxSpawnsAssumption DEF IInv, TypeOK, RunningServes, OneStop, OneAtATime,
      SafeToReplace, Live, Alive, Running, StartCrosses, StartTimesOut, StartFails, RejectAll,
      Failing, startVars, requestVars, reloadVars, historyVars
  <2>4. QED  BY <2>2, <2>3
<1>5. ASSUME StopMetNobody' PROVE Unwanted'
  <2>1. StopMetNobody /\ Unwanted
    BY <1>5
       DEF IInv, StopMetNobody, StartTimesOut, StartFails, RejectAll, Failing, startVars,
           requestVars, reloadVars, historyVars
  <2>2. QED
    BY <1>5, <2>1, MaxSpawnsAssumption DEF IInv, TypeOK, OneStop, StopMetNobody, Unwanted,
      Live, NoReload, Reloading, StartTimesOut, StartFails, RejectAll, Failing, startVars,
      requestVars, reloadVars, historyVars
<1>6. QED  BY <1>1, <1>2, <1>3, <1>4, <1>5 DEF IInv

\* A start goes on after its handshake.
LEMMA SettleStep ==
    ASSUME IInv, NEW p \in Process, Settle(p)
    PROVE  IInv'
<1>1. TypeOK'
  <2>1. ProcessTypes'
    BY FailTypes DEF IInv, TypeOK, ProcessTypes, Settle, startVars, requestVars, reloadVars,
      historyVars
  <2>2. RequestTypes'
    BY DEF IInv, TypeOK, RequestTypes, NoReload, Settle, StartFails, RejectAll, Failing,
      startVars, requestVars, reloadVars, historyVars
  <2>3. Flags'
    BY DEF IInv, TypeOK, Flags, MayReload, Reloading, Settle, StartFails, RejectAll,
      Failing, startVars, requestVars, reloadVars, historyVars
  <2>4. QED  BY <2>1, <2>2, <2>3 DEF TypeOK, ProcessTypes, RequestTypes, Flags
<1>2. RunningServes'
  BY MaxSpawnsAssumption DEF IInv, TypeOK, RunningServes, Alive, Settle, StartFails,
      RejectAll, Failing, startVars, requestVars, reloadVars, historyVars
<1>3. OneStop'
  BY MaxSpawnsAssumption
     DEF IInv, TypeOK, OneStop, NoReload, Reloading, Settle, StartFails, RejectAll, Failing,
         startVars, requestVars, reloadVars, historyVars
<1>4. ASSUME "start" \notin crossed' PROVE OneAtATime' /\ SafeToReplace'
  <2>1. "start" \notin crossed /\ OneAtATime /\ SafeToReplace
    BY <1>4
       DEF IInv, Settle, StartFails, RejectAll, Failing, startVars, requestVars, reloadVars,
           historyVars
  <2>2. OneAtATime'
    BY <1>4, <2>1, MaxSpawnsAssumption DEF IInv, TypeOK, RunningServes, OneStop, OneAtATime,
      Live, NoReload, StartCrosses, Settle, StartFails, RejectAll, Failing, startVars,
      requestVars, reloadVars, historyVars
  <2>3. SafeToReplace'
    BY <1>4, <2>1, MaxSpawnsAssumption DEF IInv, TypeOK, RunningServes, OneStop, OneAtATime,
      SafeToReplace, Live, Alive, Running, StartCrosses, Settle, StartFails, RejectAll, Failing,
      startVars, requestVars, reloadVars, historyVars
  <2>4. QED  BY <2>2, <2>3
<1>5. ASSUME StopMetNobody' PROVE Unwanted'
  <2>1. StopMetNobody /\ Unwanted
    BY <1>5
       DEF IInv, StopMetNobody, Settle, StartFails, RejectAll, Failing, startVars, requestVars,
           reloadVars, historyVars
  <2>2. QED
    BY <1>5, <2>1, MaxSpawnsAssumption DEF IInv, TypeOK, OneStop, StopMetNobody, Unwanted,
      Live, NoReload, Reloading, Settle, StartFails, RejectAll, Failing, startVars, requestVars,
      reloadVars, historyVars
<1>6. QED  BY <1>1, <1>2, <1>3, <1>4, <1>5 DEF IInv

\* The bridge is initialized.
LEMMA InitializeStep ==
    ASSUME IInv, NEW p \in Process, Initialize(p)
    PROVE  IInv'
<1>1. TypeOK'
  <2>1. ProcessTypes'
    BY DEF IInv, TypeOK, ProcessTypes, Initialize, startVars, requestVars, reloadVars,
      historyVars
  <2>2. RequestTypes'
    BY DEF IInv, TypeOK, RequestTypes, NoReload, Initialize, startVars, requestVars,
      reloadVars, historyVars
  <2>3. Flags'
    BY DEF IInv, TypeOK, Flags, MayReload, Reloading, Initialize, startVars, requestVars,
      reloadVars, historyVars
  <2>4. QED  BY <2>1, <2>2, <2>3 DEF TypeOK, ProcessTypes, RequestTypes, Flags
<1>2. RunningServes'
  BY MaxSpawnsAssumption DEF IInv, TypeOK, RunningServes, Alive, Initialize, startVars,
      requestVars, reloadVars, historyVars
<1>3. OneStop'
  BY MaxSpawnsAssumption
     DEF IInv, TypeOK, OneStop, NoReload, Reloading, Initialize, startVars, requestVars,
         reloadVars, historyVars
<1>4. ASSUME "start" \notin crossed' PROVE OneAtATime' /\ SafeToReplace'
  <2>1. "start" \notin crossed /\ OneAtATime /\ SafeToReplace
    BY <1>4 DEF IInv, Initialize, startVars, requestVars, reloadVars, historyVars
  <2>2. OneAtATime'
    BY <1>4, <2>1, MaxSpawnsAssumption DEF IInv, TypeOK, RunningServes, OneStop, OneAtATime,
      Live, NoReload, StartCrosses, Initialize, startVars, requestVars, reloadVars, historyVars
  <2>3. SafeToReplace'
    BY <1>4, <2>1, MaxSpawnsAssumption DEF IInv, TypeOK, RunningServes, OneStop, OneAtATime,
      SafeToReplace, Live, Alive, Running, StartCrosses, Initialize, startVars, requestVars,
      reloadVars, historyVars
  <2>4. QED  BY <2>2, <2>3
<1>5. ASSUME StopMetNobody' PROVE Unwanted'
  <2>1. StopMetNobody /\ Unwanted
    BY <1>5 DEF IInv, StopMetNobody, Initialize, startVars, requestVars, reloadVars, historyVars
  <2>2. QED
    BY <1>5, <2>1, MaxSpawnsAssumption DEF IInv, TypeOK, OneStop, StopMetNobody, Unwanted,
      Live, NoReload, Reloading, Initialize, startVars, requestVars, reloadVars, historyVars
<1>6. QED  BY <1>1, <1>2, <1>3, <1>4, <1>5 DEF IInv

\* A process exits.
LEMMA ExitStep ==
    ASSUME IInv, NEW p \in Process, Exit(p)
    PROVE  IInv'
<1>1. TypeOK'
  <2>1. ProcessTypes'
    BY DEF IInv, TypeOK, ProcessTypes, Exit, StopDone, RejectAll, Failing, startVars,
      requestVars, reloadVars, historyVars
  <2>2. RequestTypes'
    BY DEF IInv, TypeOK, RequestTypes, NoReload, Exit, StopDone, RejectAll, Failing,
      startVars, requestVars, reloadVars, historyVars
  <2>3. Flags'
    BY DEF IInv, TypeOK, Flags, MayReload, Reloading, Exit, StopDone, RejectAll, Failing,
      startVars, requestVars, reloadVars, historyVars
  <2>4. QED  BY <2>1, <2>2, <2>3 DEF TypeOK, ProcessTypes, RequestTypes, Flags
<1>2. RunningServes'
  BY MaxSpawnsAssumption DEF IInv, TypeOK, RunningServes, Alive, Exit, StopDone,
      RejectAll, Failing, startVars, requestVars, reloadVars, historyVars
<1>3. OneStop'
  BY MaxSpawnsAssumption
     DEF IInv, TypeOK, OneStop, NoReload, Reloading, Exit, StopDone, RejectAll, Failing,
         startVars, requestVars, reloadVars, historyVars
<1>4. ASSUME "start" \notin crossed' PROVE OneAtATime' /\ SafeToReplace'
  <2>1. "start" \notin crossed /\ OneAtATime /\ SafeToReplace
    BY <1>4
       DEF IInv, Exit, StopDone, RejectAll, Failing, startVars, requestVars, reloadVars,
           historyVars
  <2>2. OneAtATime'
    BY <1>4, <2>1, MaxSpawnsAssumption DEF IInv, TypeOK, RunningServes, OneStop, OneAtATime,
      Live, NoReload, StartCrosses, Exit, StopDone, RejectAll, Failing, startVars, requestVars,
      reloadVars, historyVars
  <2>3. SafeToReplace'
    BY <1>4, <2>1, MaxSpawnsAssumption DEF IInv, TypeOK, RunningServes, OneStop, OneAtATime,
      SafeToReplace, Live, Alive, Running, StartCrosses, Exit, StopDone, RejectAll, Failing,
      startVars, requestVars, reloadVars, historyVars
  <2>4. QED  BY <2>2, <2>3
<1>5. ASSUME StopMetNobody' PROVE Unwanted'
  <2>1. StopMetNobody /\ Unwanted
    BY <1>5
       DEF IInv, StopMetNobody, Exit, StopDone, RejectAll, Failing, startVars, requestVars,
           reloadVars, historyVars
  <2>2. QED
    BY <1>5, <2>1, MaxSpawnsAssumption DEF IInv, TypeOK, OneStop, StopMetNobody, Unwanted,
      Live, NoReload, Reloading, Exit, StopDone, RejectAll, Failing, startVars, requestVars,
      reloadVars, historyVars
<1>6. QED  BY <1>1, <1>2, <1>3, <1>4, <1>5 DEF IInv

\* The pipes of a process close.
LEMMA CloseStep ==
    ASSUME IInv, NEW p \in Process, Close(p)
    PROVE  IInv'
<1>1. TypeOK'
  <2>1. ProcessTypes'
    <3>1. os' \in [Process -> {"none", "booting", "ready", "exited", "closed"}]
      BY DEF IInv, TypeOK, Close
    <3>2. CASE at[p] = "handshake"
      BY <3>1, <3>2, FailTypes DEF IInv, Close
    <3>3. CASE at[p] # "handshake"
      <4>1. at' \in [Process -> {"none", "handshake", "settling", "initializing", "done", "failed"}]
        BY <3>3 DEF IInv, TypeOK, Close, Failing
      <4>2. /\ state' \in {state, "stopped", "error"} /\ process' \in {process, None}
            /\ UNCHANGED <<told, spawned>>
        BY <3>3 DEF Close
      <4>3. QED  BY <3>1, <4>1, <4>2 DEF IInv, TypeOK, ProcessTypes
    <3>4. QED  BY <3>2, <3>3
  <2>2. RequestTypes'
    BY DEF IInv, TypeOK, RequestTypes, NoReload, Close, StartFails, RejectAll, Failing,
      startVars, requestVars, reloadVars, historyVars
  <2>3. Flags'
    BY DEF IInv, TypeOK, Flags, MayReload, Reloading, Close, StartFails, RejectAll, Failing,
      startVars, requestVars, reloadVars, historyVars
  <2>4. QED  BY <2>1, <2>2, <2>3 DEF TypeOK, ProcessTypes, RequestTypes, Flags
<1>2. RunningServes'
  BY MaxSpawnsAssumption DEF IInv, TypeOK, RunningServes, Alive, Close, StartFails,
      RejectAll, Failing, startVars, requestVars, reloadVars, historyVars
<1>3. OneStop'
  BY MaxSpawnsAssumption
     DEF IInv, TypeOK, OneStop, NoReload, Reloading, Close, StartFails, RejectAll, Failing,
         startVars, requestVars, reloadVars, historyVars
<1>4. ASSUME "start" \notin crossed' PROVE OneAtATime' /\ SafeToReplace'
  <2>1. "start" \notin crossed /\ OneAtATime /\ SafeToReplace
    BY <1>4
       DEF IInv, Close, StartFails, RejectAll, Failing, startVars, requestVars, reloadVars,
           historyVars
  <2>2. OneAtATime'
    BY <1>4, <2>1, MaxSpawnsAssumption DEF IInv, TypeOK, RunningServes, OneStop, OneAtATime,
      Live, NoReload, StartCrosses, Close, StartFails, RejectAll, Failing, startVars,
      requestVars, reloadVars, historyVars
  <2>3. SafeToReplace'
    BY <1>4, <2>1, MaxSpawnsAssumption DEF IInv, TypeOK, RunningServes, OneStop, OneAtATime,
      SafeToReplace, Live, Alive, Running, StartCrosses, Close, StartFails, RejectAll, Failing,
      startVars, requestVars, reloadVars, historyVars
  <2>4. QED  BY <2>2, <2>3
<1>5. ASSUME StopMetNobody' PROVE Unwanted'
  <2>1. StopMetNobody /\ Unwanted
    BY <1>5
       DEF IInv, StopMetNobody, Close, StartFails, RejectAll, Failing, startVars, requestVars,
           reloadVars, historyVars
  <2>2. QED
    BY <1>5, <2>1, MaxSpawnsAssumption DEF IInv, TypeOK, OneStop, StopMetNobody, Unwanted,
      Live, NoReload, Reloading, Close, StartFails, RejectAll, Failing, startVars, requestVars,
      reloadVars, historyVars
<1>6. QED  BY <1>1, <1>2, <1>3, <1>4, <1>5 DEF IInv

\* A request is sent.
LEMMA SendStep ==
    ASSUME IInv, NEW r \in Request, Send(r)
    PROVE  IInv'
<1>1. TypeOK'
  <2>1. ProcessTypes'
    BY DEF IInv, TypeOK, ProcessTypes, Send, startVars, requestVars, reloadVars, historyVars
  <2>2. RequestTypes'
    BY DEF IInv, TypeOK, RequestTypes, NoReload, Send, startVars, requestVars, reloadVars,
      historyVars
  <2>3. Flags'
    BY DEF IInv, TypeOK, Flags, MayReload, Reloading, Send, startVars, requestVars,
      reloadVars, historyVars
  <2>4. QED  BY <2>1, <2>2, <2>3 DEF TypeOK, ProcessTypes, RequestTypes, Flags
<1>2. RunningServes'
  BY MaxSpawnsAssumption DEF IInv, TypeOK, RunningServes, Alive, Send, startVars,
      requestVars, reloadVars, historyVars
<1>3. OneStop'
  BY MaxSpawnsAssumption
     DEF IInv, TypeOK, OneStop, NoReload, Reloading, Send, startVars, requestVars, reloadVars,
         historyVars
<1>4. ASSUME "start" \notin crossed' PROVE OneAtATime' /\ SafeToReplace'
  <2>1. "start" \notin crossed /\ OneAtATime /\ SafeToReplace
    BY <1>4 DEF IInv, Send, startVars, requestVars, reloadVars, historyVars
  <2>2. OneAtATime'
    BY <1>4, <2>1, MaxSpawnsAssumption DEF IInv, TypeOK, RunningServes, OneStop, OneAtATime,
      Live, NoReload, StartCrosses, Send, startVars, requestVars, reloadVars, historyVars
  <2>3. SafeToReplace'
    BY <1>4, <2>1, MaxSpawnsAssumption DEF IInv, TypeOK, RunningServes, OneStop, OneAtATime,
      SafeToReplace, Live, Alive, Running, StartCrosses, Send, startVars, requestVars,
      reloadVars, historyVars
  <2>4. QED  BY <2>2, <2>3
<1>5. ASSUME StopMetNobody' PROVE Unwanted'
  <2>1. StopMetNobody /\ Unwanted
    BY <1>5 DEF IInv, StopMetNobody, Send, startVars, requestVars, reloadVars, historyVars
  <2>2. QED
    BY <1>5, <2>1, MaxSpawnsAssumption DEF IInv, TypeOK, OneStop, StopMetNobody, Unwanted,
      Live, NoReload, Reloading, Send, startVars, requestVars, reloadVars, historyVars
<1>6. QED  BY <1>1, <1>2, <1>3, <1>4, <1>5 DEF IInv

\* A request is answered or times out.
LEMMA SettleRequestStep ==
    ASSUME IInv, NEW r \in Request, TimeOut(r) \/ Respond(r)
    PROVE  IInv'
<1>1. TypeOK'
  <2>1. ProcessTypes'
    BY DEF IInv, TypeOK, ProcessTypes, TimeOut, Respond, Answerable, startVars, requestVars,
      reloadVars, historyVars
  <2>2. RequestTypes'
    BY DEF IInv, TypeOK, RequestTypes, NoReload, TimeOut, Respond, Answerable, startVars,
      requestVars, reloadVars, historyVars
  <2>3. Flags'
    BY DEF IInv, TypeOK, Flags, MayReload, Reloading, TimeOut, Respond, Answerable,
      startVars, requestVars, reloadVars, historyVars
  <2>4. QED  BY <2>1, <2>2, <2>3 DEF TypeOK, ProcessTypes, RequestTypes, Flags
<1>2. RunningServes'
  BY MaxSpawnsAssumption DEF IInv, TypeOK, RunningServes, Alive, TimeOut, Respond,
      Answerable, startVars, requestVars, reloadVars, historyVars
<1>3. OneStop'
  BY MaxSpawnsAssumption
     DEF IInv, TypeOK, OneStop, NoReload, Reloading, TimeOut, Respond, Answerable, startVars,
         requestVars, reloadVars, historyVars
<1>4. ASSUME "start" \notin crossed' PROVE OneAtATime' /\ SafeToReplace'
  <2>1. "start" \notin crossed /\ OneAtATime /\ SafeToReplace
    BY <1>4 DEF IInv, TimeOut, Respond, Answerable, startVars, requestVars, reloadVars,
       historyVars
  <2>2. OneAtATime'
    BY <1>4, <2>1, MaxSpawnsAssumption DEF IInv, TypeOK, RunningServes, OneStop, OneAtATime,
      Live, NoReload, StartCrosses, TimeOut, Respond, Answerable, startVars, requestVars,
      reloadVars, historyVars
  <2>3. SafeToReplace'
    BY <1>4, <2>1, MaxSpawnsAssumption DEF IInv, TypeOK, RunningServes, OneStop, OneAtATime,
      SafeToReplace, Live, Alive, Running, StartCrosses, TimeOut, Respond, Answerable,
      startVars, requestVars, reloadVars, historyVars
  <2>4. QED  BY <2>2, <2>3
<1>5. ASSUME StopMetNobody' PROVE Unwanted'
  <2>1. StopMetNobody /\ Unwanted
    BY <1>5
       DEF IInv, StopMetNobody, TimeOut, Respond, Answerable, startVars, requestVars,
           reloadVars, historyVars
  <2>2. QED
    BY <1>5, <2>1, MaxSpawnsAssumption DEF IInv, TypeOK, OneStop, StopMetNobody, Unwanted,
      Live, NoReload, Reloading, TimeOut, Respond, Answerable, startVars, requestVars,
      reloadVars, historyVars
<1>6. QED  BY <1>1, <1>2, <1>3, <1>4, <1>5 DEF IInv

\* A stream ends.
LEMMA TerminalStep ==
    ASSUME IInv, NEW r \in Request, Terminal(r)
    PROVE  IInv'
<1>1. TypeOK'
  <2>1. ProcessTypes'
    BY DEF IInv, TypeOK, ProcessTypes, Terminal, Answerable, startVars, requestVars,
      reloadVars, historyVars
  <2>2. RequestTypes'
    BY DEF IInv, TypeOK, RequestTypes, NoReload, Terminal, Answerable, startVars,
      requestVars, reloadVars, historyVars
  <2>3. Flags'
    BY DEF IInv, TypeOK, Flags, MayReload, Reloading, Terminal, Answerable, startVars,
      requestVars, reloadVars, historyVars
  <2>4. QED  BY <2>1, <2>2, <2>3 DEF TypeOK, ProcessTypes, RequestTypes, Flags
<1>2. RunningServes'
  BY MaxSpawnsAssumption DEF IInv, TypeOK, RunningServes, Alive, Terminal, Answerable,
      startVars, requestVars, reloadVars, historyVars
<1>3. OneStop'
  BY MaxSpawnsAssumption
     DEF IInv, TypeOK, OneStop, NoReload, Reloading, Terminal, Answerable, startVars,
         requestVars, reloadVars, historyVars
<1>4. ASSUME "start" \notin crossed' PROVE OneAtATime' /\ SafeToReplace'
  <2>1. "start" \notin crossed /\ OneAtATime /\ SafeToReplace
    BY <1>4 DEF IInv, Terminal, Answerable, startVars, requestVars, reloadVars, historyVars
  <2>2. OneAtATime'
    BY <1>4, <2>1, MaxSpawnsAssumption DEF IInv, TypeOK, RunningServes, OneStop, OneAtATime,
      Live, NoReload, StartCrosses, Terminal, Answerable, startVars, requestVars, reloadVars,
      historyVars
  <2>3. SafeToReplace'
    BY <1>4, <2>1, MaxSpawnsAssumption DEF IInv, TypeOK, RunningServes, OneStop, OneAtATime,
      SafeToReplace, Live, Alive, Running, StartCrosses, Terminal, Answerable, startVars,
      requestVars, reloadVars, historyVars
  <2>4. QED  BY <2>2, <2>3
<1>5. ASSUME StopMetNobody' PROVE Unwanted'
  <2>1. StopMetNobody /\ Unwanted
    BY <1>5
       DEF IInv, StopMetNobody, Terminal, Answerable, startVars, requestVars, reloadVars,
           historyVars
  <2>2. QED
    BY <1>5, <2>1, MaxSpawnsAssumption DEF IInv, TypeOK, OneStop, StopMetNobody, Unwanted,
      Live, NoReload, Reloading, Terminal, Answerable, startVars, requestVars, reloadVars,
      historyVars
<1>6. QED  BY <1>1, <1>2, <1>3, <1>4, <1>5 DEF IInv

\* A source file changes.
LEMMA FileChangeStep ==
    ASSUME IInv, FileChange \/ CoolDown
    PROVE  IInv'
<1>1. TypeOK'
  <2>1. ProcessTypes'
    BY DEF IInv, TypeOK, ProcessTypes, FileChange, CoolDown, startVars, requestVars,
      reloadVars, historyVars
  <2>2. RequestTypes'
    BY DEF IInv, TypeOK, RequestTypes, NoReload, FileChange, CoolDown, startVars,
      requestVars, reloadVars, historyVars
  <2>3. Flags'
    BY DEF IInv, TypeOK, Flags, MayReload, Reloading, FileChange, CoolDown, startVars,
      requestVars, reloadVars, historyVars
  <2>4. QED  BY <2>1, <2>2, <2>3 DEF TypeOK, ProcessTypes, RequestTypes, Flags
<1>2. RunningServes'
  BY MaxSpawnsAssumption DEF IInv, TypeOK, RunningServes, Alive, FileChange, CoolDown,
      startVars, requestVars, reloadVars, historyVars
<1>3. OneStop'
  BY MaxSpawnsAssumption
     DEF IInv, TypeOK, OneStop, NoReload, Reloading, FileChange, CoolDown, startVars,
         requestVars, reloadVars, historyVars
<1>4. ASSUME "start" \notin crossed' PROVE OneAtATime' /\ SafeToReplace'
  <2>1. "start" \notin crossed /\ OneAtATime /\ SafeToReplace
    BY <1>4 DEF IInv, FileChange, CoolDown, startVars, requestVars, reloadVars, historyVars
  <2>2. OneAtATime'
    BY <1>4, <2>1, MaxSpawnsAssumption DEF IInv, TypeOK, RunningServes, OneStop, OneAtATime,
      Live, NoReload, StartCrosses, FileChange, CoolDown, startVars, requestVars, reloadVars,
      historyVars
  <2>3. SafeToReplace'
    BY <1>4, <2>1, MaxSpawnsAssumption DEF IInv, TypeOK, RunningServes, OneStop, OneAtATime,
      SafeToReplace, Live, Alive, Running, StartCrosses, FileChange, CoolDown, startVars,
      requestVars, reloadVars, historyVars
  <2>4. QED  BY <2>2, <2>3
<1>5. ASSUME StopMetNobody' PROVE Unwanted'
  <2>1. StopMetNobody /\ Unwanted
    BY <1>5
       DEF IInv, StopMetNobody, FileChange, CoolDown, startVars, requestVars, reloadVars,
           historyVars
  <2>2. QED
    BY <1>5, <2>1, MaxSpawnsAssumption DEF IInv, TypeOK, OneStop, StopMetNobody, Unwanted,
      Live, NoReload, Reloading, FileChange, CoolDown, startVars, requestVars, reloadVars,
      historyVars
<1>6. QED  BY <1>1, <1>2, <1>3, <1>4, <1>5 DEF IInv

\* Hot reload stops the process.
LEMMA RestartStep ==
    ASSUME IInv, Restart
    PROVE  IInv'
<1>1. TypeOK'
  <2>1. ProcessTypes'
    BY DEF IInv, TypeOK, ProcessTypes, Restart, RejectAll, Failing, startVars, requestVars,
      reloadVars, historyVars
  <2>2. RequestTypes'
    <3>1. /\ reloading' \in [step : {"none", "waiting", "starting"}, of : Process \cup {None}]
          /\ crossed' \subseteq Crossings
      <4>1. CASE state = "running" /\ ~Reloading /\ process # None
        <5>1. /\ reloading' = [step |-> "waiting", of |-> process]
              /\ crossed' = (IF stopping # None THEN crossed \cup {"stop"} ELSE crossed)
          BY <4>1 DEF Restart
        <5>2. process \in Process \cup {None} /\ crossed \subseteq Crossings
          BY DEF IInv, TypeOK
        <5>3. QED  BY <5>1, <5>2 DEF Crossings
      <4>2. CASE ~(state = "running" /\ ~Reloading /\ process # None)
        <5>1. UNCHANGED <<reloading, crossed>>
          BY <4>2 DEF Restart
        <5>2. QED  BY <5>1 DEF IInv, TypeOK
      <4>3. QED  BY <4>1, <4>2
    <3>2. sentTo' \in [Request -> Process \cup {None}]
      BY DEF IInv, TypeOK, Restart, RejectAll
    <3>3. UNCHANGED <<stopping, waiting, asked>>
      BY DEF Restart
    <3>4. QED  BY <3>1, <3>2, <3>3 DEF IInv, TypeOK, RequestTypes
  <2>3. Flags'
    BY DEF IInv, TypeOK, Flags, MayReload, Reloading, Restart, RejectAll, Failing,
      startVars, requestVars, reloadVars, historyVars
  <2>4. QED  BY <2>1, <2>2, <2>3 DEF TypeOK, ProcessTypes, RequestTypes, Flags
<1>2. RunningServes'
  BY MaxSpawnsAssumption DEF IInv, TypeOK, RunningServes, Alive, Restart, RejectAll,
      Failing, startVars, requestVars, reloadVars, historyVars
<1>3. OneStop'
  BY MaxSpawnsAssumption
     DEF IInv, TypeOK, OneStop, NoReload, Reloading, Restart, RejectAll, Failing, startVars,
         requestVars, reloadVars, historyVars
<1>4. ASSUME "start" \notin crossed' PROVE OneAtATime' /\ SafeToReplace'
  <2>1. "start" \notin crossed /\ OneAtATime /\ SafeToReplace
    BY <1>4 DEF IInv, Restart, RejectAll, Failing, startVars, requestVars, reloadVars, historyVars
  <2>2. OneAtATime'
    BY <1>4, <2>1, MaxSpawnsAssumption DEF IInv, TypeOK, RunningServes, OneStop, OneAtATime,
      Live, NoReload, StartCrosses, Restart, RejectAll, Failing, startVars, requestVars,
      reloadVars, historyVars
  <2>3. SafeToReplace'
    BY <1>4, <2>1, MaxSpawnsAssumption DEF IInv, TypeOK, RunningServes, OneStop, OneAtATime,
      SafeToReplace, Live, Alive, Running, StartCrosses, Restart, RejectAll, Failing, startVars,
      requestVars, reloadVars, historyVars
  <2>4. QED  BY <2>2, <2>3
<1>5. ASSUME StopMetNobody' PROVE Unwanted'
  <2>1. StopMetNobody /\ Unwanted
    BY <1>5
       DEF IInv, StopMetNobody, Restart, RejectAll, Failing, startVars, requestVars, reloadVars,
           historyVars
  <2>2. QED
    BY <1>5, <2>1, MaxSpawnsAssumption DEF IInv, TypeOK, OneStop, StopMetNobody, Unwanted,
      Live, NoReload, Reloading, Restart, RejectAll, Failing, startVars, requestVars,
      reloadVars, historyVars
<1>6. QED  BY <1>1, <1>2, <1>3, <1>4, <1>5 DEF IInv

\* Hot reload starts the next one.
LEMMA RestartGoesOnStep ==
    ASSUME IInv, RestartGoesOn
    PROVE  IInv'
<1>1. TypeOK'
  <2>1. ProcessTypes'
    BY SpawnTypes DEF IInv, TypeOK, ProcessTypes, RestartGoesOn, Room, NoReload, startVars,
      requestVars, reloadVars, historyVars
  <2>2. RequestTypes'
    <3>1. reloading' \in [step : {"none", "waiting", "starting"}, of : Process \cup {None}]
      BY SpawnTypes DEF IInv, TypeOK, NoReload, RestartGoesOn
    <3>2. waiting' \subseteq {"user", "restart"} /\ UNCHANGED <<stopping, asked, sentTo, crossed>>
      BY DEF IInv, TypeOK, RestartGoesOn, requestVars, historyVars
    <3>3. QED  BY <3>1, <3>2 DEF IInv, TypeOK, RequestTypes
  <2>3. Flags'
    BY DEF IInv, TypeOK, Flags, MayReload, Reloading, RestartGoesOn, Spawned, Room,
      NoReload, startVars, requestVars, reloadVars, historyVars
  <2>4. QED  BY <2>1, <2>2, <2>3 DEF TypeOK, ProcessTypes, RequestTypes, Flags
<1>2. RunningServes'
  BY MaxSpawnsAssumption DEF IInv, TypeOK, RunningServes, Alive, RestartGoesOn, Spawned,
      Room, NoReload, startVars, requestVars, reloadVars, historyVars
<1>3. OneStop'
  BY MaxSpawnsAssumption
     DEF IInv, TypeOK, OneStop, NoReload, Reloading, RestartGoesOn, Spawned, Room, NoReload,
         startVars, requestVars, reloadVars, historyVars
<1>4. ASSUME "start" \notin crossed' PROVE OneAtATime' /\ SafeToReplace'
  <2>1. "start" \notin crossed /\ OneAtATime /\ SafeToReplace
    BY <1>4
       DEF IInv, RestartGoesOn, Spawned, Room, NoReload, startVars, requestVars, reloadVars,
           historyVars
  <2>2. OneAtATime'
    BY <1>4, <2>1, MaxSpawnsAssumption DEF IInv, TypeOK, RunningServes, OneStop, OneAtATime,
      Live, NoReload, StartCrosses, RestartGoesOn, Spawned, Room, NoReload, startVars,
      requestVars, reloadVars, historyVars
  <2>3. SafeToReplace'
    BY <1>4, <2>1, MaxSpawnsAssumption DEF IInv, TypeOK, RunningServes, OneStop, OneAtATime,
      SafeToReplace, Live, Alive, Running, StartCrosses, RestartGoesOn, Spawned, Room, NoReload,
      startVars, requestVars, reloadVars, historyVars
  <2>4. QED  BY <2>2, <2>3
<1>5. ASSUME StopMetNobody' PROVE Unwanted'
  <2>1. StopMetNobody /\ Unwanted
    BY <1>5
       DEF IInv, StopMetNobody, RestartGoesOn, Spawned, Room, NoReload, startVars, requestVars,
           reloadVars, historyVars
  <2>2. QED
    BY <1>5, <2>1, MaxSpawnsAssumption DEF IInv, TypeOK, OneStop, StopMetNobody, Unwanted,
      Live, NoReload, Reloading, RestartGoesOn, Spawned, Room, NoReload, startVars, requestVars,
      reloadVars, historyVars
<1>6. QED  BY <1>1, <1>2, <1>3, <1>4, <1>5 DEF IInv

\* Every step keeps the invariant.
LEMMA NextIInv == IInv /\ [Next]_vars => IInv'
<1> SUFFICES ASSUME IInv, [Next]_vars PROVE IInv'
  OBVIOUS
<1>1. CASE Start \/ Stop \/ StopGivesUp \/ Resume
  BY <1>1, StartStep, StopStep, StopGivesUpStep, ResumeStep
<1>2. ASSUME NEW p \in Process,
             Ready(p) \/ StartTimesOut(p) \/ Settle(p) \/ Initialize(p) \/ Exit(p) \/ Close(p)
      PROVE  IInv'
  BY <1>2, ReadyStep, StartTimesOutStep, SettleStep, InitializeStep, ExitStep, CloseStep
<1>3. ASSUME NEW r \in Request, Send(r) \/ TimeOut(r) \/ Respond(r) \/ Terminal(r) PROVE IInv'
  BY <1>3, SendStep, SettleRequestStep, TerminalStep
<1>4. CASE FileChange \/ CoolDown \/ Restart \/ RestartGoesOn
  BY <1>4, FileChangeStep, RestartStep, RestartGoesOnStep
<1>5. CASE UNCHANGED vars
  BY <1>5 DEF vars, startVars, requestVars, reloadVars, historyVars, IInv, TypeOK, RunningServes,
      OneStop,
      OneAtATime, SafeToReplace, StopMetNobody, Unwanted, Live, Alive
<1>6. QED
  BY <1>1, <1>2, <1>3, <1>4, <1>5 DEF Next

\* In every reachable state 'running' is true of an initialized process; a
\* process that is replaced was told to stop, unless a start() has spawned
\* while restart() waited; and nothing is under way after a stop() that met
\* neither a restart() nor another stop() a start() was waiting for.
THEOREM Invariance == Spec => []IInv
<1>1. QED  BY InitIInv, NextIInv, PTL DEF Spec

\* No bridge process runs on that nobody will use and nobody has told to
\* stop, whichever of start(), stop() and restart() overlap, as long as no
\* start() has spawned while restart() was waiting for the old process.
THEOREM NoOrphanHolds == Spec => []NoOrphan
<1>1. IInv => NoOrphan
  BY DEF IInv, SafeToReplace, NoOrphan
<1>2. QED  BY <1>1, Invariance, PTL

\* If the user's last call was stop(), the bridge is stopped when it
\* returns, and stays so, unless a stop() and a restart() were under way at
\* once or a stop() joined another for whose end a start() was waiting.
THEOREM StopIsFinalHolds == Spec => []StopIsFinal
<1>1. IInv => StopIsFinal
  BY DEF IInv, StopMetNobody, Unwanted, StopIsFinal
<1>2. QED  BY <1>1, Invariance, PTL

\* What the manager believes of its process and requests is so: a request
\* waits for an answer of the current process only, with the exception of
\* NoOrphan.
THEOREM BridgeConsistent == Spec => []Consistent
<1>1. IInv => Consistent
  BY DEF IInv, SafeToReplace, Consistent, PendingOfCurrent, Pending
<1>2. QED  BY <1>1, Invariance, PTL
=============================================================================
