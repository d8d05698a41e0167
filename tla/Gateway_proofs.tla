--------------------------- MODULE Gateway_proofs ---------------------------
(***************************************************************************)
(* Theorems about the gateway, for any set of jobs and senders and any     *)
(* number of edits, crashes and given-up asks: first its scheduled jobs,   *)
(* then the callers of the runtime, then both.                             *)
(***************************************************************************)
EXTENDS Gateway, SequenceTheorems, FiniteSetTheorems, TLAPS

(***************************************************************************)
(* A step of the gateway is one of the cron service, or leaves its store   *)
(* and file alone.                                                         *)
(***************************************************************************)
CronStep ==
    \/ Start \/ Wake \/ Finish \/ SaveAndArm \/ Crash \/ UserStep
    \/ \E j \in Job : Elapse(j) \/ Begin(j)

\* What the other callers and the runtime do is no step of the cron service.
LEMMA NextIsCronStep == [Next]_gatewayAllVars => CronStep \/ UNCHANGED cronVars
<1> SUFFICES ASSUME [Next]_gatewayAllVars PROVE CronStep \/ UNCHANGED cronVars
  OBVIOUS
<1>1. CASE UNCHANGED gatewayAllVars
  BY <1>1 DEF gatewayAllVars
<1>2. CASE \/ \E c \in Sender : Dispatch(c)
           \/ JobTimeOut \/ Asking
  BY <1>2 DEF Dispatch, JobTimeOut, Asking
<1>3. CASE \E j \in Job : BeginJob(j)
  BY <1>3 DEF BeginJob, CronStep
<1>4. CASE FinishJob \/ Die \/ Scheduling \/ Elsewhere
  BY <1>4 DEF FinishJob, Die, Scheduling, Elsewhere, CronStep
<1>5. QED  BY <1>1, <1>2, <1>3, <1>4 DEF Next

(***************************************************************************)
(* The inductive invariant.                                                *)
(***************************************************************************)

WellFormed(store) == store \in Store /\ store.on \subseteq store.jobs /\ store.next \subseteq store.jobs

Shape ==
    /\ WellFormed(file) /\ WellFormed(memory) /\ WellFormed(copy)
    /\ torn \in BOOLEAN /\ timer \in {"down", "off", "armed", "running"}
    /\ batch \subseteq memory.jobs /\ current \in memory.jobs \cup {NoJob}
    /\ cli \in copy.jobs \cup {NoJob} /\ elapsed \subseteq Job
    /\ begun \in [OneShot -> Nat]
    /\ timer # "running" => batch = {} /\ current = NoJob

\* A one-shot job that was begun is over, or is the one being executed: the
\* store in memory has no next run for it, and its time will not come again.
Spent(j) ==
    /\ begun[j] = 1 /\ j \in elapsed /\ j \notin batch
    /\ j \in memory.on \cap memory.next => j = current

OnceInv ==
    /\ batch \cap OneShot \subseteq elapsed
    /\ \A j \in OneShot : begun[j] = 0 \/ Spent(j)

\* While nothing overlaps, every store that may be saved has the wanted jobs.
KeptInv ==
    mishaps = {} =>
        /\ ~torn /\ file.jobs = wanted
        /\ timer # "down" => memory.jobs = wanted /\ cli = NoJob
        /\ cli # NoJob => copy.jobs = wanted
        /\ timer \in {"off", "armed"} => file = memory

IInv == Shape /\ OnceInv /\ KeptInv

\* An empty file and nothing loaded.
LEMMA InitIInv == Init => IInv
<1> SUFFICES ASSUME CronInit PROVE IInv
  BY DEF Init
<1>1. WellFormed(Empty) /\ Empty.jobs = {}
  BY DEF WellFormed, Store, Empty
<1>2. Shape
  BY <1>1, JobAssumption DEF CronInit, Shape
<1>3. OnceInv
  BY DEF CronInit, OnceInv
<1>4. KeptInv
  BY <1>1 DEF CronInit, KeptInv
<1>5. QED  BY <1>2, <1>3, <1>4 DEF IInv

\* What is loaded is well formed, even from a file cut off.
LEMMA LoadedWellFormed == Shape => WellFormed(Loaded)
BY DEF Shape, Loaded, WellFormed, Store, Empty

\* An executed job keeps the store well formed; a one-shot job has no next run.
LEMMA AfterWellFormed ==
    ASSUME NEW store, WellFormed(store), NEW j \in store.jobs
    PROVE  /\ WellFormed(After(store, j)) /\ After(store, j).jobs = store.jobs
           /\ \A i \in Job : i \in After(store, j).on \cap After(store, j).next =>
                (i \in store.on \cap store.next \/ i = j) /\ (i = j => j \notin OneShot)
BY DEF WellFormed, Store, After

\* Every step keeps the stores well formed.
LEMMA StepShape == IInv /\ CronStep => Shape'
<1> SUFFICES ASSUME IInv, CronStep PROVE Shape'
  OBVIOUS
<1> USE JobAssumption DEF IInv, Shape
<1>1. WellFormed(Loaded)
  BY LoadedWellFormed
<1>2. CASE Start
  BY <1>1, <1>2 DEF Start, Save, WellFormed, Store, WithNextRun, Armed, cliVars
<1>3. CASE Wake
  BY <1>3 DEF Wake, Due, WellFormed, cliVars
<1>4. CASE Finish
  BY <1>4, AfterWellFormed DEF Finish, cliVars
<1>5. CASE SaveAndArm
  BY <1>5 DEF SaveAndArm, BatchDone, Save, Armed, cliVars
<1>6. CASE Crash
  BY <1>6 DEF Crash, WellFormed, Store, Empty, cliVars
<1>7. CASE UserStep
  <2>1. ASSUME NEW j \in Job, Create(j) PROVE Shape'
    BY <1>1, <2>1 DEF Create, Edit, Save, WellFormed, Store, WithNextRun, gatewayVars, cliVars
  <2>2. ASSUME NEW j \in Job, RemoveJob(j) PROVE Shape'
    BY <1>1, <2>2 DEF RemoveJob, Edit, Save, WellFormed, Store, gatewayVars, cliVars
  <2>3. ASSUME NEW j \in Job, MarkRun(j) PROVE Shape'
    BY <1>1, <2>3, AfterWellFormed DEF MarkRun, Edit, Save, gatewayVars, cliVars
  <2>4. ASSUME NEW j \in Job, RunBegins(j) PROVE Shape'
    BY <1>1, <2>4 DEF RunBegins, gatewayVars
  <2>5. ASSUME NEW j \in Job, NEW enabled \in BOOLEAN, Toggle(j, enabled) PROVE Shape'
    BY <1>1, <2>5 DEF Toggle, Edit, Save, WellFormed, Store, WithNextRun, gatewayVars, cliVars
  <2>6. CASE RunEnds
    <3>1. WellFormed(After(copy, cli))
      BY <2>6, AfterWellFormed DEF RunEnds
    <3>2. QED  BY <2>6, <3>1 DEF RunEnds, Save, WellFormed, Store, Empty, gatewayVars
  <2>7. CASE RunDies
    BY <2>7 DEF RunDies, WellFormed, Store, Empty, gatewayVars
  <2>8. QED  BY <1>7, <2>1, <2>2, <2>3, <2>4, <2>5, <2>6, <2>7 DEF UserStep
<1>8. ASSUME NEW j \in Job, Elapse(j) PROVE Shape'
  BY <1>8 DEF Elapse, gatewayVars, cliVars
<1>9. ASSUME NEW j \in Job, Begin(j) PROVE Shape'
  BY <1>9 DEF Begin, cliVars
<1>10. QED
  BY <1>2, <1>3, <1>4, <1>5, <1>6, <1>7, <1>8, <1>9 DEF CronStep

\* One-shot jobs: only Start and After change what the gateway believes.
LEMMA StepOnce == IInv /\ CronStep => OnceInv'
<1> SUFFICES ASSUME IInv, CronStep PROVE OnceInv'
  OBVIOUS
<1> USE JobAssumption DEF IInv, Shape
<1>1. ASSUME \/ Start \/ Wake \/ SaveAndArm \/ Crash \/ UserStep \/ \E j \in Job : Elapse(j)
      PROVE  begun' = begun
  BY <1>1 DEF Start, Wake, SaveAndArm, Crash, UserStep, Create, RemoveJob, MarkRun, Edit, Toggle,
      RunBegins, RunEnds, RunDies, Elapse
<1>2. CASE Start
  <2>1. ASSUME NEW j \in OneShot, j \in elapsed PROVE j \notin (memory.on \cap memory.next)'
    BY <1>2, <2>1 DEF Start, WithNextRun
  <2>2. QED  BY <1>1, <1>2, <2>1 DEF Start, OnceInv, Spent
<1>3. CASE Wake
  BY <1>1, <1>3 DEF Wake, Due, OnceInv, Spent
<1>4. CASE Finish
  <2>1. ASSUME NEW j \in OneShot, j \in (memory.on \cap memory.next)'
        PROVE  j \in memory.on \cap memory.next /\ j # current
    BY <1>4, <2>1, AfterWellFormed DEF Finish
  <2>2. QED  BY <1>4, <2>1 DEF Finish, OnceInv, Spent
<1>5. CASE SaveAndArm
  BY <1>1, <1>5 DEF SaveAndArm, OnceInv, Spent
<1>6. CASE Crash
  BY <1>1, <1>6 DEF Crash, Empty, OnceInv, Spent
<1>7. CASE UserStep
  <2>1. UNCHANGED <<gatewayVars, elapsed>>
    BY <1>7 DEF UserStep, Create, RemoveJob, MarkRun, Edit, Toggle, RunBegins, RunEnds, RunDies
  <2>2. QED  BY <1>1, <1>7, <2>1 DEF gatewayVars, OnceInv, Spent
<1>8. ASSUME NEW j \in Job, Elapse(j) PROVE OnceInv'
  BY <1>1, <1>8 DEF Elapse, gatewayVars, OnceInv, Spent
<1>9. ASSUME NEW j \in Job, Begin(j) PROVE OnceInv'
  BY <1>9 DEF Begin, OnceInv, Spent
<1>10. QED
  BY <1>2, <1>3, <1>4, <1>5, <1>6, <1>7, <1>8, <1>9 DEF CronStep

\* The wanted jobs: a change by the user is an overlap unless it meets no
\* other store, and no other step adds or removes a job.
LEMMA StepKept == IInv /\ CronStep => KeptInv'
<1> SUFFICES ASSUME IInv, CronStep, mishaps' = {} PROVE KeptInv'
  BY DEF KeptInv
<1> USE DEF IInv, Shape
<1>1. mishaps = {}
  BY DEF CronStep, Start, Wake, Finish, SaveAndArm, Crash, UserStep, Create, RemoveJob, MarkRun,
      Edit, Toggle, RunBegins, RunEnds, RunDies, Elapse, Begin
<1>2. Loaded = file
  BY <1>1 DEF KeptInv, Loaded
<1>3. CASE Start
  BY <1>1, <1>2, <1>3 DEF Start, Save, Armed, KeptInv, cliVars
<1>4. CASE Wake
  BY <1>1, <1>4 DEF Wake, KeptInv, cliVars
<1>5. CASE Finish
  BY <1>1, <1>5, AfterWellFormed DEF Finish, KeptInv, cliVars
<1>6. CASE SaveAndArm
  BY <1>1, <1>6 DEF SaveAndArm, BatchDone, Save, Armed, KeptInv, cliVars
<1>7. CASE Crash
  BY <1>1, <1>7 DEF Crash, KeptInv, cliVars
<1>8. CASE UserStep
  <2>1. ASSUME Edit PROVE timer = "down" /\ cli = NoJob
    BY <1>1, <2>1 DEF Edit
  <2>2. ASSUME NEW j \in Job, Create(j) \/ RemoveJob(j) PROVE KeptInv'
    <3>1. timer = "down" /\ cli = NoJob /\ UNCHANGED <<gatewayVars, cliVars>> /\ ~torn'
      BY <2>1, <2>2 DEF Create, RemoveJob, Edit, Save
    <3>2. file.jobs = wanted
      BY <1>1 DEF KeptInv
    <3>3. file'.jobs = wanted'
      <4>1. CASE Create(j)
        <5>1. file'.jobs = file.jobs \cup {j} /\ wanted' = wanted \cup {j}
          BY <1>2, <4>1 DEF Create, Save
        <5>2. QED  BY <3>2, <5>1
      <4>2. CASE RemoveJob(j)
        <5>1. file'.jobs = file.jobs \ {j} /\ wanted' = wanted \ {j}
          BY <1>2, <4>2 DEF RemoveJob, Save
        <5>2. QED  BY <3>2, <5>1
      <4>3. QED  BY <2>2, <4>1, <4>2
    <3>4. QED  BY <3>1, <3>3 DEF KeptInv, gatewayVars, cliVars
  <2>3. ASSUME NEW j \in Job, MarkRun(j) PROVE KeptInv'
    BY <1>1, <1>2, <2>1, <2>3, AfterWellFormed
       DEF MarkRun, Edit, Save, KeptInv, gatewayVars, cliVars
  <2>4. ASSUME NEW j \in Job, NEW enabled \in BOOLEAN, Toggle(j, enabled) PROVE KeptInv'
    BY <1>1, <1>2, <2>1, <2>4 DEF Toggle, Edit, Save, KeptInv, gatewayVars, cliVars
  <2>5. ASSUME NEW j \in Job, RunBegins(j) PROVE KeptInv'
    BY <1>1, <1>2, <2>5 DEF RunBegins, KeptInv, gatewayVars
  <2>6. CASE RunEnds
    <3>1. After(copy, cli).jobs = copy.jobs
      BY <2>6, AfterWellFormed DEF RunEnds
    <3>2. QED  BY <1>1, <2>6, <3>1 DEF RunEnds, Save, KeptInv, gatewayVars
  <2>7. CASE RunDies
    BY <1>1, <2>7 DEF RunDies, KeptInv, gatewayVars
  <2>8. QED  BY <1>8, <2>2, <2>3, <2>4, <2>5, <2>6, <2>7 DEF UserStep
<1>9. ASSUME NEW j \in Job, Elapse(j) \/ Begin(j) PROVE KeptInv'
  BY <1>1, <1>9 DEF Elapse, Begin, KeptInv, gatewayVars, cliVars
<1>10. QED
  BY <1>3, <1>4, <1>5, <1>6, <1>7, <1>8, <1>9 DEF CronStep

\* The cron service's invariant holds of the whole gateway.
LEMMA IInvHolds == Spec => []IInv
<1>1. IInv /\ UNCHANGED cronVars => IInv'
  BY DEF IInv, Shape, OnceInv, KeptInv, Spent, WellFormed, cronVars, gatewayVars, cliVars
<1>2. IInv /\ [Next]_gatewayAllVars => IInv'
  BY <1>1, NextIsCronStep, StepShape, StepOnce, StepKept DEF IInv
<1>3. QED  BY InitIInv, <1>2, PTL DEF Spec

\* The gateway never begins a one-shot job twice: not after a crash, not
\* when it is switched on again, not from an older copy of the file.
THEOREM OneShotsRunOnce == Spec => []OneShotOnce
<1>1. IInv => OneShotOnce
  BY DEF IInv, OnceInv, Spent, OneShotOnce
<1>2. QED  BY IInvHolds, <1>1, PTL

\* As long as no two processes have a store in use at once and no write is
\* cut off, the file holds exactly the jobs the user created and not removed.
THEOREM WantedJobsKept == Spec => []JobsKept
<1>1. IInv => JobsKept
  BY DEF IInv, KeptInv, JobsKept, Loaded
<1>2. QED  BY IInvHolds, <1>1, PTL

\* Under the same condition nothing runs that was removed, and between two
\* batches file and memory are the same.
THEOREM MemoryIsSaved == Spec => [](RunsWanted /\ SavedIsTrue)
<1>1. IInv => RunsWanted /\ SavedIsTrue
  BY DEF IInv, Shape, KeptInv, RunsWanted, SavedIsTrue
<1>2. QED  BY IInvHolds, <1>1, PTL
-----------------------------------------------------------------------------
(***************************************************************************)
(* The callers of the runtime.  Every ask is in the line exactly once, and *)
(* only the first of the line reads.  The turns and the events left are    *)
(* those of the reader and of the asks given up: with none given up there  *)
(* is at most one, the reader's.                                           *)
(***************************************************************************)

Reads == line # <<>> /\ ask[Head(line)] = "reading"

InLine ==
    /\ \A i, k \in 1..Len(line) : line[i] = line[k] => i = k
    /\ \A c \in Caller : ask[c] # "idle" <=> \E i \in 1..Len(line) : line[i] = c
    /\ \A c \in Caller : ask[c] = "reading" => line[1] = c

Counted == Len(turns) + Len(events) = slips + (IF Reads THEN 1 ELSE 0)

Owned ==
    slips = 0 =>
        /\ \A i \in 1..Len(turns) : turns[i] = Head(line)
        /\ \A i \in 1..Len(events) : events[i].of = Head(line)
        /\ AnswerIsOwn

AskInv == AsksTypeOK /\ InLine /\ Counted /\ Owned

\* What is left of a line when the one at a place leaves it.
LEMMA RemoveAtFacts ==
    ASSUME NEW S, NEW s \in Seq(S), NEW i \in 1..Len(s)
    PROVE  /\ RemoveAt(s, i) \in Seq(S) /\ Len(RemoveAt(s, i)) = Len(s) - 1
           /\ \A k \in 1..(Len(s) - 1) : RemoveAt(s, i)[k] = IF k < i THEN s[k] ELSE s[k + 1]
<1> DEFINE front == SubSeq(s, 1, i - 1)
           back == SubSeq(s, i + 1, Len(s))
<1>1. front \in Seq(S) /\ Len(front) = i - 1 /\ \A k \in 1..(i - 1) : front[k] = s[k]
  <2>1. i - 1 \in Int /\ \A k \in 1..(i - 1) : s[k] \in S
    OBVIOUS
  <2>2. /\ front \in Seq(S) /\ Len(front) = IF 1 <= i - 1 THEN i - 1 - 1 + 1 ELSE 0
        /\ \A k \in 1..(i - 1 - 1 + 1) : front[k] = s[1 + k - 1]
    BY <2>1, SubSeqProperties
  <2>3. QED  BY <2>2
<1>2. back \in Seq(S) /\ Len(back) = Len(s) - i /\ \A k \in 1..(Len(s) - i) : back[k] = s[k + i]
  <2>1. i + 1 \in Int /\ Len(s) \in Int /\ \A k \in (i + 1)..Len(s) : s[k] \in S
    OBVIOUS
  <2>2. /\ back \in Seq(S) /\ Len(back) = IF i + 1 <= Len(s) THEN Len(s) - (i + 1) + 1 ELSE 0
        /\ \A k \in 1..(Len(s) - (i + 1) + 1) : back[k] = s[(i + 1) + k - 1]
    BY <2>1, SubSeqProperties
  <2>3. QED  BY <2>2
<1>3. RemoveAt(s, i) = front \o back
  BY DEF RemoveAt
<1> HIDE DEF front, back
<1> DEFINE left == front \o back
<1>4. /\ left \in Seq(S) /\ Len(left) = Len(front) + Len(back)
      /\ \A k \in 1..(Len(front) + Len(back)) :
            left[k] = IF k <= Len(front) THEN front[k] ELSE back[k - Len(front)]
  BY <1>1, <1>2, ConcatProperties
<1> HIDE DEF left
<1>5. Len(front) + Len(back) = Len(s) - 1 /\ Len(s) \in Nat
  BY <1>1, <1>2
<1>6. ASSUME NEW k \in 1..(Len(s) - 1)
      PROVE  left[k] = IF k < i THEN s[k] ELSE s[k + 1]
  <2>1. CASE k < i
    BY <1>1, <1>4, <1>5, <1>6, <2>1
  <2>2. CASE ~(k < i)
    <3>1. left[k] = back[k - (i - 1)]
      BY <1>1, <1>4, <1>5, <1>6, <2>2
    <3>2. k - (i - 1) \in 1..(Len(s) - i) /\ (k - (i - 1)) + i = k + 1
      BY <1>5, <1>6, <2>2
    <3>3. QED  BY <1>2, <2>2, <3>1, <3>2
  <2>3. QED  BY <2>1, <2>2
<1>7. RemoveAt(s, i) = left
  BY <1>3 DEF left
<1>8. QED  BY <1>4, <1>5, <1>6, <1>7

\* Any list that grows at its end or loses its head.
LEMMA AppendFacts ==
    ASSUME NEW S, NEW s \in Seq(S), NEW x \in S
    PROVE  /\ Append(s, x) \in Seq(S) /\ Len(Append(s, x)) = Len(s) + 1
           /\ \A k \in 1..(Len(s) + 1) : Append(s, x)[k] = IF k <= Len(s) THEN s[k] ELSE x
BY AppendProperties

\* A list that loses its head.
LEMMA TailFacts ==
    ASSUME NEW S, NEW s \in Seq(S), s # <<>>
    PROVE  /\ Tail(s) \in Seq(S) /\ Len(Tail(s)) = Len(s) - 1 /\ Len(s) \in Nat \ {0}
           /\ \A k \in 1..(Len(s) - 1) : Tail(s)[k] = s[k + 1]
           /\ Head(s) = s[1] /\ s[1] \in S
BY HeadTailProperties

\* Whoever leaves the line: nobody else moves, and the reader, if it stays,
\* is still the first.
LEMMA LeavingFacts ==
    ASSUME AskInv, NEW c \in Caller, ask[c] # "idle",
           NEW rest \in Seq([of : Caller \cup {Nobody}, kind : {"answer", "error", "warning"}]),
           Leaves(c, rest)
    PROVE  /\ ask' \in [Caller -> {"idle", "waiting", "reading"}] /\ line' \in Seq(Caller)
           /\ InLine'
           /\ Reads' <=> Reads /\ ask[c] # "reading"
           /\ Reads' => Head(line') = Head(line)
           /\ turns' \in Seq(Caller \cup {Nobody}) /\ Len(turns') = Len(turns)
           /\ events' \in Seq([of : Caller \cup {Nobody}, kind : {"answer", "error", "warning"}])
           /\ Len(events') = Len(rest)
           /\ \A i \in 1..Len(turns) : turns[i] # c => turns'[i] = turns[i]
           /\ \A i \in 1..Len(rest) : rest[i].of # c => events'[i] = rest[i]
<1> USE DEF AskInv, AsksTypeOK
<1>1. /\ ask' \in [Caller -> {"idle", "waiting", "reading"}] /\ ask'[c] = "idle"
      /\ \A b \in Caller \ {c} : ask'[b] = ask[b]
  BY DEF Leaves
<1>2. PICK p \in 1..Len(line) : line[p] = c /\ line' = RemoveAt(line, p)
  <2>1. \E place \in DOMAIN line : line[place] = c /\ line' = RemoveAt(line, place)
    BY DEF Leaves
  <2>2. DOMAIN line = 1..Len(line)
    OBVIOUS
  <2>3. QED  BY <2>1, <2>2
<1>3. /\ line' \in Seq(Caller) /\ Len(line') = Len(line) - 1
      /\ \A k \in 1..(Len(line) - 1) : line'[k] = IF k < p THEN line[k] ELSE line[k + 1]
  BY <1>2, RemoveAtFacts
<1>4. /\ Len(line) \in Nat \ {0} /\ line # <<>> /\ Head(line) = line[1] /\ p \in 1..Len(line)
      /\ \A k \in 1..Len(line) : line[k] \in Caller
  BY <1>2
<1> DEFINE was(k) == IF k < p THEN k ELSE k + 1
<1>5. \A k \in 1..Len(line') : was(k) \in 1..Len(line) /\ was(k) # p /\ line'[k] = line[was(k)]
  BY <1>3, <1>4
<1>6. \A i, k \in 1..Len(line') : was(i) = was(k) => i = k
  BY <1>3, <1>4
<1>7. \A i, k \in 1..Len(line') : line'[i] = line'[k] => i = k
  <2>1. \A i, k \in 1..Len(line) : line[i] = line[k] => i = k
    BY DEF InLine
  <2> HIDE DEF was
  <2>2. QED  BY <1>5, <1>6, <2>1
<1>8. \A b \in Caller : (\E i \in 1..Len(line') : line'[i] = b) <=> b # c /\ \E i \in 1..Len(line) : line[i] = b
  <2>1. ASSUME NEW b \in Caller, NEW i \in 1..Len(line'), line'[i] = b
        PROVE  b # c /\ \E k \in 1..Len(line) : line[k] = b
    <3> HIDE DEF was
    <3>1. was(i) \in 1..Len(line) /\ was(i) # p /\ line[was(i)] = b
      BY <1>5, <2>1
    <3>2. QED  BY <1>2, <3>1 DEF InLine
  <2>2. ASSUME NEW b \in Caller, NEW i \in 1..Len(line), line[i] = b, b # c
        PROVE  \E k \in 1..Len(line') : line'[k] = b
    <3>1. CASE i < p
      <4>1. i \in 1..Len(line') /\ line'[i] = b
        BY <1>3, <1>4, <2>2, <3>1
      <4>2. QED  BY <4>1
    <3>2. CASE p < i
      <4>1. i - 1 \in 1..Len(line') /\ line'[i - 1] = b
        BY <1>3, <1>4, <2>2, <3>2
      <4>2. QED  BY <4>1
    <3>3. QED  BY <1>2, <1>4, <2>2, <3>1, <3>2
  <2>3. QED  BY <2>1, <2>2
<1>9. \A b \in Caller : ask'[b] = "reading" => b = line[1] /\ p # 1 /\ Len(line') # 0 /\ line'[1] = b
  <2> TAKE b \in Caller
  <2> HAVE ask'[b] = "reading"
  <2>1. b # c /\ ask[b] = "reading" /\ line[1] = b
    BY <1>1 DEF InLine
  <2>2. p # 1
    BY <1>2, <2>1
  <2>3. Len(line) > 1 /\ 1 < p
    BY <1>4, <2>2
  <2>4. Len(line') # 0 /\ 1 \in 1..(Len(line) - 1)
    <3>1. \A n \in Nat : n > 1 => n - 1 # 0 /\ 1 \in 1..(n - 1)
      OBVIOUS
    <3>2. QED  BY <1>3, <1>4, <2>3, <3>1
  <2>5. line'[1] = line[1]
    BY <1>3, <2>3, <2>4
  <2>6. QED  BY <2>1, <2>2, <2>4, <2>5
<1>10. InLine'
  <2>1. \A b \in Caller : ask'[b] # "idle" <=> \E i \in 1..Len(line') : line'[i] = b
    BY <1>1, <1>8 DEF InLine
  <2>2. QED  BY <1>7, <1>9, <2>1 DEF InLine
<1>11. (Reads' <=> Reads /\ ask[c] # "reading") /\ (Reads' => Head(line') = Head(line))
  <2>1. ASSUME Reads' PROVE Reads /\ ask[c] # "reading" /\ Head(line') = Head(line)
    <3>1. line' # <<>> /\ ask'[Head(line')] = "reading" /\ Head(line') \in Caller
      BY <1>3, <2>1 DEF Reads
    <3>2. Head(line') = line[1] /\ Head(line') # c /\ ask[Head(line')] = "reading"
      BY <1>1, <1>9, <3>1
    <3>3. ask[c] # "reading"
      BY <3>2 DEF InLine
    <3>4. QED  BY <1>4, <3>2, <3>3 DEF Reads
  <2>2. ASSUME Reads, ask[c] # "reading" PROVE Reads'
    <3>1. line[1] # c /\ ask'[line[1]] = "reading" /\ line[1] \in Caller
      BY <1>1, <1>4, <2>2 DEF Reads
    <3>2. Len(line') # 0 /\ line'[1] = line[1]
      BY <1>9, <3>1
    <3>3. line' # <<>> /\ Head(line') = line'[1]
      BY <1>3, <3>2
    <3>4. QED  BY <3>1, <3>2, <3>3 DEF Reads
  <2>3. QED  BY <2>1, <2>2
<1>12. /\ turns' \in Seq(Caller \cup {Nobody}) /\ Len(turns') = Len(turns)
       /\ \A i \in 1..Len(turns) : turns[i] # c => turns'[i] = turns[i]
  BY DEF Leaves
<1>13. /\ events' \in Seq([of : Caller \cup {Nobody}, kind : {"answer", "error", "warning"}])
       /\ Len(events') = Len(rest)
       /\ \A i \in 1..Len(rest) : rest[i].of # c => events'[i] = rest[i]
  <2> DEFINE Event == [of : Caller \cup {Nobody}, kind : {"answer", "error", "warning"}]
             now(i) == IF rest[i].of = c THEN [rest[i] EXCEPT !.of = Nobody] ELSE rest[i]
  <2>1. events' = [i \in 1..Len(rest) |-> now(i)]
    BY DEF Leaves
  <2>2. \A i \in 1..Len(rest) : now(i) \in Event
    <3> TAKE i \in 1..Len(rest)
    <3>1. rest \in Seq(Event)
      OBVIOUS
    <3> HIDE DEF Event
    <3>2. rest[i] \in Event
      BY <3>1
    <3>3. QED  BY <3>2 DEF Event
  <2>3. \A i \in 1..Len(rest) : rest[i].of # c => now(i) = rest[i]
    OBVIOUS
  <2> HIDE DEF now, Event
  <2>4. Len(rest) \in Nat
    OBVIOUS
  <2>5. events' \in Seq(Event) /\ Len(events') = Len(rest)
    BY <2>1, <2>2, <2>4
  <2>6. QED  BY <2>1, <2>3, <2>5 DEF Event
<1>14. QED  BY <1>1, <1>3, <1>10, <1>11, <1>12, <1>13
\* A step of the gateway is one of the callers or the runtime, a restart, or
\* leaves both alone.
AskStep ==
    \/ \E c \in Caller : Ask(c) \/ Submit(c) \/ Read(c) \/ TimeOut(c) \/ Cancel(c)
    \/ \E kind \in {"answer", "error"} : TurnEnds(kind)
    \/ Warn \/ AsksRestart

\* What jobs and edits do without asking is no step of the callers.
LEMMA NextIsAskStep ==
    ASSUME IInv, [Next]_gatewayAllVars PROVE AskStep \/ UNCHANGED askVars
<1>1. CASE UNCHANGED gatewayAllVars
  BY <1>1 DEF gatewayAllVars
<1>2. CASE \/ \E c \in Sender : Dispatch(c)
           \/ \E j \in Job : BeginJob(j)
           \/ Asking \/ Die
  BY <1>2, CallerAssumption DEF Dispatch, BeginJob, Asking, Die, AskStep
<1>3. CASE JobTimeOut
  <2>1. current \in Job
    BY <1>3 DEF JobTimeOut, IInv, Shape, WellFormed, Store
  <2>2. QED  BY <1>3, <2>1, CallerAssumption DEF JobTimeOut, AskStep
<1>4. CASE FinishJob \/ Scheduling \/ Elsewhere
  BY <1>4 DEF FinishJob, Scheduling, Elsewhere
<1>5. QED  BY <1>1, <1>2, <1>3, <1>4 DEF Next

\* A reader that leaves takes the one entry that is its own with it.
LEMMA LeavingKeeps ==
    ASSUME AskInv, NEW c \in Caller, ask[c] # "idle", slips' \in 0..MaxSlips,
           NEW rest \in Seq([of : Caller \cup {Nobody}, kind : {"answer", "error", "warning"}]),
           Leaves(c, rest), warned' = warned,
           got' \in [Caller -> Caller \cup {Nobody, None}],
           \/ ask[c] = "waiting" /\ rest = events /\ slips' = slips /\ got' = got
           \/ ask[c] = "reading" /\ rest = events /\ slips' = slips + 1
           \/ /\ ask[c] = "reading" /\ events # <<>> /\ rest = Tail(events) /\ slips' = slips
              /\ got' = [got EXCEPT ![c] = Head(events).of]
    PROVE  AskInv'
<1> USE SlipsAssumption DEF AskInv, AsksTypeOK
<1>1. /\ AsksTypeOK' /\ InLine'
      /\ Reads' <=> Reads /\ ask[c] # "reading"
      /\ Reads' => Head(line') = Head(line)
      /\ Len(turns') = Len(turns) /\ Len(events') = Len(rest)
      /\ \A i \in 1..Len(turns) : turns[i] # c => turns'[i] = turns[i]
      /\ \A i \in 1..Len(rest) : rest[i].of # c => events'[i] = rest[i]
  BY LeavingFacts
<1>2. ask[c] = "reading" => Reads /\ Head(line) = c
  <2> HAVE ask[c] = "reading"
  <2>1. PICK i \in 1..Len(line) : line[i] = c
    BY DEF InLine
  <2>2. line # <<>> /\ Head(line) = line[1] /\ line[1] = c
    BY <2>1 DEF InLine
  <2>3. QED  BY <2>2 DEF Reads
<1>3. events # <<>> => /\ Len(Tail(events)) = Len(events) - 1 /\ Len(events) \in Nat \ {0}
                       /\ Head(events) = events[1]
  OBVIOUS
<1>4. Len(turns) \in Nat /\ Len(events) \in Nat /\ slips \in Nat
  OBVIOUS
<1>5. Counted'
  <2>1. CASE ask[c] = "waiting"
    <3>1. Reads' <=> Reads
      BY <1>1, <2>1
    <3>2. Len(events') = Len(events) /\ slips' = slips
      BY <1>1, <2>1
    <3>3. QED  BY <1>1, <3>1, <3>2 DEF Counted
  <2>2. CASE ask[c] = "reading"
    <3>1. Reads /\ ~Reads'
      BY <1>1, <1>2, <2>2
    <3>2. \/ Len(events') = Len(events) /\ slips' = slips + 1
          \/ Len(events') = Len(events) - 1 /\ slips' = slips
      BY <1>1, <1>3, <2>2
    <3>3. QED  BY <1>1, <1>4, <3>1, <3>2 DEF Counted
  <2>3. QED  BY <2>1, <2>2
<1>6. Owned'
  <2> SUFFICES ASSUME slips' = 0
      PROVE  /\ \A i \in 1..Len(turns') : turns'[i] = Head(line')
             /\ \A i \in 1..Len(events') : events'[i].of = Head(line')
             /\ AnswerIsOwn'
    BY DEF Owned
  <2>1. slips = 0
    BY <1>4
  <2>2. /\ \A i \in 1..Len(turns) : turns[i] = Head(line)
        /\ \A i \in 1..Len(events) : events[i].of = Head(line)
        /\ \A b \in Caller : got[b] \in {b, None}
    BY <2>1 DEF Owned, AnswerIsOwn
  <2>3. CASE ask[c] = "waiting"
    <3>1. rest = events /\ got' = got /\ (Reads' <=> Reads) /\ (Reads' => Head(line') = Head(line))
      BY <1>1, <2>3
    <3>2. CASE Reads
      <4>1. ask[Head(line)] = "reading" /\ Head(line) # c /\ Head(line') = Head(line)
        BY <2>3, <3>1, <3>2 DEF Reads
      <4>2. \A i \in 1..Len(turns) : turns'[i] = Head(line)
        BY <1>1, <2>2, <4>1
      <4>3. \A i \in 1..Len(events) : events'[i].of = Head(line)
        BY <1>1, <2>2, <3>1, <4>1
      <4>4. QED  BY <1>1, <2>2, <3>1, <4>1, <4>2, <4>3 DEF AnswerIsOwn
    <3>3. CASE ~Reads
      <4>1. Len(turns) = 0 /\ Len(events) = 0
        BY <1>4, <2>1, <3>3 DEF Counted
      <4>2. QED  BY <1>1, <2>2, <3>1, <4>1 DEF AnswerIsOwn
    <3>4. QED  BY <3>2, <3>3
  <2>4. CASE ask[c] = "reading"
    <3>1. /\ events # <<>> /\ rest = Tail(events) /\ got' = [got EXCEPT ![c] = Head(events).of]
          /\ Reads /\ Head(line) = c
      BY <1>2, <1>4, <2>1, <2>4
    <3>2. Len(turns) = 0 /\ Len(events) = 1 /\ Len(rest) = 0 /\ Head(events) = events[1]
      <4>1. Len(turns) + Len(events) = 1
        BY <2>1, <3>1 DEF Counted
      <4>2. Len(rest) = Len(events) - 1 /\ Len(events) \in Nat \ {0} /\ Head(events) = events[1]
        BY <1>3, <3>1
      <4>3. \A n \in Nat, m \in Nat \ {0} : n + m = 1 => n = 0 /\ m = 1 /\ m - 1 = 0
        OBVIOUS
      <4>4. QED  BY <1>4, <4>1, <4>2, <4>3
    <3>3. Head(events).of = c
      <4>1. 1 \in 1..Len(events) /\ Head(events) = events[1]
        BY <3>2
      <4>2. QED  BY <2>2, <3>1, <4>1
    <3>4. \A b \in Caller : got'[b] \in {b, None}
      BY <2>2, <3>1, <3>3
    <3>5. QED  BY <1>1, <3>2, <3>4 DEF AnswerIsOwn
  <2>5. QED  BY <2>3, <2>4
<1>7. QED  BY <1>1, <1>5, <1>6
\* The values a new process begins with.
LEMMA FreshTypes ==
    /\ [c \in Caller |-> "idle"] \in [Caller -> {"idle", "waiting", "reading"}]
    /\ [c \in Caller |-> None] \in [Caller -> Caller \cup {Nobody, None}]
    /\ <<>> \in Seq(Caller) /\ <<>> \in Seq(Caller \cup {Nobody})
    /\ <<>> \in Seq([of : Caller \cup {Nobody}, kind : {"answer", "error", "warning"}])
    /\ 0 \in 0..MaxSlips
<1>1. /\ [c \in Caller |-> "idle"] \in [Caller -> {"idle", "waiting", "reading"}]
      /\ [c \in Caller |-> None] \in [Caller -> Caller \cup {Nobody, None}]
  OBVIOUS
<1>2. \A S : <<>> \in Seq(S)
  OBVIOUS
<1>3. 0 \in 0..MaxSlips
  BY SlipsAssumption
<1>4. QED  BY <1>1, <1>2, <1>3

\* Every step of a caller or of the runtime keeps the callers' invariant.
LEMMA StepAsks == AskInv /\ AskStep => AskInv'
<1> SUFFICES ASSUME AskInv, AskStep PROVE AskInv'
  OBVIOUS
<1> USE SlipsAssumption DEF AskInv, AsksTypeOK
<1> DEFINE Event == [of : Caller \cup {Nobody}, kind : {"answer", "error", "warning"}]
<1>0. events \in Seq(Event) /\ Len(turns) \in Nat /\ Len(events) \in Nat /\ Len(line) \in Nat
  OBVIOUS
<1>1. ASSUME NEW c \in Caller, Ask(c) PROVE AskInv'
  <2>1. /\ line' \in Seq(Caller) /\ Len(line') = Len(line) + 1
        /\ \A k \in 1..(Len(line) + 1) : line'[k] = IF k <= Len(line) THEN line[k] ELSE c
    BY <1>1, AppendFacts DEF Ask
  <2>2. /\ ask' \in [Caller -> {"idle", "waiting", "reading"}] /\ ask'[c] = "waiting"
        /\ \A b \in Caller \ {c} : ask'[b] = ask[b]
        /\ ask[c] = "idle" /\ ~\E i \in 1..Len(line) : line[i] = c
    BY <1>1 DEF Ask, InLine
  <2>3. got' = [got EXCEPT ![c] = None] /\ UNCHANGED <<turns, events, warned, slips>>
    BY <1>1 DEF Ask
  <2>4. \A b \in Caller : ask'[b] # "idle" <=> \E i \in 1..Len(line') : line'[i] = b
    <3>1. \A b \in Caller : (\E i \in 1..Len(line') : line'[i] = b)
                              <=> b = c \/ \E i \in 1..Len(line) : line[i] = b
      <4>1. Len(line') \in 1..Len(line') /\ line'[Len(line')] = c
        BY <1>0, <2>1
      <4>2. \A i \in 1..Len(line) : i \in 1..Len(line') /\ line'[i] = line[i]
        BY <1>0, <2>1
      <4>3. \A i \in 1..Len(line') : i \in 1..Len(line) \/ line'[i] = c
        BY <1>0, <2>1
      <4>4. QED  BY <4>1, <4>2, <4>3
    <3>2. QED  BY <2>2, <3>1 DEF InLine
  <2>5. \A i, k \in 1..Len(line') : line'[i] = line'[k] => i = k
    BY <1>0, <2>1, <2>2 DEF InLine
  <2>6. \A b \in Caller : ask'[b] = "reading" => line'[1] = b /\ line # <<>>
    <3> TAKE b \in Caller
    <3> HAVE ask'[b] = "reading"
    <3>1. b # c /\ line[1] = b /\ \E i \in 1..Len(line) : line[i] = b
      BY <2>2 DEF InLine
    <3>2. line'[1] = line[1]
      BY <1>0, <2>1, <3>1
    <3>3. QED  BY <3>1, <3>2
  <2>7. InLine'
    BY <2>4, <2>5, <2>6 DEF InLine
  <2>8. (Reads' <=> Reads) /\ (Reads => Head(line') = Head(line))
    <3>1. line' # <<>> /\ Head(line') = line'[1]
      BY <1>0, <2>1
    <3>2. CASE line = <<>>
      <4>1. Head(line') = c
        BY <2>1, <3>1, <3>2
      <4>2. QED  BY <2>2, <3>1, <3>2, <4>1 DEF Reads
    <3>3. CASE line # <<>>
      <4>1. Head(line) = line[1] /\ Len(line) # 0 /\ 1 \in 1..Len(line) /\ line[1] \in Caller
        BY <3>3
      <4>2. line'[1] = line[1] /\ line[1] # c
        BY <1>0, <2>1, <2>2, <4>1
      <4>3. QED  BY <2>2, <3>1, <3>3, <4>1, <4>2 DEF Reads
    <3>4. QED  BY <3>2, <3>3
  <2>9. Owned'
    <3>1. ASSUME slips = 0, ~Reads PROVE Len(turns) = 0 /\ Len(events) = 0
      BY <1>0, <3>1 DEF Counted
    <3>2. slips = 0 => AnswerIsOwn'
      BY <2>3 DEF Owned, AnswerIsOwn
    <3>3. QED  BY <2>3, <2>8, <3>1, <3>2 DEF Owned
  <2>10. QED  BY <2>1, <2>2, <2>3, <2>7, <2>8, <2>9 DEF Counted
<1>2. ASSUME NEW c \in Caller, Submit(c) PROVE AskInv'
  <2>1. /\ turns' \in Seq(Caller \cup {Nobody}) /\ Len(turns') = Len(turns) + 1
        /\ \A k \in 1..(Len(turns) + 1) : turns'[k] = IF k <= Len(turns) THEN turns[k] ELSE c
    BY <1>2, AppendFacts DEF Submit
  <2>2. /\ ask' \in [Caller -> {"idle", "waiting", "reading"}] /\ ask'[c] = "reading"
        /\ \A b \in Caller \ {c} : ask'[b] = ask[b]
        /\ ask[c] = "waiting" /\ line # <<>> /\ Head(line) = c
        /\ UNCHANGED <<line, events, got, warned, slips>>
    BY <1>2 DEF Submit, Holds
  <2>3. Head(line) = line[1]
    BY <2>2
  <2>4. InLine'
    BY <2>2, <2>3 DEF InLine
  <2>5. Reads' /\ ~Reads
    BY <2>2 DEF Reads
  <2>6. Counted'
    BY <1>0, <2>1, <2>2, <2>5 DEF Counted
  <2>7. Owned'
    <3> SUFFICES ASSUME slips = 0 PROVE Owned'
      BY <2>2 DEF Owned
    <3>1. Len(turns) = 0 /\ Len(events) = 0
      BY <1>0, <2>5 DEF Counted
    <3>2. QED  BY <2>1, <2>2, <3>1 DEF Owned, AnswerIsOwn
  <2>8. QED  BY <2>1, <2>2, <2>4, <2>6, <2>7
<1>3. ASSUME NEW c \in Caller, Read(c) PROVE AskInv'
  <2>1. Head(events).of \in Caller \cup {Nobody}
    <3>1. events # <<>>
      BY <1>3 DEF Read
    <3> HIDE DEF Event
    <3>2. Head(events) \in Event
      BY <1>0, <3>1
    <3>3. QED  BY <3>2 DEF Event
  <2>2. Tail(events) \in Seq(Event)
    <3>1. events # <<>>
      BY <1>3 DEF Read
    <3> HIDE DEF Event
    <3>2. QED  BY <1>0, <3>1
  <2>3. got' \in [Caller -> Caller \cup {Nobody, None}]
    BY <1>3, <2>1 DEF Read
  <2>4. QED  BY <1>3, <2>2, <2>3, LeavingKeeps DEF Read
<1>4. ASSUME NEW c \in Caller, TimeOut(c) PROVE AskInv'
  <2>1. /\ ask[c] = "reading" /\ ask[c] # "idle" /\ Leaves(c, events) /\ warned' = warned /\ got' = got
        /\ slips' = slips + 1 /\ slips' \in 0..MaxSlips
    BY <1>4 DEF TimeOut
  <2>2. QED  BY <1>0, <2>1, LeavingKeeps
<1>5. ASSUME NEW c \in Caller, Cancel(c) PROVE AskInv'
  <2>1. /\ ask[c] # "idle" /\ Leaves(c, events) /\ warned' = warned /\ got' = got
        /\ \/ ask[c] = "waiting" /\ slips' = slips
           \/ ask[c] = "reading" /\ slips' = slips + 1
        /\ slips' \in 0..MaxSlips
    BY <1>5 DEF Cancel
  <2>2. QED  BY <1>0, <2>1, LeavingKeeps
<1>6. ASSUME NEW kind \in {"answer", "error", "warning"}, turns # <<>>,
             events' = Append(events, [of |-> Head(turns), kind |-> kind])
      PROVE  /\ events' \in Seq(Event) /\ Len(events') = Len(events) + 1
             /\ slips = 0 => \A i \in 1..Len(events') : events'[i].of = Head(line)
  <2>1. Head(turns) = turns[1] /\ Head(turns) \in Caller \cup {Nobody} /\ Len(turns) # 0
    BY <1>6
  <2> DEFINE new == [of |-> Head(turns), kind |-> kind]
  <2>2. new \in Event /\ new.of = turns[1]
    BY <1>6, <2>1
  <2> HIDE DEF Event, new
  <2>3. /\ events' \in Seq(Event) /\ Len(events') = Len(events) + 1
        /\ \A k \in 1..(Len(events) + 1) : events'[k] = IF k <= Len(events) THEN events[k] ELSE new
    <3>1. events' = Append(events, new)
      BY <1>6 DEF new
    <3>2. QED  BY <1>0, <2>2, <3>1, AppendFacts
  <2>4. slips = 0 => turns[1] = Head(line)
    BY <1>0, <2>1 DEF Owned
  <2>5. QED  BY <1>0, <2>2, <2>3, <2>4 DEF Owned
<1>7. ASSUME NEW kind \in {"answer", "error"}, TurnEnds(kind) PROVE AskInv'
  <2>1. /\ events' \in Seq(Event) /\ Len(events') = Len(events) + 1
        /\ slips = 0 => \A i \in 1..Len(events') : events'[i].of = Head(line)
    BY <1>6, <1>7 DEF TurnEnds
  <2>2. /\ turns' \in Seq(Caller \cup {Nobody}) /\ Len(turns') = Len(turns) - 1
        /\ \A k \in 1..(Len(turns) - 1) : turns'[k] = turns[k + 1]
    BY <1>7, TailFacts DEF TurnEnds
  <2>3. UNCHANGED <<ask, line, got, slips>> /\ warned' = FALSE
    BY <1>7 DEF TurnEnds
  <2>4. InLine' /\ (Reads' <=> Reads)
    BY <2>3 DEF InLine, Reads
  <2>5. Counted'
    <3>1. Len(turns') + Len(events') = Len(turns) + Len(events)
      BY <1>0, <2>1, <2>2
    <3>2. QED  BY <2>3, <2>4, <3>1 DEF Counted
  <2>6. slips = 0 => \A k \in 1..Len(turns') : turns'[k] = Head(line)
    <3>1. \A k \in 1..Len(turns') : k + 1 \in 1..Len(turns)
      BY <1>0, <2>2
    <3>2. QED  BY <2>2, <3>1 DEF Owned
  <2>7. Owned'
    BY <2>1, <2>3, <2>6 DEF Owned, AnswerIsOwn
  <2>8. QED  BY <2>1, <2>2, <2>3, <2>4, <2>5, <2>7
<1>8. CASE Warn
  <2>1. events' \in Seq(Event) /\ Len(events') = Len(events) + 1
    BY <1>6, <1>8 DEF Warn
  <2>2. UNCHANGED <<ask, line, turns, got>> /\ warned' = TRUE /\ slips' = slips + 1 /\ slips < MaxSlips
    BY <1>8 DEF Warn
  <2>3. InLine' /\ (Reads' <=> Reads)
    BY <2>2 DEF InLine, Reads
  <2>4. Counted' /\ Owned'
    BY <1>0, <2>1, <2>2, <2>3 DEF Counted, Owned
  <2>5. QED  BY <2>1, <2>2, <2>3, <2>4
<1>9. CASE AsksRestart
  <2>1. AsksTypeOK'
    BY <1>9, FreshTypes DEF AsksRestart
  <2>2. InLine' /\ Counted' /\ Owned'
    BY <1>9 DEF AsksRestart, InLine, Counted, Owned, Reads, AnswerIsOwn
  <2>3. QED  BY <2>1, <2>2
<1>10. QED
  BY <1>1, <1>2, <1>3, <1>4, <1>5, <1>7, <1>8, <1>9 DEF AskStep

\* The callers' invariant holds of the whole gateway.
LEMMA AskInvHolds == Spec => []AskInv
<1>1. Init => AskInv
  <2> SUFFICES ASSUME AsksInit PROVE AskInv
    BY DEF Init
  <2>1. AsksTypeOK
    BY FreshTypes DEF AsksInit, AsksTypeOK
  <2>2. InLine /\ Counted /\ Owned
    BY DEF AsksInit, InLine, Counted, Owned, Reads, AnswerIsOwn
  <2>3. QED  BY <2>1, <2>2 DEF AskInv
<1>2. AskInv /\ UNCHANGED askVars => AskInv'
  BY DEF askVars, AskInv, AsksTypeOK, InLine, Counted, Owned, Reads, AnswerIsOwn
<1>3. IInv /\ AskInv /\ [Next]_gatewayAllVars => AskInv'
  BY <1>2, NextIsAskStep, StepAsks
<1>4. QED  BY <1>1, <1>3, IInvHolds, PTL DEF Spec

\* Every caller of ask() gets the answer to its own message as long as no ask
\* has been given up before its turn ended and no warning was taken for one.
THEOREM AnswerIsOwnHolds == Spec => []AnswerIsOwn
<1>1. AskInv => AnswerIsOwn
  BY DEF AskInv, Owned, AnswerIsOwn, AsksTypeOK
<1>2. QED  BY AskInvHolds, <1>1, PTL

-----------------------------------------------------------------------------
(***************************************************************************)
(* What the gateway is built from, and what the runs check of it at once.  *)
(***************************************************************************)

Book ==
    /\ wanted \subseteq made /\ made \subseteq Job /\ mishaps \subseteq {"overlap", "torn"}
    /\ edits \in 0..MaxEdits /\ crashes \in 0..MaxCrashes

\* The counters and the history stay within their bounds.
LEMMA StepBook == IInv /\ Book /\ CronStep => Book'
<1> SUFFICES ASSUME IInv, Book, CronStep PROVE Book'
  OBVIOUS
<1> USE JobAssumption DEF Book
<1>1. CASE \/ Start \/ Wake \/ Finish \/ SaveAndArm \/ \E j \in Job : Elapse(j) \/ Begin(j)
  BY <1>1 DEF Start, Wake, Finish, SaveAndArm, Elapse, Begin
<1>2. CASE Crash
  <2>1. crashes' \in 0..MaxCrashes
    BY <1>2 DEF Crash
  <2>2. mishaps' \in {mishaps, mishaps \cup {"torn"}} /\ UNCHANGED <<wanted, made, edits>>
    BY <1>2 DEF Crash
  <2>3. mishaps' \subseteq {"overlap", "torn"}
    BY <2>2
  <2>4. QED  BY <2>1, <2>2, <2>3
<1>3. ASSUME Edit PROVE mishaps' \subseteq {"overlap", "torn"} /\ edits' \in 0..MaxEdits /\ crashes' = crashes
  BY <1>3 DEF Edit
<1>4. CASE UserStep
  <2>1. ASSUME NEW j \in Job, Create(j) \/ RemoveJob(j) \/ MarkRun(j) PROVE Book'
    BY <1>3, <2>1 DEF Create, RemoveJob, MarkRun
  <2>2. ASSUME NEW j \in Job, NEW enabled \in BOOLEAN, Toggle(j, enabled) PROVE Book'
    BY <1>3, <2>2 DEF Toggle
  <2>3. ASSUME NEW j \in Job, RunBegins(j) PROVE Book'
    BY <2>3 DEF RunBegins
  <2>4. CASE RunEnds \/ RunDies
    BY <2>4 DEF RunEnds, RunDies
  <2>5. QED  BY <1>4, <2>1, <2>2, <2>3, <2>4 DEF UserStep
<1>5. QED  BY <1>1, <1>2, <1>4 DEF CronStep

\* And so they do in every behaviour.
LEMMA BookHolds == Spec => []Book
<1>1. Init => Book
  BY JobAssumption DEF Init, CronInit, Book
<1>2. Book /\ UNCHANGED cronVars => Book'
  BY DEF Book, cronVars
<1>3. IInv /\ Book /\ [Next]_gatewayAllVars => Book'
  BY <1>2, NextIsCronStep, StepBook
<1>4. QED  BY <1>1, <1>3, IInvHolds, PTL DEF Spec

\* The answers left over are as many as the asks given up, only wanted jobs
\* run, and between two batches the file is what the gateway believes:
\* whatever crashes, is edited or is given up.
THEOREM GatewayConsistent == Spec => []Consistent
<1>1. IInv /\ Book => CronTypeOK
  <2> SUFFICES ASSUME IInv, Book PROVE CronTypeOK
    OBVIOUS
  <2>1. {file, memory, copy} \subseteq Store
    BY DEF IInv, Shape, WellFormed
  <2>2. \A store \in Store : store.jobs \subseteq Job
    BY DEF Store
  <2>3. batch \subseteq Job /\ current \in Job \cup {NoJob} /\ cli \in Job \cup {NoJob}
    BY <2>1, <2>2 DEF IInv, Shape
  <2>4. begun \in [OneShot -> 0..2]
    <3>1. begun \in [OneShot -> Nat] /\ \A j \in OneShot : begun[j] \in 0..2
      BY DEF IInv, Shape, OnceInv, Spent
    <3>2. QED  BY <3>1
  <2>5. QED  BY <2>1, <2>3, <2>4 DEF IInv, Shape, Book, CronTypeOK
<1>2. IInv => RunsWanted /\ SavedIsTrue
  BY DEF IInv, Shape, KeptInv, RunsWanted, SavedIsTrue
<1>3. AskInv => AsksTypeOK /\ NeverCatchesUp
  <2> SUFFICES ASSUME AskInv PROVE AsksTypeOK /\ NeverCatchesUp
    OBVIOUS
  <2> DEFINE readers == {c \in Caller : ask[c] = "reading"}
  <2> USE DEF AskInv, AsksTypeOK
  <2>1. CASE Reads
    <3>1. Head(line) = line[1] /\ line[1] \in Caller /\ ask[line[1]] = "reading"
      BY <2>1 DEF Reads
    <3>2. readers = {line[1]}
      BY <3>1 DEF InLine
    <3>3. Cardinality(readers) = 1
      BY <3>2, FS_Singleton
    <3>4. QED  BY <2>1, <3>3 DEF Counted, NeverCatchesUp
  <2>2. CASE ~Reads
    <3>1. ASSUME NEW c \in Caller, ask[c] = "reading" PROVE Reads
      <4>1. line[1] = c /\ \E i \in 1..Len(line) : line[i] = c
        BY <3>1 DEF InLine
      <4>2. line # <<>> /\ Head(line) = c
        BY <4>1
      <4>3. QED  BY <3>1, <4>2 DEF Reads
    <3>2. readers = {}
      BY <2>2, <3>1
    <3>3. Cardinality(readers) = 0
      BY <3>2, FS_EmptySet
    <3>4. QED  BY <2>2, <3>3 DEF Counted, NeverCatchesUp
  <2>3. QED  BY <2>1, <2>2
<1>4. QED
  BY <1>1, <1>2, <1>3, IInvHolds, BookHolds, AskInvHolds, PTL DEF Consistent, TypeOK
=============================================================================
