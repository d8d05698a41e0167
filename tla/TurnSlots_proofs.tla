--------------------------- MODULE TurnSlots_proofs ---------------------------
(***************************************************************************)
(* Theorems about the slots of a session's threads, for any number of      *)
(* messages, commands, threads and interrupts.                             *)
(***************************************************************************)
EXTENDS TurnSlots, FiniteSetTheorems, SequenceTheorems, TLAPS

(***************************************************************************)
(* What holds in whatever circumstances.                                   *)
(***************************************************************************)

IsRun(k) == line[k].does = "run"

\* A submission is queued once, in the line or behind the active turn, and
\* has no task before it is taken from there.
QueuedOnce ==
    /\ \A j \in DOMAIN line : IsRun(j) =>
        task[line[j].req] = None /\ phase[line[j].req] \in {"accepted", "beside"}
    /\ \A i \in DOMAIN pending : task[pending[i]] = None /\ phase[pending[i]] \in {"accepted", "beside"}
    /\ \A j, k \in DOMAIN line : IsRun(j) /\ IsRun(k) /\ line[j].req = line[k].req => j = k
    /\ \A i, k \in DOMAIN pending : pending[i] = pending[k] => i = k
    /\ \A j \in DOMAIN line, i \in DOMAIN pending : IsRun(j) => line[j].req # pending[i]
    /\ \A r \in Req : phase[r] \in {"new", "checking"} => task[r] = None
    /\ active # None => task[active] # None
    /\ \A r \in aux : task[r] # None

\* TaskRunner names a turn only while it runs; a reservation is of a request
\* of the thread, and of a command only when that drains.
Named ==
    \A t \in Thread :
        /\ runner[t] # None =>
            /\ task[runner[t]] \in {"running", "cancelling"}
            /\ phase[runner[t]] = "accepted" /\ thread[runner[t]] = t
        /\ reserved[t] # None =>
            /\ thread[reserved[t]] = t
            /\ reserved[t] \in Command => drain[reserved[t]] = "reading"

(***************************************************************************)
(* What holds of one thread, without failures and time-outs: the slot says *)
(* whose turn it is.                                                       *)
(***************************************************************************)

\* The slot is held from the reservation until the drain has read the end
\* of the turn, which comes when the turn is over.
SlotHeld ==
    \A r \in Req :
        /\ Unfinished(r) => drain[r] = "reading"
        /\ drain[r] = "reading" => reserved[thread[r]] = r /\ phase[r] = "accepted"
        /\ r \in Message /\ phase[r] = "checking" => reserved[thread[r]] = r
        /\ drain[r] = "ended" => verdict[r].of = r

EndIsRead ==
    /\ Len(events) <= 1
    /\ \A i \in DOMAIN events :
        drain[events[i].of] = "reading" /\ task[events[i].of] = "done"

\* An unfinished turn that an interrupt does not name is behind it in line.
Behind(k, q) == \E j \in DOMAIN line : j > k /\ line[j] = Run(q)
InterruptAhead ==
    \A k \in DOMAIN line, q \in Req :
        ~IsRun(k) /\ Unfinished(q) /\ q # line[k].req => Behind(k, q)

Plain ==
    /\ \A r, q \in Req : thread[r] = thread[q]
    /\ SlotHeld /\ EndIsRead /\ InterruptAhead /\ \A h \in hits : h[1] = h[2]

IInv ==
    /\ TypeOK /\ SlotHasOwner /\ QueuedOnce /\ Named
    /\ circumstances = {} => Plain

USE DEF Req, Unfinished, Owns

-----------------------------------------------------------------------------
(* The queues                                                              *)

\* What Append does to each position of a queue.
LEMMA AppendFacts ==
    ASSUME NEW S, NEW s \in Seq(S), NEW e \in S
    PROVE  /\ Append(s, e) \in Seq(S) /\ Len(s) \in Nat /\ DOMAIN s = 1..Len(s)
           /\ Len(Append(s, e)) = Len(s) + 1 /\ DOMAIN Append(s, e) = 1..Len(s) + 1
           /\ \A i \in 1..Len(s) : Append(s, e)[i] = s[i]
           /\ Append(s, e)[Len(s) + 1] = e
OBVIOUS

\* What taking the head does to each position of a queue.
LEMMA TailFacts ==
    ASSUME NEW S, NEW s \in Seq(S), s # <<>>
    PROVE  /\ Tail(s) \in Seq(S) /\ Len(s) \in Nat \ {0} /\ DOMAIN s = 1..Len(s)
           /\ Len(Tail(s)) = Len(s) - 1 /\ DOMAIN Tail(s) = 1..Len(s) - 1
           /\ \A i \in 1..Len(s) - 1 : Tail(s)[i] = s[i + 1]
           /\ Head(s) = s[1] /\ Head(s) \in S
BY EmptySeq, HeadTailProperties

\* An entry of the session's queue.
Submission == [does : {"run", "abort"}, req : Req]

\* What the provers need to know of the queues' entries.
LEMMA Entries ==
    ASSUME TypeOK
    PROVE  /\ line \in Seq(Submission) /\ pending \in Seq(Message) /\ events \in Seq(Terminal)
           /\ \A r \in Req : /\ Run(r) \in Submission /\ Run(r).does = "run" /\ Run(r).req = r
                             /\ Abort(r) \in Submission /\ Abort(r).does = "abort" /\ Abort(r).req = r
           /\ \A s \in Submission : s.does \in {"run", "abort"} /\ s.req \in Req
           /\ \A s \in Submission : s.does = "run" => s = Run(s.req)
           /\ \A e \in Terminal : e.of \in Req
BY DEF TypeOK, Submission, Run, Abort, Terminal

\* Each queue, position by position.
LEMMA Positions ==
    ASSUME TypeOK
    PROVE  /\ Len(line) \in Nat /\ DOMAIN line = 1..Len(line)
           /\ Len(pending) \in Nat /\ DOMAIN pending = 1..Len(pending)
           /\ Len(events) \in Nat /\ DOMAIN events = 1..Len(events)
           /\ \A i \in DOMAIN line : line[i] \in Submission
           /\ \A i \in DOMAIN pending : pending[i] \in Message
           /\ \A i \in DOMAIN events : events[i] \in Terminal
BY Entries

-----------------------------------------------------------------------------
(* What a step leaves as it is                                             *)

\* A step that moves nothing in the queues and gives nothing queued a task.
LEMMA QueueFrame ==
    ASSUME TypeOK, QueuedOnce, line' = line, pending' = pending,
           \A r \in Req : task'[r] = None <=> task[r] = None,
           \A r \in Req : phase[r] \in {"accepted", "beside"} => phase'[r] = phase[r],
           \A r \in Req : phase'[r] \in {"new", "checking"} => phase[r] \in {"new", "checking"},
           active' \in {active, None}, aux' \subseteq aux
    PROVE  QueuedOnce'
<1>1. /\ \A j \in DOMAIN line : line[j].req \in Req
      /\ \A i \in DOMAIN pending : pending[i] \in Req
      /\ active # None => active \in Req
      /\ aux \subseteq Req
  BY Positions DEF TypeOK, Submission
<1>2. QED  BY <1>1 DEF QueuedOnce, IsRun

\* The turns that run, the reservations and their drains stay.
LEMMA NamedFrame ==
    ASSUME TypeOK, Named, UNCHANGED <<thread, reserved, runner>>,
           \A r \in Req : task[r] \in {"running", "cancelling"} =>
                            task'[r] \in {"running", "cancelling"},
           \A r \in Req : phase[r] = "accepted" => phase'[r] = "accepted",
           \A r \in Req : drain[r] = "reading" => drain'[r] = "reading"
    PROVE  Named'
<1>1. \A t \in Thread : /\ runner[t] # None => runner[t] \in Req
                        /\ reserved[t] # None => reserved[t] \in Req
  BY DEF TypeOK
<1>2. QED  BY <1>1 DEF Named

\* No drain, slot or verdict changes, and no turn becomes unfinished.
LEMMA SlotFrame ==
    ASSUME SlotHeld, UNCHANGED <<thread, reserved, drain, verdict>>,
           \A r \in Req : Unfinished(r)' => Unfinished(r),
           \A r \in Req : phase[r] = "accepted" => phase'[r] = "accepted",
           \A r \in Message : phase'[r] = "checking" => phase[r] = "checking"
    PROVE  SlotHeld'
BY DEF SlotHeld

\* No event comes, and the turn of the one that waits stays over.
LEMMA EndFrame ==
    ASSUME TypeOK, EndIsRead, events' = events,
           \A r \in Req : drain[r] = "reading" => drain'[r] = "reading",
           \A r \in Req : task[r] = "done" => task'[r] = "done"
    PROVE  EndIsRead'
<1>1. \A i \in DOMAIN events : events[i].of \in Req
  BY Positions DEF Terminal
<1>2. QED  BY <1>1 DEF EndIsRead

\* The line stays, and no turn becomes unfinished.
LEMMA AheadFrame ==
    ASSUME InterruptAhead, line' = line, \A q \in Req : Unfinished(q)' => Unfinished(q)
    PROVE  InterruptAhead'
BY DEF InterruptAhead, Behind, IsRun

\* The head of the line is taken.
LEMMA AheadTail ==
    ASSUME TypeOK, InterruptAhead, line # <<>>, line' = Tail(line),
           \A q \in Req : Unfinished(q)' => Unfinished(q)
    PROVE  InterruptAhead'
<1>1. /\ Len(line) \in Nat \ {0} /\ DOMAIN line = 1..Len(line) /\ DOMAIN line' = 1..Len(line) - 1
      /\ \A i \in 1..Len(line) - 1 : line'[i] = line[i + 1]
  BY TailFacts, Entries
<1>2. SUFFICES ASSUME NEW k \in DOMAIN line', NEW q \in Req, ~IsRun(k)', Unfinished(q)',
                      q # line'[k].req
               PROVE  \E j \in DOMAIN line' : j > k /\ line'[j] = Run(q)
  BY DEF InterruptAhead, Behind
<1>3. k \in Nat /\ k + 1 \in DOMAIN line /\ line'[k] = line[k + 1]
  BY <1>1
<1>4. PICK j \in DOMAIN line : j > k + 1 /\ line[j] = Run(q)
  BY <1>2, <1>3 DEF InterruptAhead, Behind, IsRun
<1>5. j - 1 \in DOMAIN line' /\ j - 1 > k /\ line'[j - 1] = line[j]
  BY <1>1, <1>3, <1>4
<1>6. QED  BY <1>4, <1>5

\* The turn of a request joins the line.
LEMMA AheadRun ==
    ASSUME TypeOK, InterruptAhead, NEW r \in Req, line' = Append(line, Run(r)),
           \A q \in Req : Unfinished(q)' => Unfinished(q) \/ q = r
    PROVE  InterruptAhead'
<1>1. /\ Len(line) \in Nat /\ DOMAIN line = 1..Len(line) /\ DOMAIN line' = 1..Len(line) + 1
      /\ \A i \in 1..Len(line) : line'[i] = line[i]
      /\ line'[Len(line) + 1] = Run(r)
  BY AppendFacts, Entries
<1>2. SUFFICES ASSUME NEW k \in DOMAIN line', NEW q \in Req, ~IsRun(k)', Unfinished(q)',
                      q # line'[k].req
               PROVE  \E j \in DOMAIN line' : j > k /\ line'[j] = Run(q)
  BY DEF InterruptAhead, Behind
<1>3. k \in DOMAIN line /\ line'[k] = line[k] /\ k < Len(line) + 1
  BY <1>1, <1>2, Entries DEF IsRun
<1>4. CASE q = r
  BY <1>1, <1>3, <1>4
<1>5. CASE q # r
  <2>1. PICK j \in DOMAIN line : j > k /\ line[j] = Run(q)
    BY <1>2, <1>3, <1>5 DEF InterruptAhead, Behind, IsRun
  <2>2. QED  BY <1>1, <2>1
<1>6. QED  BY <1>4, <1>5

\* An interrupt of the only unfinished turn joins the line.
LEMMA AheadAbort ==
    ASSUME TypeOK, InterruptAhead, NEW r \in Req, line' = Append(line, Abort(r)),
           \A q \in Req : Unfinished(q)' => Unfinished(q) /\ q = r
    PROVE  InterruptAhead'
<1>1. /\ Len(line) \in Nat /\ DOMAIN line = 1..Len(line) /\ DOMAIN line' = 1..Len(line) + 1
      /\ \A i \in 1..Len(line) : line'[i] = line[i]
      /\ line'[Len(line) + 1] = Abort(r)
  BY AppendFacts, Entries
<1>2. SUFFICES ASSUME NEW k \in DOMAIN line', NEW q \in Req, ~IsRun(k)', Unfinished(q)',
                      q # line'[k].req
               PROVE  \E j \in DOMAIN line' : j > k /\ line'[j] = Run(q)
  BY DEF InterruptAhead, Behind
<1>3. k \in DOMAIN line /\ line'[k] = line[k]
  BY <1>1, <1>2, Entries
<1>4. PICK j \in DOMAIN line : j > k /\ line[j] = Run(q)
  BY <1>2, <1>3 DEF InterruptAhead, Behind, IsRun
<1>5. QED  BY <1>1, <1>4

-----------------------------------------------------------------------------
(* The queues move                                                         *)

\* A request that was not queued joins the line.
LEMMA QueueRun ==
    ASSUME TypeOK, QueuedOnce, NEW r \in Req, NEW to \in {"accepted", "beside"},
           phase[r] \in {"new", "checking"}, phase' = [phase EXCEPT ![r] = to],
           line' = Append(line, Run(r)), UNCHANGED <<pending, task, active, aux>>
    PROVE  QueuedOnce'
<1>1. /\ Len(line) \in Nat /\ DOMAIN line = 1..Len(line) /\ DOMAIN line' = 1..Len(line) + 1
      /\ \A i \in 1..Len(line) : line'[i] = line[i]
      /\ line'[Len(line) + 1] = Run(r) /\ Run(r).req = r
  BY AppendFacts, Entries
<1>2. phase \in [Req -> {"new", "checking", "accepted", "beside", "refused", "failed"}]
  BY DEF TypeOK
<1>3. /\ \A j \in DOMAIN line : line[j].req \in Req
      /\ \A i \in DOMAIN pending : pending[i] \in Req
  BY Positions DEF Submission
<1>4. \A j \in DOMAIN line : line[j].does = "run" => line[j].req # r
  BY DEF QueuedOnce, IsRun
<1>5. \A i \in DOMAIN pending : pending[i] # r
  BY DEF QueuedOnce
<1>6. QED  BY <1>1, <1>2, <1>3, <1>4, <1>5 DEF QueuedOnce, IsRun

\* An abort joins the line.
LEMMA QueueAbort ==
    ASSUME TypeOK, QueuedOnce, NEW r \in Req, line' = Append(line, Abort(r)),
           UNCHANGED <<pending, phase, task, active, aux>>
    PROVE  QueuedOnce'
<1>1. /\ Len(line) \in Nat /\ DOMAIN line = 1..Len(line) /\ DOMAIN line' = 1..Len(line) + 1
      /\ \A i \in 1..Len(line) : line'[i] = line[i]
      /\ line'[Len(line) + 1].does = "abort"
  BY AppendFacts, Entries
<1>2. QED  BY <1>1 DEF QueuedOnce, IsRun

\* An abort leaves the line.
LEMMA QueueTail ==
    ASSUME TypeOK, QueuedOnce, line # <<>>, line' = Tail(line),
           UNCHANGED <<pending, phase, active, aux>>,
           \A r \in Req : task'[r] = None <=> task[r] = None
    PROVE  QueuedOnce'
<1>1. /\ Len(line) \in Nat \ {0} /\ DOMAIN line = 1..Len(line) /\ DOMAIN line' = 1..Len(line) - 1
      /\ \A i \in 1..Len(line) - 1 : line'[i] = line[i + 1]
  BY TailFacts, Entries
<1>2. \A i \in DOMAIN line' : i \in Nat /\ i + 1 \in DOMAIN line
  BY <1>1
<1>3. /\ \A j \in DOMAIN line : line[j].req \in Req
      /\ \A i \in DOMAIN pending : pending[i] \in Req
      /\ active # None => active \in Req
      /\ aux \subseteq Req
  BY Positions DEF TypeOK, Submission
<1>4. QED  BY <1>1, <1>2, <1>3 DEF QueuedOnce, IsRun

\* The head of the line gets its task.
LEMMA QueueTake ==
    ASSUME TypeOK, QueuedOnce, NEW r \in Req, line # <<>>, Head(line).does = "run",
           r = Head(line).req, line' = Tail(line), task' = [task EXCEPT ![r] = "ready"],
           UNCHANGED <<pending, phase>>, active' \in {active, r}, aux' \subseteq aux \cup {r}
    PROVE  QueuedOnce'
<1>1. /\ Len(line) \in Nat \ {0} /\ DOMAIN line = 1..Len(line) /\ DOMAIN line' = 1..Len(line) - 1
      /\ \A i \in 1..Len(line) - 1 : line'[i] = line[i + 1]
      /\ Head(line) = line[1]
  BY TailFacts, Entries
<1>2. \A i \in DOMAIN line' : i \in Nat /\ i + 1 \in DOMAIN line /\ i + 1 # 1 /\ 1 \in DOMAIN line
  BY <1>1
<1>3. /\ \A j \in DOMAIN line : line[j].req \in Req
      /\ \A i \in DOMAIN pending : pending[i] \in Req
      /\ active # None => active \in Req
      /\ aux \subseteq Req
  BY Positions DEF TypeOK, Submission
<1>4. task \in [Req -> {None, "ready", "running", "cancelling", "done"}]
  BY DEF TypeOK
<1>5. \A i \in DOMAIN line' : line'[i].does = "run" => line'[i].req # r
  BY <1>1, <1>2 DEF QueuedOnce, IsRun
<1>6. \A i \in DOMAIN pending : pending[i] # r
  BY <1>1 DEF QueuedOnce, IsRun
<1>7. phase[r] \in {"accepted", "beside"}
  BY <1>1 DEF QueuedOnce, IsRun
<1>8. QED  BY <1>1, <1>2, <1>3, <1>4, <1>5, <1>6, <1>7 DEF QueuedOnce, IsRun, None

\* What waited longest gets its task.
LEMMA QueueNext ==
    ASSUME TypeOK, QueuedOnce, NEW r \in Req, pending # <<>>, r = Head(pending),
           pending' = Tail(pending), task' = [task EXCEPT ![r] = "ready"],
           UNCHANGED <<line, phase, aux>>, active' = r
    PROVE  QueuedOnce'
<1>1. /\ Len(pending) \in Nat \ {0} /\ DOMAIN pending = 1..Len(pending)
      /\ DOMAIN pending' = 1..Len(pending) - 1
      /\ \A i \in 1..Len(pending) - 1 : pending'[i] = pending[i + 1]
      /\ Head(pending) = pending[1]
  BY TailFacts, Entries
<1>2. \A i \in DOMAIN pending' : /\ i \in Nat /\ i + 1 \in DOMAIN pending
                                 /\ i + 1 # 1 /\ 1 \in DOMAIN pending
  BY <1>1
<1>3. /\ \A j \in DOMAIN line : line[j].req \in Req
      /\ \A i \in DOMAIN pending : pending[i] \in Req
      /\ aux \subseteq Req
  BY Positions DEF TypeOK, Submission
<1>4. task \in [Req -> {None, "ready", "running", "cancelling", "done"}]
  BY DEF TypeOK
<1>5. \A i \in DOMAIN pending' : pending'[i] # r
  BY <1>1, <1>2 DEF QueuedOnce
<1>6. \A j \in DOMAIN line : line[j].does = "run" => line[j].req # r
  BY <1>1 DEF QueuedOnce, IsRun
<1>7. phase[r] \in {"accepted", "beside"}
  BY <1>1 DEF QueuedOnce
<1>8. QED  BY <1>1, <1>2, <1>3, <1>4, <1>5, <1>6, <1>7 DEF QueuedOnce, IsRun, None

\* A message goes from the line to those that wait for the turn.
LEMMA QueueWait ==
    ASSUME TypeOK, QueuedOnce, NEW r \in Message, line # <<>>, Head(line).does = "run",
           r = Head(line).req, line' = Tail(line), pending' = Append(pending, r),
           UNCHANGED <<task, phase, active, aux>>
    PROVE  QueuedOnce'
<1>1. /\ Len(line) \in Nat \ {0} /\ DOMAIN line = 1..Len(line) /\ DOMAIN line' = 1..Len(line) - 1
      /\ \A i \in 1..Len(line) - 1 : line'[i] = line[i + 1]
      /\ Head(line) = line[1]
  BY TailFacts, Entries
<1>2. \A i \in DOMAIN line' : i \in Nat /\ i + 1 \in DOMAIN line /\ i + 1 # 1 /\ 1 \in DOMAIN line
  BY <1>1
<1>3. /\ Len(pending) \in Nat /\ DOMAIN pending = 1..Len(pending)
      /\ DOMAIN pending' = 1..Len(pending) + 1
      /\ \A i \in 1..Len(pending) : pending'[i] = pending[i]
      /\ pending'[Len(pending) + 1] = r
  BY AppendFacts, Entries
<1>4. \A i \in DOMAIN line' : line'[i].does = "run" => line'[i].req # r
  BY <1>1, <1>2 DEF QueuedOnce, IsRun
<1>5. \A i \in DOMAIN pending : pending[i] # r
  BY <1>1 DEF QueuedOnce, IsRun
<1>6. phase[r] \in {"accepted", "beside"} /\ task[r] = None
  BY <1>1 DEF QueuedOnce, IsRun
<1>7. /\ \A j \in DOMAIN line' : line'[j].does = "run" =>
            task[line'[j].req] = None /\ phase[line'[j].req] \in {"accepted", "beside"}
      /\ \A j, k \in DOMAIN line' : line'[j].does = "run" /\ line'[k].does = "run"
                                      /\ line'[j].req = line'[k].req => j = k
  BY <1>1, <1>2 DEF QueuedOnce, IsRun
<1>8. /\ \A i \in DOMAIN pending' :
            task[pending'[i]] = None /\ phase[pending'[i]] \in {"accepted", "beside"}
      /\ \A i, k \in DOMAIN pending' : pending'[i] = pending'[k] => i = k
  BY <1>3, <1>5, <1>6 DEF QueuedOnce
<1>9. \A j \in DOMAIN line', i \in DOMAIN pending' :
          line'[j].does = "run" => line'[j].req # pending'[i]
  BY <1>1, <1>2, <1>3, <1>4 DEF QueuedOnce, IsRun
<1>10. QED  BY <1>7, <1>8, <1>9 DEF QueuedOnce, IsRun

-----------------------------------------------------------------------------
(* The handlers                                                            *)

\* Where the handler of a request may be.
Phases == {"new", "checking", "accepted", "beside", "refused", "failed"}

\* A request that has not been submitted is refused, fails or looks its
\* thread up, and holds no slot that a drain would not give back.
LEMMA UnsubmittedStep ==
    ASSUME IInv, NEW r \in Req, NEW to \in Phases \ {"new", "accepted", "beside"},
           phase[r] \in {"new", "checking"}, phase' = [phase EXCEPT ![r] = to],
           reserved[thread[r]] = r => drain[r] = "reading",
           to = "checking" => r \in Command,
           UNCHANGED <<thread, reserved, drain, verdict, sessionVars, historyVars>>
    PROVE  IInv'
<1> USE DEF sessionVars, historyVars
<1>1. TypeOK'
  BY DEF IInv, TypeOK, Phases
<1>2. \A q \in Req : q # r => phase'[q] = phase[q]
  BY DEF IInv, TypeOK
<1>3. phase'[r] = to /\ to \notin {"new", "accepted", "beside"}
  BY DEF IInv, TypeOK
<1>4. SlotHasOwner'
  <2>1. ASSUME NEW t \in Thread, reserved[t] = r PROVE drain[r] = "reading"
    <3>1. thread[r] = t
      BY <2>1, NoneIsNoRequest DEF IInv, Named
    <3>2. QED  BY <2>1, <3>1
  <2>2. \A t \in Thread : reserved[t] # None => reserved[t] \in Req
    BY DEF IInv, TypeOK
  <2>3. QED  BY <1>2, <2>1, <2>2 DEF IInv, SlotHasOwner
<1>5. QueuedOnce'
  <2>1. task[r] = None
    BY DEF IInv, QueuedOnce
  <2>2. \A q \in Req : phase[q] \in {"accepted", "beside"} => phase'[q] = phase[q]
    BY <1>2
  <2>3. \A q \in Req : phase'[q] \in {"new", "checking"} => phase[q] \in {"new", "checking"}
    BY <1>2
  <2>4. QED  BY <2>2, <2>3, QueueFrame DEF IInv
<1>6. Named'
  BY <1>2, NamedFrame DEF IInv
<1>7. ASSUME circumstances' = {} PROVE Plain'
  <2>1. Plain
    BY <1>7 DEF IInv
  <2>2. \A q \in Req : Unfinished(q)' => Unfinished(q)
    BY <1>2, <1>3
  <2>3. SlotHeld'
    <3>1. \A q \in Message : phase'[q] = "checking" => phase[q] = "checking"
      BY <1>2, <1>3, RequestsDisjoint
    <3>2. \A q \in Req : phase[q] = "accepted" => phase'[q] = "accepted"
      BY <1>2
    <3>3. QED  BY <2>1, <2>2, <3>1, <3>2, SlotFrame DEF Plain
  <2>4. EndIsRead' /\ InterruptAhead'
    BY <2>1, <2>2, EndFrame, AheadFrame DEF Plain, IInv
  <2>5. QED  BY <2>1, <2>3, <2>4 DEF Plain
<1>8. QED  BY <1>1, <1>4, <1>5, <1>6, <1>7 DEF IInv

\* A message reserves its slot, or finds it taken.
LEMMA ReserveStep ==
    ASSUME IInv, NEW r \in Req, Reserve(r)
    PROVE  IInv'
<1> USE DEF sessionVars, historyVars
<1>1. r \in Message /\ phase[r] = "new" /\ UNCHANGED <<thread, drain, verdict, sessionVars, historyVars>>
  BY DEF Reserve
<1>2. reserved[thread[r]] = r => drain[r] = "reading"
  <2>1. thread[r] \in Thread /\ r # None
    BY NoneIsNoRequest DEF IInv, TypeOK
  <2>2. QED  BY <1>1, <2>1 DEF IInv, SlotHasOwner
<1>3. CASE Taken(thread[r])
  <2>1. phase' = [phase EXCEPT ![r] = "refused"] /\ reserved' = reserved
    BY <1>3 DEF Reserve, SetPhase
  <2>2. "refused" \in Phases \ {"new", "accepted", "beside"}
    BY DEF Phases
  <2>3. QED  BY <1>1, <1>2, <2>1, <2>2, UnsubmittedStep
<1>4. CASE ~Taken(thread[r])
  <2>1. phase' = [phase EXCEPT ![r] = "checking"] /\ reserved' = [reserved EXCEPT ![thread[r]] = r]
    BY <1>4 DEF Reserve, SetPhase
  <2>2. TypeOK'
    BY <1>1, <2>1 DEF IInv, TypeOK
  <2>3. /\ \A q \in Req : q # r => phase'[q] = phase[q]
        /\ phase'[r] = "checking" /\ thread[r] \in Thread
        /\ \A t \in Thread : t # thread[r] => reserved'[t] = reserved[t]
        /\ reserved'[thread[r]] = r /\ reserved[thread[r]] = None
    BY <1>4, <2>1 DEF IInv, TypeOK, Taken
  <2>4. /\ \A t \in Thread : reserved[t] # None => reserved[t] \in Req /\ thread[reserved[t]] = t
        /\ \A q \in Req : thread[q] \in Thread
    BY DEF IInv, TypeOK, Named
  <2>5. SlotHasOwner'
    BY <1>1, <2>3, <2>4 DEF IInv, SlotHasOwner
  <2>6. QueuedOnce'
    <3>1. \A q \in Req : phase[q] \in {"accepted", "beside"} => phase'[q] = phase[q]
      BY <1>1, <2>3
    <3>2. \A q \in Req : phase'[q] \in {"new", "checking"} => phase[q] \in {"new", "checking"}
      BY <1>1, <2>3
    <3>3. QED  BY <1>1, <3>1, <3>2, QueueFrame DEF IInv
  <2>7. Named'
    <3>1. \A q \in Req : phase[q] = "accepted" => phase'[q] = "accepted"
      BY <1>1, <2>3
    <3>2. \A t \in Thread : runner[t] # None => runner[t] \in Req
      BY DEF IInv, TypeOK
    <3>3. QED  BY <1>1, <2>3, <3>1, <3>2, RequestsDisjoint DEF IInv, Named
  <2>8. ASSUME circumstances' = {} PROVE Plain'
    <3>1. Plain
      BY <1>1, <2>8 DEF IInv
    <3>2. \A q \in Req : Unfinished(q)' => Unfinished(q)
      BY <1>1, <2>3
    <3>3. \A q \in Req : drain[q] # "reading"
      BY <2>3, <3>1, NoneIsNoRequest DEF Plain, SlotHeld
    <3>4. SlotHeld'
      BY <1>1, <2>3, <3>1, <3>2, <3>3, NoneIsNoRequest DEF Plain, SlotHeld
    <3>5. EndIsRead' /\ InterruptAhead'
      BY <1>1, <3>1, <3>2, EndFrame, AheadFrame DEF Plain, IInv
    <3>6. QED  BY <1>1, <3>1, <3>4, <3>5 DEF Plain
  <2>9. QED  BY <2>2, <2>5, <2>6, <2>7, <2>8 DEF IInv
<1>5. QED  BY <1>3, <1>4

\* A command looks its thread up.
LEMMA LookUpStep ==
    ASSUME IInv, NEW r \in Req, LookUp(r)
    PROVE  IInv'
<1>1. reserved[thread[r]] = r => drain[r] = "reading"
  BY NoneIsNoRequest DEF IInv, TypeOK, SlotHasOwner, LookUp
<1>2. "checking" \in Phases \ {"new", "accepted", "beside"}
  BY DEF Phases
<1>3. QED  BY <1>1, <1>2, UnsubmittedStep DEF LookUp, SetPhase

\* A request fails at the look-up, and a message gives its slot back.
LEMMA StartFailsStep ==
    ASSUME IInv, NEW r \in Req, StartFails(r)
    PROVE  IInv'
<1> USE DEF sessionVars, historyVars
<1>1. /\ phase[r] = "checking" /\ phase' = [phase EXCEPT ![r] = "failed"]
      /\ UNCHANGED <<thread, drain, verdict, sessionVars, historyVars>>
  BY DEF StartFails, SetPhase
<1>2. CASE r \in Command
  <2>1. reserved' = reserved
    BY <1>2, RequestsDisjoint DEF StartFails
  <2>2. reserved[thread[r]] = r => drain[r] = "reading"
    BY <1>2, NoneIsNoRequest DEF IInv, TypeOK, Named
  <2>3. "failed" \in Phases \ {"new", "accepted", "beside"}
    BY DEF Phases
  <2>4. QED  BY <1>1, <2>1, <2>2, <2>3, UnsubmittedStep
<1>3. CASE r \in Message
  <2>1. reserved' = [reserved EXCEPT ![thread[r]] = None]
    BY <1>3 DEF StartFails
  <2>2. TypeOK'
    BY <1>1, <2>1 DEF IInv, TypeOK
  <2>3. /\ \A q \in Req : q # r => phase'[q] = phase[q]
        /\ phase'[r] = "failed" /\ thread[r] \in Thread
        /\ \A t \in Thread : t # thread[r] => reserved'[t] = reserved[t]
        /\ reserved'[thread[r]] = None
    BY <1>1, <2>1 DEF IInv, TypeOK
  <2>4. /\ \A t \in Thread : reserved[t] # None => reserved[t] \in Req /\ thread[reserved[t]] = t
        /\ \A q \in Req : thread[q] \in Thread
    BY DEF IInv, TypeOK, Named
  <2>5. SlotHasOwner'
    BY <1>1, <2>3, <2>4 DEF IInv, SlotHasOwner
  <2>6. QueuedOnce'
    <3>1. \A q \in Req : phase[q] \in {"accepted", "beside"} => phase'[q] = phase[q]
      BY <1>1, <2>3
    <3>2. \A q \in Req : phase'[q] \in {"new", "checking"} => phase[q] \in {"new", "checking"}
      BY <1>1, <2>3
    <3>3. QED  BY <1>1, <3>1, <3>2, QueueFrame DEF IInv
  <2>7. Named'
    <3>1. \A q \in Req : phase[q] = "accepted" => phase'[q] = "accepted"
      BY <1>1, <2>3
    <3>2. \A t \in Thread : runner[t] # None => runner[t] \in Req
      BY DEF IInv, TypeOK
    <3>3. QED  BY <1>1, <2>3, <3>1, <3>2 DEF IInv, Named
  <2>8. ASSUME circumstances' = {} PROVE Plain'
    <3>1. Plain
      BY <1>1, <2>8 DEF IInv
    <3>2. \A q \in Req : Unfinished(q)' => Unfinished(q)
      BY <1>1, <2>3
    <3>3. \A q \in Req : drain[q] # "reading" /\ (q \in Message /\ phase[q] = "checking" => q = r)
      BY <1>1, <1>3, <2>3, <3>1 DEF Plain, SlotHeld
    <3>4. SlotHeld'
      BY <1>1, <2>3, <3>1, <3>2, <3>3 DEF Plain, SlotHeld
    <3>5. EndIsRead' /\ InterruptAhead'
      BY <1>1, <3>1, <3>2, EndFrame, AheadFrame DEF Plain, IInv
    <3>6. QED  BY <1>1, <3>1, <3>4, <3>5 DEF Plain
  <2>9. QED  BY <2>2, <2>5, <2>6, <2>7, <2>8 DEF IInv
<1>4. QED  BY <1>2, <1>3

\* A request is submitted with a drain and holds the slot.
LEMMA AcceptStep ==
    ASSUME IInv, NEW r \in Req, phase[r] = "checking", Accept(r),
           reserved' \in {reserved, [reserved EXCEPT ![thread[r]] = r]},
           circumstances = {} => reserved'[thread[r]] = r /\ reserved[thread[r]] \in {None, r},
           UNCHANGED <<thread, verdict, pending, active, aux, aborting, task, runner, events,
                       historyVars>>
    PROVE  IInv'
<1> USE DEF historyVars
<1>1. /\ phase' = [phase EXCEPT ![r] = "accepted"] /\ drain' = [drain EXCEPT ![r] = "reading"]
      /\ line' = Append(line, Run(r))
  BY DEF Accept, SetPhase
<1>2. TypeOK'
  <2>1. line' \in Seq([does : {"run", "abort"}, req : Req])
    BY <1>1, Entries, AppendFacts DEF IInv, Submission
  <2>2. reserved' \in [Thread -> Req \cup {None}]
    BY DEF IInv, TypeOK
  <2>3. QED  BY <1>1, <2>1, <2>2 DEF IInv, TypeOK
<1>3. /\ \A q \in Req : q # r => phase'[q] = phase[q] /\ drain'[q] = drain[q]
      /\ phase'[r] = "accepted" /\ drain'[r] = "reading" /\ thread[r] \in Thread
      /\ \A t \in Thread : reserved'[t] = reserved[t] \/ (t = thread[r] /\ reserved'[t] = r)
  BY <1>1 DEF IInv, TypeOK
<1>4. /\ \A t \in Thread : reserved[t] # None => reserved[t] \in Req /\ thread[reserved[t]] = t
      /\ \A t \in Thread : runner[t] # None => runner[t] \in Req
      /\ \A q \in Req : thread[q] \in Thread
  BY DEF IInv, TypeOK, Named
<1>5. SlotHasOwner'
  BY <1>3, <1>4 DEF IInv, SlotHasOwner
<1>6. QueuedOnce'
  BY <1>1, QueueRun DEF IInv
<1>7. Named'
  BY <1>3, <1>4 DEF IInv, Named
<1>8. ASSUME circumstances' = {} PROVE Plain'
  <2>1. Plain
    BY <1>8 DEF IInv
  <2>2. reserved'[thread[r]] = r /\ reserved[thread[r]] \in {None, r}
    BY <1>8
  <2>3. \A q \in Req : Unfinished(q)' => Unfinished(q) \/ q = r
    BY <1>3
  <2>4. \A q \in Req : q # r =>
           ~Unfinished(q) /\ drain[q] # "reading" /\ ~(q \in Message /\ phase[q] = "checking")
    BY <2>1, <2>2, NoneIsNoRequest DEF Plain, SlotHeld
  <2>5. SlotHeld'
    BY <1>3, <2>1, <2>2, <2>3, <2>4 DEF Plain, SlotHeld
  <2>6. EndIsRead'
    BY <1>3, <2>1, EndFrame DEF Plain, IInv
  <2>7. InterruptAhead'
    BY <1>1, <2>1, <2>3, AheadRun DEF Plain, IInv
  <2>8. QED  BY <2>1, <2>5, <2>6, <2>7 DEF Plain
<1>9. QED  BY <1>2, <1>5, <1>6, <1>7, <1>8 DEF IInv

\* A message is submitted in the slot it has reserved.
LEMMA StartStep ==
    ASSUME IInv, NEW r \in Req, Start(r)
    PROVE  IInv'
<1>1. circumstances = {} => reserved[thread[r]] = r
  BY DEF IInv, Plain, SlotHeld, Start
<1>2. QED  BY <1>1, AcceptStep DEF Start

\* A command is submitted beside the thread's turn, or as its turn.
LEMMA ShellStep ==
    ASSUME IInv, NEW r \in Req, Shell(r)
    PROVE  IInv'
<1> USE DEF historyVars
<1>1. /\ r \in Command /\ phase[r] = "checking"
      /\ UNCHANGED <<thread, verdict, pending, active, aux, aborting, task, runner, events,
                     historyVars>>
  BY DEF Shell
<1>2. CASE ~Taken(thread[r])
  <2>1. Accept(r) /\ reserved' = [reserved EXCEPT ![thread[r]] = r]
    BY <1>2 DEF Shell
  <2>2. reserved'[thread[r]] = r /\ reserved[thread[r]] = None
    BY <1>2, <2>1 DEF IInv, TypeOK, Taken
  <2>3. QED  BY <1>1, <2>1, <2>2, AcceptStep
<1>3. CASE Taken(thread[r])
  <2>1. /\ phase' = [phase EXCEPT ![r] = "beside"] /\ line' = Append(line, Run(r))
        /\ UNCHANGED <<reserved, drain>>
    BY <1>3 DEF Shell, SetPhase
  <2>2. TypeOK'
    <3>1. line' \in Seq([does : {"run", "abort"}, req : Req])
      BY <2>1, Entries, AppendFacts DEF IInv, Submission
    <3>2. QED  BY <1>1, <2>1, <3>1 DEF IInv, TypeOK
  <2>3. phase'[r] = "beside" /\ \A q \in Req : q # r => phase'[q] = phase[q]
    BY <2>1 DEF IInv, TypeOK
  <2>4. SlotHasOwner'
    <3>1. \A t \in Thread : reserved[t] # None => reserved[t] \in Req
      BY DEF IInv, TypeOK
    <3>2. QED  BY <1>1, <2>1, <2>3, <3>1 DEF IInv, SlotHasOwner, Named
  <2>5. QueuedOnce'
    BY <1>1, <2>1, QueueRun DEF IInv
  <2>6. Named'
    BY <1>1, <2>1, <2>3, NamedFrame DEF IInv
  <2>7. ASSUME circumstances' = {} PROVE Plain'
    <3>1. Plain
      BY <1>1, <2>7 DEF IInv
    <3>2. \A q \in Req : Unfinished(q)' => Unfinished(q)
      BY <1>1, <2>3
    <3>3. SlotHeld'
      <4>1. \A q \in Message : phase'[q] = "checking" => phase[q] = "checking"
        BY <2>3
      <4>2. \A q \in Req : phase[q] = "accepted" => phase'[q] = "accepted"
        BY <1>1, <2>3
      <4>3. QED  BY <1>1, <2>1, <3>1, <3>2, <4>1, <4>2, SlotFrame DEF Plain
    <3>4. EndIsRead'
      BY <1>1, <2>1, <3>1, EndFrame DEF Plain, IInv
    <3>5. InterruptAhead'
      BY <2>1, <3>1, <3>2, AheadRun DEF Plain, IInv
    <3>6. QED  BY <1>1, <3>1, <3>3, <3>4, <3>5 DEF Plain
  <2>8. QED  BY <2>2, <2>4, <2>5, <2>6, <2>7 DEF IInv
<1>4. QED  BY <1>2, <1>3

\* An interrupt compares turns and submits an abort.
LEMMA InterruptStep ==
    ASSUME IInv, NEW r \in Req, Interrupt(r)
    PROVE  IInv'
<1>1. /\ phase[r] = "accepted" /\ ActiveTurn(thread[r]) = r
      /\ interrupted' = interrupted \cup {r} /\ line' = Append(line, Abort(r))
      /\ UNCHANGED <<thread, phase, reserved, drain, verdict, pending, active, aux, aborting, task,
                     runner, events, hits, circumstances>>
  BY DEF Interrupt, handlerVars
<1>2. TypeOK'
  <2>1. line' \in Seq([does : {"run", "abort"}, req : Req])
    BY <1>1, Entries, AppendFacts DEF IInv, Submission
  <2>2. QED  BY <1>1, <2>1 DEF IInv, TypeOK
<1>3. SlotHasOwner' /\ Named'
  BY <1>1, NamedFrame DEF IInv, SlotHasOwner
<1>4. QueuedOnce'
  BY <1>1, QueueAbort DEF IInv
<1>5. ASSUME circumstances' = {} PROVE Plain'
  <2>1. Plain
    BY <1>1, <1>5 DEF IInv
  <2>2. \A q \in Req : Unfinished(q)' => Unfinished(q)
    BY <1>1
  <2>3. SlotHeld' /\ EndIsRead'
    BY <1>1, <2>1, <2>2, SlotFrame, EndFrame DEF Plain, IInv
  <2>4. ASSUME NEW q \in Req, Unfinished(q) PROVE q = r
    <3>1. reserved[thread[q]] = q /\ thread[q] = thread[r] /\ thread[r] \in Thread
      BY <2>1, <2>4 DEF Plain, SlotHeld, IInv, TypeOK
    <3>2. CASE runner[thread[r]] = None
      BY <1>1, <3>1, <3>2 DEF ActiveTurn
    <3>3. CASE runner[thread[r]] # None
      <4>1. runner[thread[r]] = r /\ task[r] # "done"
        BY <1>1, <3>1, <3>3 DEF ActiveTurn, IInv, Named
      <4>2. QED  BY <1>1, <2>1, <3>1, <4>1 DEF Plain, SlotHeld
    <3>4. QED  BY <3>2, <3>3
  <2>5. InterruptAhead'
    BY <1>1, <2>1, <2>2, <2>4, AheadAbort DEF Plain, IInv
  <2>6. QED  BY <1>1, <2>1, <2>3, <2>5 DEF Plain
<1>6. QED  BY <1>2, <1>3, <1>4, <1>5 DEF IInv

-----------------------------------------------------------------------------
(* The drains                                                              *)

\* A drain ends and gives the slot back.
LEMMA EndDrainStep ==
    ASSUME IInv, NEW r \in Req, NEW v, EndDrain(r, v), drain[r] = "reading",
           v \in Terminal \cup {[of |-> r, is |-> i] : i \in {None, "quiet"}},
           events' \in Seq(Terminal),
           circumstances = {} => v.of = r /\ Len(events') = 0 /\ task[r] = "done",
           UNCHANGED <<thread, phase, line, pending, active, aux, aborting, task, runner,
                       historyVars>>
    PROVE  IInv'
<1> USE DEF historyVars
<1>1. /\ drain' = [drain EXCEPT ![r] = "ended"] /\ verdict' = [verdict EXCEPT ![r] = v]
      /\ reserved' = [reserved EXCEPT ![thread[r]] = None]
  BY DEF EndDrain
<1>2. TypeOK'
  <2>1. \A q \in Req : verdict'[q] \in Terminal \cup {[of |-> q, is |-> i] : i \in {None, "quiet"}}
    BY <1>1 DEF IInv, TypeOK
  <2>2. QED  BY <1>1, <2>1 DEF IInv, TypeOK
<1>3. /\ \A q \in Req : q # r => drain'[q] = drain[q] /\ verdict'[q] = verdict[q]
      /\ drain'[r] = "ended" /\ thread[r] \in Thread
      /\ \A t \in Thread : t # thread[r] => reserved'[t] = reserved[t]
      /\ reserved'[thread[r]] = None
  BY <1>1 DEF IInv, TypeOK
<1>4. /\ \A t \in Thread : reserved[t] # None => reserved[t] \in Req /\ thread[reserved[t]] = t
      /\ \A t \in Thread : runner[t] # None => runner[t] \in Req
      /\ \A q \in Req : thread[q] \in Thread
  BY DEF IInv, TypeOK, Named
<1>5. SlotHasOwner' /\ Named'
  BY <1>3, <1>4 DEF IInv, SlotHasOwner, Named
<1>6. QueuedOnce'
  BY QueueFrame DEF IInv
<1>7. ASSUME circumstances' = {} PROVE Plain'
  <2>1. Plain /\ v.of = r /\ Len(events') = 0 /\ task[r] = "done"
    BY <1>7 DEF IInv
  <2>2. \A q \in Req : q # r =>
           ~Unfinished(q) /\ drain[q] # "reading" /\ ~(q \in Message /\ phase[q] = "checking")
    BY <2>1 DEF Plain, SlotHeld
  <2>3. phase[r] = "accepted"
    BY <2>1 DEF Plain, SlotHeld
  <2>4. \A q \in Req : ~Unfinished(q)'
    BY <2>1, <2>2
  <2>5. SlotHeld'
    <3>1. ASSUME NEW q \in Req PROVE drain'[q] = "ended" => verdict'[q].of = q
      <4>1. CASE q = r
        BY <1>1, <2>1, <4>1 DEF IInv, TypeOK
      <4>2. CASE q # r
        BY <1>3, <2>1, <4>2 DEF Plain, SlotHeld
      <4>3. QED  BY <4>1, <4>2
    <3>2. QED  BY <1>3, <2>1, <2>2, <2>3, <2>4, <3>1 DEF Plain, SlotHeld
  <2>6. EndIsRead'
    BY <2>1 DEF EndIsRead
  <2>7. InterruptAhead'
    BY <2>4 DEF InterruptAhead
  <2>8. QED  BY <2>1, <2>5, <2>6, <2>7 DEF Plain
<1>8. QED  BY <1>2, <1>5, <1>6, <1>7 DEF IInv

\* A drain reads the end of a turn.
LEMMA ReadStep ==
    ASSUME IInv, NEW r \in Req, Read(r)
    PROVE  IInv'
<1>1. /\ Tail(events) \in Seq(Terminal) /\ Len(events) \in Nat \ {0}
      /\ Len(Tail(events)) = Len(events) - 1
      /\ Head(events) = events[1] /\ Head(events) \in Terminal /\ 1 \in DOMAIN events
  BY TailFacts, Entries DEF IInv, Read
<1>2. ASSUME circumstances = {}
      PROVE  Head(events).of = r /\ Len(Tail(events)) = 0 /\ task[r] = "done"
  <2>1. Plain /\ Len(Tail(events)) = 0
    BY <1>1, <1>2 DEF IInv, Plain, EndIsRead
  <2>2. Head(events).of \in Req
    BY <1>1 DEF Terminal
  <2>3. drain[Head(events).of] = "reading" /\ task[Head(events).of] = "done"
    BY <1>1, <2>1 DEF Plain, EndIsRead
  <2>4. Head(events).of = r
    BY <2>1, <2>2, <2>3 DEF Read, Plain, SlotHeld
  <2>5. QED  BY <2>1, <2>3, <2>4
<1>3. QED  BY <1>1, <1>2, EndDrainStep DEF Read

\* A drain hears nothing for five minutes.
LEMMA QuietStep ==
    ASSUME IInv, NEW r \in Req, Quiet(r)
    PROVE  IInv'
<1>1. circumstances # {}
  BY DEF Quiet
<1>2. events' \in Seq(Terminal)
  BY Entries DEF IInv, Quiet, sessionVars
<1>3. QED  BY <1>1, <1>2, EndDrainStep DEF Quiet, sessionVars

-----------------------------------------------------------------------------
(* The loop                                                                *)

\* A step of the loop: it ends no turn's work and touches no slot.
LEMMA LoopStep ==
    ASSUME IInv, TypeOK', QueuedOnce', UNCHANGED <<handlerVars, runner, events, circumstances>>,
           \A r \in Req : task[r] = "done" => task'[r] = "done",
           \A r \in Req : task[r] \in {"running", "cancelling"} =>
                            task'[r] \in {"running", "cancelling"},
           circumstances = {} => InterruptAhead' /\ \A h \in hits' : h[1] = h[2]
    PROVE  IInv'
<1> USE DEF handlerVars
<1>1. SlotHasOwner'
  BY DEF IInv, SlotHasOwner
<1>2. Named'
  BY NamedFrame DEF IInv
<1>3. ASSUME circumstances' = {} PROVE Plain'
  <2>1. Plain /\ InterruptAhead' /\ \A h \in hits' : h[1] = h[2]
    BY <1>3 DEF IInv
  <2>2. SlotHeld' /\ EndIsRead'
    BY <2>1, SlotFrame, EndFrame DEF Plain, IInv
  <2>3. QED  BY <2>1, <2>2 DEF Plain
<1>4. QED  BY <1>1, <1>2, <1>3 DEF IInv

\* What leaves a queue is of a request without a task.
LEMMA HeadsAreNew ==
    ASSUME IInv
    PROVE  /\ line # <<>> => /\ Head(line).req \in Req /\ Head(line).does \in {"run", "abort"}
                             /\ Head(line).does = "run" => task[Head(line).req] = None
                             /\ Tail(line) \in Seq(Submission)
           /\ pending # <<>> => /\ Head(pending) \in Message /\ task[Head(pending)] = None
                                /\ Tail(pending) \in Seq(Message)
<1>1. ASSUME line # <<>>
      PROVE  /\ Head(line).req \in Req /\ Head(line).does \in {"run", "abort"}
             /\ Head(line).does = "run" => task[Head(line).req] = None
             /\ Tail(line) \in Seq(Submission)
  <2>1. Head(line) \in Submission /\ Head(line) = line[1] /\ 1 \in DOMAIN line
        /\ Tail(line) \in Seq(Submission)
    BY <1>1, TailFacts, Entries DEF IInv
  <2>2. QED  BY <2>1 DEF IInv, QueuedOnce, IsRun, Submission
<1>2. ASSUME pending # <<>>
      PROVE  /\ Head(pending) \in Message /\ task[Head(pending)] = None
             /\ Tail(pending) \in Seq(Message)
  <2>1. Head(pending) \in Message /\ Head(pending) = pending[1] /\ 1 \in DOMAIN pending
        /\ Tail(pending) \in Seq(Message)
    BY <1>2, TailFacts, Entries DEF IInv
  <2>2. QED  BY <2>1 DEF IInv, QueuedOnce
<1>3. QED  BY <1>1, <1>2

\* A request gets its task: nothing else can have depended on it.
LEMMA TaskIsNew ==
    ASSUME IInv, NEW r \in Req, task[r] = None, task' = [task EXCEPT ![r] = "ready"]
    PROVE  /\ task' \in [Req -> {None, "ready", "running", "cancelling", "done"}]
           /\ \A q \in Req : task[q] = "done" => task'[q] = "done"
           /\ \A q \in Req : task[q] \in {"running", "cancelling"} =>
                               task'[q] \in {"running", "cancelling"}
           /\ \A q \in Req : task'[q] = "done" <=> task[q] = "done"
BY DEF IInv, TypeOK, None

\* No turn is active: the next one is dispatched, or an abort finds none.
LEMMA DispatchStep ==
    ASSUME IInv, Dispatch
    PROVE  IInv'
<1>1. UNCHANGED <<handlerVars, aux, aborting, runner, events, historyVars>>
  BY DEF Dispatch
<1>2. CASE pending # <<>>
  <2> DEFINE r == Head(pending)
  <2>1. /\ active' = r /\ pending' = Tail(pending)
        /\ task' = [task EXCEPT ![r] = "ready"] /\ line' = line
    BY <1>2 DEF Dispatch
  <2>2. r \in Message /\ task[r] = None /\ Tail(pending) \in Seq(Message)
    BY <1>2, HeadsAreNew
  <2> HIDE DEF r
  <2>3. TypeOK'
    BY <1>1, <2>1, <2>2, TaskIsNew DEF IInv, TypeOK, handlerVars, historyVars
  <2>4. QueuedOnce'
    BY <1>1, <1>2, <2>1, <2>2, QueueNext DEF IInv, handlerVars, r
  <2>5. circumstances = {} => InterruptAhead' /\ \A h \in hits' : h[1] = h[2]
    BY <1>1, <2>1, <2>2, TaskIsNew, AheadFrame DEF IInv, Plain, handlerVars, historyVars
  <2>6. QED  BY <1>1, <2>1, <2>2, <2>3, <2>4, <2>5, TaskIsNew, LoopStep DEF historyVars
<1>3. CASE pending = <<>> /\ Head(line).does = "run"
  <2> DEFINE r == Head(line).req
  <2>1. /\ line # <<>> /\ line' = Tail(line) /\ pending' = pending
        /\ active' = r /\ task' = [task EXCEPT ![r] = "ready"]
    BY <1>3 DEF Dispatch
  <2>2. r \in Req /\ task[r] = None /\ Tail(line) \in Seq(Submission)
    BY <1>3, <2>1, HeadsAreNew
  <2>3. r = Head(line).req
    OBVIOUS
  <2> HIDE DEF r
  <2>4. TypeOK'
    BY <1>1, <2>1, <2>2, TaskIsNew DEF IInv, TypeOK, Submission, handlerVars, historyVars
  <2>5. QueuedOnce'
    BY <1>1, <1>3, <2>1, <2>2, <2>3, QueueTake DEF IInv, handlerVars
  <2>6. circumstances = {} => InterruptAhead' /\ \A h \in hits' : h[1] = h[2]
    BY <1>1, <2>1, <2>2, TaskIsNew, AheadTail DEF IInv, Plain, handlerVars, historyVars
  <2>7. QED  BY <1>1, <2>1, <2>2, <2>4, <2>5, <2>6, TaskIsNew, LoopStep DEF historyVars
<1>4. CASE pending = <<>> /\ Head(line).does # "run"
  <2>1. line # <<>> /\ line' = Tail(line) /\ UNCHANGED <<pending, active, task>>
    BY <1>4 DEF Dispatch
  <2>2. Tail(line) \in Seq(Submission)
    BY <2>1, HeadsAreNew
  <2>3. TypeOK'
    BY <1>1, <2>1, <2>2 DEF IInv, TypeOK, Submission, handlerVars, historyVars
  <2>4. QueuedOnce'
    BY <1>1, <2>1, QueueTail DEF IInv, handlerVars
  <2>5. circumstances = {} => InterruptAhead' /\ \A h \in hits' : h[1] = h[2]
    BY <1>1, <2>1, AheadTail DEF IInv, Plain, handlerVars, historyVars
  <2>6. QED  BY <1>1, <2>1, <2>3, <2>4, <2>5, LoopStep DEF historyVars
<1>5. QED  BY <1>2, <1>3, <1>4

\* A turn is active: a message waits, a command runs beside the turn.
LEMMA DispatchMoreStep ==
    ASSUME IInv, DispatchMore
    PROVE  IInv'
<1> DEFINE r == Head(line).req
<1>1. /\ line # <<>> /\ Head(line).does = "run" /\ line' = Tail(line)
      /\ UNCHANGED <<handlerVars, active, aborting, runner, events, historyVars>>
  BY DEF DispatchMore
<1>2. r \in Req /\ task[r] = None /\ Tail(line) \in Seq(Submission)
  BY <1>1, HeadsAreNew
<1>3. r = Head(line).req
  OBVIOUS
<1>4. r \in Command => aux' = aux \cup {r} /\ task' = [task EXCEPT ![r] = "ready"] /\ pending' = pending
  BY DEF DispatchMore
<1>5. r \notin Command => pending' = Append(pending, r) /\ UNCHANGED <<aux, task>>
  BY DEF DispatchMore
<1> HIDE DEF r
<1>6. CASE r \in Command
  <2>1. TypeOK'
    BY <1>1, <1>2, <1>4, <1>6, TaskIsNew DEF IInv, TypeOK, Submission, handlerVars, historyVars
  <2>2. QueuedOnce'
    BY <1>1, <1>2, <1>3, <1>4, <1>6, QueueTake DEF IInv, handlerVars
  <2>3. circumstances = {} => InterruptAhead' /\ \A h \in hits' : h[1] = h[2]
    BY <1>1, <1>2, <1>4, <1>6, TaskIsNew, AheadTail DEF IInv, Plain, handlerVars, historyVars
  <2>4. QED  BY <1>1, <1>2, <1>4, <1>6, <2>1, <2>2, <2>3, TaskIsNew, LoopStep DEF historyVars
<1>7. CASE r \notin Command
  <2>1. r \in Message
    BY <1>2, <1>7
  <2>2. Append(pending, r) \in Seq(Message)
    BY <2>1, Entries, AppendFacts DEF IInv
  <2>3. TypeOK'
    BY <1>1, <1>2, <1>5, <1>7, <2>2 DEF IInv, TypeOK, Submission, handlerVars, historyVars
  <2>4. QueuedOnce'
    BY <1>1, <1>3, <1>5, <1>7, <2>1, QueueWait DEF IInv, handlerVars
  <2>5. circumstances = {} => InterruptAhead' /\ \A h \in hits' : h[1] = h[2]
    BY <1>1, <1>5, <1>7, AheadTail DEF IInv, Plain, handlerVars, historyVars
  <2>6. QED  BY <1>1, <1>5, <1>7, <2>3, <2>4, <2>5, LoopStep DEF historyVars
<1>8. QED  BY <1>6, <1>7

\* A cancellation stops what runs and starts nothing.
LEMMA CancelFacts ==
    ASSUME TypeOK, NEW S, \A r \in S : task[r] # "ready" \/ r \in Req
    PROVE  /\ CancelAll(S) \in [Req -> {None, "ready", "running", "cancelling", "done"}]
           /\ \A r \in Req : CancelAll(S)[r] = None <=> task[r] = None
           /\ \A r \in Req : task[r] = "done" => CancelAll(S)[r] = "done"
           /\ \A r \in Req : task[r] \in {"running", "cancelling"} =>
                               CancelAll(S)[r] \in {"running", "cancelling"}
BY DEF CancelAll, TypeOK, None

\* An abort cancels the active turn and the commands beside it, of which
\* only the turn it names can be one that drains.
LEMMA DispatchAbortStep ==
    ASSUME IInv, DispatchAbort
    PROVE  IInv'
<1>1. /\ active # None /\ line # <<>> /\ Head(line).does = "abort" /\ line' = Tail(line)
      /\ aborting' = TRUE /\ task' = CancelAll({active} \cup aux)
      /\ UNCHANGED <<handlerVars, pending, active, aux, runner, events, interrupted, circumstances>>
  BY DEF DispatchAbort
<1>2. {active} \cup aux \subseteq Req
  BY <1>1 DEF IInv, TypeOK
<1>3. /\ task' \in [Req -> {None, "ready", "running", "cancelling", "done"}]
      /\ \A r \in Req : task'[r] = None <=> task[r] = None
      /\ \A r \in Req : task[r] = "done" => task'[r] = "done"
      /\ \A r \in Req : task[r] \in {"running", "cancelling"} =>
                          task'[r] \in {"running", "cancelling"}
  BY <1>1, <1>2, CancelFacts DEF IInv
<1>4. Tail(line) \in Seq(Submission) /\ Head(line).req \in Req
  BY <1>1, HeadsAreNew
<1>5. \A h \in hits' : h \in hits \/ \E q \in {active} \cup aux :
          h = <<Head(line).req, q>> /\ task[q] # "done" /\ phase[q] = "accepted"
  BY DEF DispatchAbort
<1>6. TypeOK'
  <2>1. hits' \subseteq Req \X Req
    BY <1>2, <1>4, <1>5 DEF IInv, TypeOK
  <2>2. QED  BY <1>1, <1>3, <1>4, <2>1 DEF IInv, TypeOK, Submission, handlerVars
<1>7. QueuedOnce'
  BY <1>1, <1>3, QueueTail DEF IInv, handlerVars
<1>8. ASSUME circumstances = {} PROVE InterruptAhead' /\ \A h \in hits' : h[1] = h[2]
  <2>1. Plain
    BY <1>8 DEF IInv
  <2>2. InterruptAhead'
    BY <1>1, <1>3, <2>1, AheadTail DEF IInv, Plain, handlerVars
  <2>3. ASSUME NEW q \in {active} \cup aux, task[q] # "done", phase[q] = "accepted"
        PROVE  q = Head(line).req
    <3>1. SUFFICES ASSUME q # Head(line).req PROVE FALSE
      OBVIOUS
    <3>2. 1 \in DOMAIN line /\ Head(line) = line[1]
      BY <1>1, TailFacts, Entries DEF IInv
    <3>3. PICK j \in DOMAIN line : line[j] = Run(q)
      BY <1>1, <1>2, <2>1, <2>3, <3>1, <3>2 DEF Plain, InterruptAhead, Behind, IsRun
    <3>4. line[j].does = "run" /\ line[j].req = q
      BY <1>2, <3>3, Entries DEF IInv
    <3>5. task[q] = None
      BY <3>4 DEF IInv, QueuedOnce, IsRun
    <3>6. QED  BY <1>1, <3>5 DEF IInv, QueuedOnce
  <2>4. \A h \in hits' : h[1] = h[2]
    BY <1>5, <2>1, <2>3 DEF Plain
  <2>5. QED  BY <2>2, <2>4
<1>9. QED  BY <1>1, <1>3, <1>6, <1>7, <1>8, LoopStep

\* The turn is over and its commands are, or are now cancelled.
LEMMA OverStep ==
    ASSUME IInv, Aborted \/ TurnOver
    PROVE  IInv'
<1>1. UNCHANGED <<handlerVars, line, pending, runner, events, historyVars>>
  BY DEF Aborted, TurnOver
<1>2. active' \in {active, None} /\ aux' \subseteq aux /\ aborting' \in BOOLEAN
  BY DEF Aborted, TurnOver
<1>3. /\ task' \in [Req -> {None, "ready", "running", "cancelling", "done"}]
      /\ \A r \in Req : task'[r] = None <=> task[r] = None
      /\ \A r \in Req : task[r] = "done" => task'[r] = "done"
      /\ \A r \in Req : task[r] \in {"running", "cancelling"} =>
                          task'[r] \in {"running", "cancelling"}
  <2>1. CASE task' = task
    BY <2>1 DEF IInv, TypeOK
  <2>2. CASE task' = CancelAll(aux)
    <3>1. aux \subseteq Req
      BY DEF IInv, TypeOK
    <3>2. QED  BY <2>2, <3>1, CancelFacts DEF IInv
  <2>3. QED  BY <2>1, <2>2 DEF Aborted, TurnOver
<1>4. TypeOK'
  BY <1>1, <1>2, <1>3 DEF IInv, TypeOK, handlerVars, historyVars
<1>5. QueuedOnce'
  BY <1>1, <1>2, <1>3, QueueFrame DEF IInv, handlerVars
<1>6. circumstances = {} => InterruptAhead' /\ \A h \in hits' : h[1] = h[2]
  BY <1>1, <1>3, AheadFrame DEF IInv, Plain, handlerVars, historyVars
<1>7. QED  BY <1>1, <1>3, <1>4, <1>5, <1>6, LoopStep DEF historyVars

-----------------------------------------------------------------------------
(* The tasks                                                               *)

\* A task starts, and TaskRunner names its turn.
LEMMA BeginStep ==
    ASSUME IInv, NEW r \in Req, Begin(r)
    PROVE  IInv'
<1>1. /\ task[r] = "ready" /\ task' = [task EXCEPT ![r] = "running"]
      /\ UNCHANGED <<handlerVars, line, pending, active, aux, aborting, events, historyVars>>
  BY DEF Begin
<1>2. runner' = IF phase[r] = "accepted" THEN [runner EXCEPT ![thread[r]] = r] ELSE runner
  BY DEF Begin
<1>3. TypeOK'
  BY <1>1, <1>2 DEF IInv, TypeOK, handlerVars, historyVars
<1>4. task'[r] = "running" /\ \A q \in Req : q # r => task'[q] = task[q]
  BY <1>1 DEF IInv, TypeOK
<1>5. SlotHasOwner'
  BY <1>1 DEF IInv, SlotHasOwner, handlerVars
<1>6. QueuedOnce'
  <2>1. \A q \in Req : task'[q] = None <=> task[q] = None
    BY <1>1, <1>4 DEF None
  <2>2. QED  BY <1>1, <2>1, QueueFrame DEF IInv, handlerVars
<1>7. Named'
  <2>1. \A t \in Thread : /\ runner[t] # None => runner[t] \in Req
                          /\ reserved[t] # None => reserved[t] \in Req
                          /\ runner'[t] = runner[t]
                             \/ (runner'[t] = r /\ thread[r] = t /\ phase[r] = "accepted")
    BY <1>2 DEF IInv, TypeOK
  <2>2. QED  BY <1>1, <1>4, <2>1 DEF IInv, Named, handlerVars
<1>8. ASSUME circumstances' = {} PROVE Plain'
  <2>1. Plain
    BY <1>1, <1>8 DEF IInv, historyVars
  <2>2. \A q \in Req : Unfinished(q)' => Unfinished(q)
    BY <1>1, <1>4 DEF handlerVars
  <2>3. \A q \in Req : task[q] = "done" => task'[q] = "done"
    BY <1>1, <1>4
  <2>4. SlotHeld' /\ EndIsRead' /\ InterruptAhead'
    BY <1>1, <2>1, <2>2, <2>3, SlotFrame, EndFrame, AheadFrame DEF Plain, IInv, handlerVars
  <2>5. QED  BY <1>1, <2>1, <2>4 DEF Plain, handlerVars, historyVars
<1>9. QED  BY <1>3, <1>5, <1>6, <1>7, <1>8 DEF IInv

\* A turn ends, with at most one event unless it fails.
LEMMA EndStep ==
    ASSUME IInv, NEW r \in Req, task[r] \in {"running", "cancelling"}, Over(r),
           events' \in Seq(Terminal),
           circumstances = {} =>
               \/ events' = events
               \/ /\ phase[r] = "accepted"
                  /\ \E e \in Terminal : e.of = r /\ events' = Append(events, e)
    PROVE  IInv'
<1>1. /\ task' = [task EXCEPT ![r] = "done"]
      /\ UNCHANGED <<handlerVars, line, pending, active, aux, aborting, historyVars>>
  BY DEF Over
<1>2. runner' = IF phase[r] = "accepted" /\ (r \in Command \/ runner[thread[r]] = r)
                THEN [runner EXCEPT ![thread[r]] = None] ELSE runner
  BY DEF Over
<1>3. TypeOK'
  BY <1>1, <1>2 DEF IInv, TypeOK, handlerVars, historyVars
<1>4. task'[r] = "done" /\ \A q \in Req : q # r => task'[q] = task[q]
  BY <1>1 DEF IInv, TypeOK
<1>5. SlotHasOwner'
  BY <1>1 DEF IInv, SlotHasOwner, handlerVars
<1>6. QueuedOnce'
  <2>1. \A q \in Req : task'[q] = None <=> task[q] = None
    BY <1>1, <1>4 DEF None
  <2>2. QED  BY <1>1, <2>1, QueueFrame DEF IInv, handlerVars
<1>7. Named'
  <2>1. \A t \in Thread : /\ runner[t] # None => runner[t] \in Req
                          /\ reserved[t] # None => reserved[t] \in Req
    BY DEF IInv, TypeOK
  <2>2. \A t \in Thread : runner'[t] \in {runner[t], None} /\ (runner'[t] # None => runner'[t] # r)
    <3>1. r # None
      BY NoneIsNoRequest
    <3>2. \A t \in Thread : runner[t] = r => phase[r] = "accepted" /\ thread[r] = t
      BY <3>1 DEF IInv, Named
    <3>3. QED  BY <1>2, <3>2 DEF IInv, TypeOK
  <2>3. QED  BY <1>1, <1>4, <2>1, <2>2 DEF IInv, Named, handlerVars
<1>8. ASSUME circumstances' = {} PROVE Plain'
  <2>1. Plain /\ circumstances = {}
    BY <1>1, <1>8 DEF IInv, historyVars
  <2>2. \A q \in Req : Unfinished(q)' => Unfinished(q)
    BY <1>1, <1>4 DEF handlerVars
  <2>3. \A q \in Req : task[q] = "done" => task'[q] = "done"
    BY <1>1, <1>4
  <2>4. SlotHeld' /\ InterruptAhead'
    BY <1>1, <2>1, <2>2, SlotFrame, AheadFrame DEF Plain, IInv, handlerVars
  <2>5. CASE events' = events
    <3>1. EndIsRead'
      BY <1>1, <2>1, <2>3, <2>5, EndFrame DEF Plain, IInv, handlerVars
    <3>2. QED  BY <1>1, <2>1, <2>4, <3>1 DEF Plain, handlerVars, historyVars
  <2>6. CASE phase[r] = "accepted" /\ \E e \in Terminal : e.of = r /\ events' = Append(events, e)
    <3>1. PICK e \in Terminal : e.of = r /\ events' = Append(events, e)
      BY <2>6
    <3>2. drain[r] = "reading" /\ reserved[thread[r]] = r
      BY <2>1, <2>6 DEF Plain, SlotHeld
    <3>3. Len(events) = 0
      <4>1. Len(events) \in Nat /\ DOMAIN events = 1..Len(events) /\ Len(events) <= 1
        BY <2>1, Positions DEF IInv, Plain, EndIsRead
      <4>2. ASSUME Len(events) = 1 PROVE FALSE
        <5>1. 1 \in DOMAIN events /\ events[1].of \in Req
          BY <4>1, <4>2, Positions DEF IInv, Terminal
        <5>2. drain[events[1].of] = "reading" /\ task[events[1].of] = "done"
          BY <2>1, <5>1 DEF Plain, EndIsRead
        <5>3. events[1].of = r
          BY <2>1, <3>2, <5>1, <5>2 DEF Plain, SlotHeld
        <5>4. QED  BY <5>2, <5>3
      <4>3. QED  BY <4>1, <4>2
    <3>4. Len(events') = 1 /\ DOMAIN events' = 1..1 /\ events'[1] = e
      BY <3>1, <3>3, AppendFacts, Entries DEF IInv
    <3>5. EndIsRead'
      BY <1>1, <1>4, <3>1, <3>2, <3>4 DEF EndIsRead, handlerVars
    <3>6. QED  BY <1>1, <2>1, <2>4, <3>5 DEF Plain, handlerVars, historyVars
  <2>7. QED  BY <2>1, <2>5, <2>6
<1>9. QED  BY <1>3, <1>5, <1>6, <1>7, <1>8 DEF IInv

\* What a turn says is about itself.
LEMMA SaidOne ==
    ASSUME IInv, NEW r \in Req, NEW kind \in {"complete", "aborted", "fatal"}, Said(r, <<kind>>)
    PROVE  /\ events' \in Seq(Terminal)
           /\ \/ events' = events
              \/ /\ phase[r] = "accepted"
                 /\ \E e \in Terminal : e.of = r /\ events' = Append(events, e)
<1>1. events \in Seq(Terminal) /\ [of |-> r, is |-> kind] \in Terminal
  BY DEF IInv, TypeOK, Terminal
<1>2. [i \in DOMAIN <<kind>> |-> [of |-> r, is |-> <<kind>>[i]]] = <<[of |-> r, is |-> kind]>>
  OBVIOUS
<1>3. events' = events \/ (phase[r] = "accepted" /\ events' = events \o <<[of |-> r, is |-> kind]>>)
  BY <1>2 DEF Said
<1>4. events \o <<[of |-> r, is |-> kind]>> = Append(events, [of |-> r, is |-> kind])
  BY <1>1, AppendIsConcat
<1>5. Append(events, [of |-> r, is |-> kind]) \in Seq(Terminal)
  BY <1>1, AppendFacts
<1>6. QED  BY <1>1, <1>3, <1>4, <1>5

\* A turn that fails says two things about itself.
LEMMA SaidTwo ==
    ASSUME IInv, NEW r \in Req, NEW a \in {"complete", "fatal"}, NEW b \in {"complete", "fatal"},
           Said(r, <<a, b>>)
    PROVE  events' \in Seq(Terminal)
<1>1. events \in Seq(Terminal) /\ [of |-> r, is |-> a] \in Terminal /\ [of |-> r, is |-> b] \in Terminal
  BY DEF IInv, TypeOK, Terminal
<1>2. [i \in DOMAIN <<a, b>> |-> [of |-> r, is |-> <<a, b>>[i]]] = <<[of |-> r, is |-> a], [of |-> r, is |-> b]>>
  OBVIOUS
<1>3. <<[of |-> r, is |-> a], [of |-> r, is |-> b]>> \in Seq(Terminal)
  BY <1>1
<1>4. QED  BY <1>1, <1>2, <1>3, ConcatProperties DEF Said

\* A turn ends by itself, fails, or ends because it was cancelled.
LEMMA TaskEndStep ==
    ASSUME IInv, NEW r \in Req, Complete(r) \/ Fail(r) \/ EndCancelled(r)
    PROVE  IInv'
<1>1. CASE Complete(r)
  BY <1>1, SaidOne, EndStep DEF Complete
<1>2. CASE Fail(r)
  <2>1. circumstances # {} /\ task[r] = "running" /\ Over(r)
    BY <1>2 DEF Fail
  <2>2. events' \in Seq(Terminal)
    BY <1>2, SaidTwo DEF Fail
  <2>3. QED  BY <2>1, <2>2, EndStep
<1>3. CASE EndCancelled(r)
  <2>1. task[r] = "cancelling" /\ Over(r)
    BY <1>3 DEF EndCancelled
  <2>2. CASE Said(r, <<"aborted">>)
    BY <2>1, <2>2, SaidOne, EndStep
  <2>3. CASE events' = events
    BY <2>1, <2>3, EndStep, Entries DEF IInv
  <2>4. QED  BY <1>3, <2>2, <2>3 DEF EndCancelled
<1>4. QED  BY <1>1, <1>2, <1>3

-----------------------------------------------------------------------------
(* The theorems                                                            *)

\* Before the first request nothing is queued, named or held.
LEMMA InitIInv == Init => IInv
<1> SUFFICES ASSUME Init PROVE IInv
  OBVIOUS
<1>1. TypeOK
  <2>1. DOMAIN verdict = Req
    BY DEF Init
  <2>2. \A r \in Req : verdict[r] \in Terminal \cup {[of |-> r, is |-> i] : i \in {None, "quiet"}}
    BY DEF Init
  <2>3. QED  BY <2>1, <2>2, EmptySeq DEF Init, TypeOK
<1>2. SlotHasOwner /\ QueuedOnce /\ Named
  BY DEF Init, SlotHasOwner, QueuedOnce, Named
<1>3. ASSUME circumstances = {} PROVE Plain
  <2>1. \A r, q \in Req : thread[r] = thread[q]
    BY <1>3 DEF Init
  <2>2. SlotHeld /\ EndIsRead /\ InterruptAhead /\ hits = {}
    BY DEF Init, SlotHeld, EndIsRead, InterruptAhead, None
  <2>3. QED  BY <2>1, <2>2 DEF Plain
<1>4. QED  BY <1>1, <1>2, <1>3 DEF IInv

\* Every step keeps the invariant.
LEMMA NextIInv == IInv /\ [Next]_vars => IInv'
<1> SUFFICES ASSUME IInv, [Next]_vars PROVE IInv'
  OBVIOUS
<1>1. CASE Handlers
  BY <1>1, ReserveStep, LookUpStep, StartStep, StartFailsStep, ShellStep, InterruptStep
     DEF Handlers
<1>2. CASE Drains
  BY <1>2, ReadStep, QuietStep DEF Drains
<1>3. CASE Loop
  BY <1>3, DispatchStep, DispatchMoreStep, DispatchAbortStep, OverStep DEF Loop
<1>4. CASE Tasks
  BY <1>4, BeginStep, TaskEndStep DEF Tasks
<1>5. CASE UNCHANGED vars
  <2> USE DEF vars, handlerVars, sessionVars, historyVars
  <2>1. TypeOK'
    BY <1>5 DEF IInv, TypeOK
  <2>2. QueuedOnce'
    BY <1>5, QueueFrame DEF IInv
  <2>3. circumstances = {} => InterruptAhead' /\ \A h \in hits' : h[1] = h[2]
    BY <1>5, AheadFrame DEF IInv, Plain
  <2>4. QED  BY <1>5, <2>1, <2>2, <2>3, LoopStep
<1>6. QED  BY <1>1, <1>2, <1>3, <1>4, <1>5 DEF Next

\* In every reachable state a submission is queued once, TaskRunner names a
\* turn that runs and a slot a request that will release it; and, of one
\* thread without failures, the slot says whose turn it is.
THEOREM Invariance == Spec => []IInv
<1>1. QED  BY InitIInv, NextIInv, PTL DEF Spec

\* A slot is reserved for a request whose handler or drain gives it back.
THEOREM SlotsConsistent == Spec => []Consistent
<1>1. IInv => Consistent
  BY DEF IInv, Consistent
<1>2. QED  BY <1>1, Invariance, PTL

\* A thread has one turn at a time, waiting or running.
THEOREM OneTurnPerThreadHolds == Spec => []OneTurnPerThread
<1>1. ASSUME IInv, circumstances = {}, NEW t \in Thread
      PROVE  Cardinality({r \in Req : thread[r] = t /\ Unfinished(r)}) <= 1
  <2> DEFINE S == {r \in Req : thread[r] = t /\ Unfinished(r)}
  <2>1. \A r, q \in S : r = q
    BY <1>1 DEF IInv, Plain, SlotHeld
  <2>2. CASE S = {}
    BY <2>2, FS_EmptySet
  <2>3. CASE S # {}
    <3>1. PICK r : S = {r}
      BY <2>1, <2>3
    <3>2. QED  BY <3>1, FS_Singleton
  <2>4. QED  BY <2>2, <2>3
<1>2. IInv => OneTurnPerThread
  BY <1>1 DEF OneTurnPerThread
<1>3. QED  BY <1>2, Invariance, PTL

\* turn/interrupt cancels the turn it names or nothing.
THEOREM InterruptHitsNamedHolds == Spec => []InterruptHitsNamed
<1>1. IInv => InterruptHitsNamed
  BY DEF IInv, Plain, InterruptHitsNamed
<1>2. QED  BY <1>1, Invariance, PTL

\* The client is told of a turn's end by that turn's own event.
THEOREM OwnVerdictHolds == Spec => []OwnVerdict
<1>1. IInv => OwnVerdict
  BY DEF IInv, Plain, SlotHeld, OwnVerdict
<1>2. QED  BY <1>1, Invariance, PTL
=============================================================================
