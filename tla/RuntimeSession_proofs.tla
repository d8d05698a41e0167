------------------------ MODULE RuntimeSession_proofs ------------------------
(***************************************************************************)
(* Proofs about RuntimeSession, for every set of submissions and every     *)
(* capacity of the event queue.                                            *)
(***************************************************************************)
EXTENDS RuntimeSession, SequenceTheorems, TLAPS

\* Task.cancel() never revives a task, never changes one that is over, and
\* leaves every task in a task state: what _run and stop() rely on when they
\* cancel a whole set of tasks.
LEMMA CancelOfFacts ==
    ASSUME NEW st \in TaskStates
    PROVE  /\ CancelOf(st) \in TaskStates
           /\ CancelOf(st) \in AliveStates => st \in AliveStates
           /\ st \in EndStates => CancelOf(st) = st
           /\ CancelOf(st) = "none" <=> st = "none"
  BY DEF CancelOf, TaskStates, AliveStates, EndStates

\* The same for a whole set of tasks.
LEMMA CancelledFacts ==
    ASSUME task \in [Sub -> TaskStates], NEW S
    PROVE  /\ Cancelled(S) \in [Sub -> TaskStates]
           /\ \A s \in Sub : Cancelled(S)[s] \in AliveStates => Alive(s)
           /\ \A s \in Sub : Ended(s) => Cancelled(S)[s] = task[s]
           /\ \A s \in Sub : Cancelled(S)[s] = "none" <=> task[s] = "none"
  <1>1. \A s \in Sub : task[s] \in TaskStates
    OBVIOUS
  <1>2. \A s \in Sub : Cancelled(S)[s] = IF s \in S THEN CancelOf(task[s]) ELSE task[s]
    BY DEF Cancelled
  <1> QED
    BY <1>1, <1>2, CancelOfFacts DEF Cancelled, Alive, Ended

\* A queue without duplicates that grows by a new element.
LEMMA AppendFacts ==
    ASSUME NEW S, NEW q \in Seq(S), NEW x \in S
    PROVE  /\ Append(q, x) \in Seq(S)
           /\ Range(Append(q, x)) = Range(q) \cup {x}
           /\ IsInjective(q) /\ x \notin Range(q) => IsInjective(Append(q, x))
  <1>1. /\ Append(q, x) \in Seq(S)
        /\ DOMAIN Append(q, x) = 1..(Len(q) + 1) /\ DOMAIN q = 1..Len(q)
        /\ Len(q) \in Nat
        /\ Append(q, x)[Len(q) + 1] = x
        /\ \A i \in 1..Len(q) : Append(q, x)[i] = q[i]
    OBVIOUS
  <1>2. 1..(Len(q) + 1) = 1..Len(q) \cup {Len(q) + 1}
    BY <1>1
  <1>3. Range(Append(q, x)) = Range(q) \cup {x}
    BY <1>1, <1>2 DEF Range
  <1>4. IsInjective(q) /\ x \notin Range(q) => IsInjective(Append(q, x))
    BY <1>1 DEF Range, IsInjective
  <1> QED
    BY <1>1, <1>3, <1>4

\* A queue without duplicates that loses its head.
LEMMA TailFacts ==
    ASSUME NEW S, NEW q \in Seq(S), q # <<>>, IsInjective(q)
    PROVE  /\ Tail(q) \in Seq(S)
           /\ Head(q) \in Range(q)
           /\ Range(Tail(q)) = Range(q) \ {Head(q)}
           /\ IsInjective(Tail(q))
  <1>1. /\ Tail(q) \in Seq(S) /\ Len(q) \in Nat \ {0}
        /\ DOMAIN q = 1..Len(q) /\ DOMAIN Tail(q) = 1..(Len(q) - 1)
        /\ Head(q) = q[1]
        /\ \A i \in 1..(Len(q) - 1) : Tail(q)[i] = q[i + 1]
    OBVIOUS
  <1>2. Head(q) \in Range(q)
    BY <1>1 DEF Range
  <1>3. \A i \in 1..Len(q) : i = 1 \/ (i - 1 \in 1..(Len(q) - 1) /\ Tail(q)[i - 1] = q[i])
    BY <1>1
  <1>4. ASSUME NEW y \in Range(Tail(q)) PROVE y \in Range(q) \ {Head(q)}
    <2>1. PICK i \in 1..(Len(q) - 1) : y = q[i + 1]
      BY <1>1 DEF Range
    <2>2. i + 1 \in 1..Len(q) /\ 1 \in 1..Len(q) /\ i + 1 # 1
      BY <1>1
    <2> QED
      BY <1>1, <2>1, <2>2 DEF Range, IsInjective
  <1>5. ASSUME NEW y \in Range(q) \ {Head(q)} PROVE y \in Range(Tail(q))
    <2>1. PICK i \in 1..Len(q) : q[i] = y
      BY <1>1 DEF Range
    <2>2. i - 1 \in 1..(Len(q) - 1) /\ Tail(q)[i - 1] = y
      BY <1>1, <1>3, <2>1
    <2> QED
      BY <1>1, <2>2 DEF Range
  <1>6. IsInjective(Tail(q))
    BY <1>1 DEF IsInjective
  <1> QED
    BY <1>1, <1>2, <1>4, <1>5, <1>6

Started == {s \in Sub : task[s] # "none"}

Apart(A, B, C, D, E, F) ==
    /\ A \cap B = {} /\ A \cap C = {} /\ A \cap D = {} /\ A \cap E = {} /\ A \cap F = {}
    /\ B \cap C = {} /\ B \cap D = {} /\ B \cap E = {} /\ B \cap F = {}
    /\ C \cap D = {} /\ C \cap E = {} /\ C \cap F = {}
    /\ D \cap E = {} /\ D \cap F = {}
    /\ E \cap F = {}

OnePlace ==
    /\ IsInjective(submissions) /\ IsInjective(pending)
    /\ Range(accepted) = Range(submissions) \cup Range(pending) \cup Held
                            \cup Started \cup handled \cup lost
    /\ Apart(Range(submissions), Range(pending), Held, Started, handled, lost)

\* Six disjoint places, spelled out.
LEMMA SixPlaces ==
    ASSUME NEW A, NEW B, NEW C, NEW D, NEW E, NEW F, NEW P, P = <<A, B, C, D, E, F>>
    PROVE  /\ UNION {P[i] : i \in 1..6} = A \cup B \cup C \cup D \cup E \cup F
           /\ (\A i, j \in 1..6 : i # j => P[i] \cap P[j] = {}) <=> Apart(A, B, C, D, E, F)
  <1>1. 1..6 = {1, 2, 3, 4, 5, 6}
    OBVIOUS
  <1>2. P[1] = A /\ P[2] = B /\ P[3] = C /\ P[4] = D /\ P[5] = E /\ P[6] = F
    OBVIOUS
  <1>3. ASSUME \A i, j \in 1..6 : i # j => P[i] \cap P[j] = {}
        PROVE  Apart(A, B, C, D, E, F)
    BY <1>1, <1>2, <1>3 DEF Apart
  <1>4. ASSUME Apart(A, B, C, D, E, F), NEW i \in 1..6, NEW j \in 1..6, i # j
        PROVE  P[i] \cap P[j] = {}
    BY <1>1, <1>2, <1>4 DEF Apart
  <1>5. UNION {P[i] : i \in 1..6} = A \cup B \cup C \cup D \cup E \cup F
    <2> HIDE DEF Apart
    <2> QED
      BY <1>1, <1>2
  <1> QED
    BY <1>3, <1>4, <1>5

\* ExactlyOnePlace, spelled out,
LEMMA PlacesFlat == ExactlyOnePlace <=> OnePlace
  <1> DEFINE S == Range(submissions)
             Q == Range(pending)
             H == Held
             T == Started
  <1>1. Places = <<S, Q, H, T, handled, lost>>
    BY DEF Places, Started
  <1> HIDE DEF S, Q, H, T
  <1>2. /\ UNION {Places[i] : i \in 1..6} = S \cup Q \cup H \cup T \cup handled \cup lost
        /\ (\A i, j \in 1..6 : i # j => Places[i] \cap Places[j] = {}) <=>
              Apart(S, Q, H, T, handled, lost)
    BY <1>1, SixPlaces
  <1> QED
    BY <1>2 DEF ExactlyOnePlace, OnePlace, S, Q, H, T

\* and the same after a step.
LEMMA PlacesFlatNext == ExactlyOnePlace' <=> OnePlace'
  <1> DEFINE S == Range(submissions)'
             Q == Range(pending)'
             H == Held'
             T == Started'
  <1>1. Places' = <<S, Q, H, T, handled', lost'>>
    BY DEF Places, Started
  <1> HIDE DEF S, Q, H, T
  <1>2. /\ UNION {Places'[i] : i \in 1..6} = S \cup Q \cup H \cup T \cup handled' \cup lost'
        /\ (\A i, j \in 1..6 : i # j => Places'[i] \cap Places'[j] = {}) <=>
              Apart(S, Q, H, T, handled', lost')
    BY <1>1, SixPlaces
  <1> QED
    BY <1>2 DEF ExactlyOnePlace, OnePlace, S, Q, H, T

\* Dispatch keeps the types of all it assigns, for whatever submission it is given.
LEMMA DispatchTyped ==
    ASSUME TypeOK, NEW s \in Sub, Dispatch(s),
           submissions' \in Seq(Sub), pending' \in Seq(Turn),
           getter' \in {"none", "waiting", "done"}, held' \in Sub \cup {NoSub},
           getter' = "done" => held' \in Sub
    PROVE  TypeOK'
  <1> USE SubKindsDisjoint
     DEF TypeOK, Sub, Dispatch, SetTask, TaskStates, AliveStates, LoopStates, stopVars
  <1>1. CASE s \in Abort \cup Steer
    BY <1>1
  <1>2. CASE s \in Turn \cup Shell
    <2>1. s \notin Abort \cup Steer
      BY <1>2
    <2>2. Append(begun, s) \in Seq(Turn \cup Shell)
      BY <1>2
    <2> QED
      BY <1>2, <2>1, <2>2
  <1> QED
    BY <1>1, <1>2

\* Every variable keeps to its range: messages alone wait in _pending, shell
\* commands alone run as auxiliary tasks, and no put overfills the queue.
THEOREM TypeCorrect == Spec => []TypeOK
  <1>1. Init => TypeOK
    BY EventCapPositive DEF Init, TypeOK, NoBatch, LoopStates, TaskStates
  <1>2. TypeOK /\ [Next]_vars => TypeOK'
    <2> SUFFICES ASSUME TypeOK, [Next]_vars PROVE TypeOK'
      OBVIOUS
    <2> USE SubKindsDisjoint, NoSubIsNone, EventCapPositive
        DEF TypeOK, Sub, queueVars, taskVars, loopVars, stopVars, histVars
    <2>1. ASSUME NEW s \in Sub, Submit(s) PROVE TypeOK'
      BY <2>1 DEF Submit
    <2>2. CASE NextEvent
      BY <2>2 DEF NextEvent
    <2>3. CASE GetterTakes
      BY <2>3 DEF GetterTakes
    <2>4. ASSUME NEW s \in Sub, Start(s) PROVE TypeOK'
      BY <2>4 DEF Start, SetTask, TaskStates, AliveStates, EndStates
    <2>5. ASSUME NEW s \in Sub, Emit(s) PROVE TypeOK'
      BY <2>5 DEF Emit, HasRoom, TaskStates, AliveStates, EndStates
    <2>6. ASSUME NEW s \in Sub, Complete(s) PROVE TypeOK'
      BY <2>6 DEF Complete, SetTask, HasRoom, TaskStates, AliveStates, EndStates
    <2>7. ASSUME NEW s \in Sub, Fail(s) PROVE TypeOK'
      BY <2>7 DEF Fail, SetTask, TaskStates, AliveStates, EndStates
    <2>8. ASSUME NEW s \in Sub, Absorb(s) PROVE TypeOK'
      BY <2>8 DEF Absorb, SetTask, TaskStates, AliveStates, EndStates
    <2>9. ASSUME NEW s \in Sub, EndCancelled(s) PROVE TypeOK'
      BY <2>9 DEF EndCancelled, SetTask, HasRoom, TaskStates, AliveStates, EndStates
    <2>10. CASE Exit
      BY <2>10 DEF Exit, LoopStates
    <2>11. CASE GoIdle
      BY <2>11 DEF GoIdle, LoopStates
    <2>12. CASE IdleTimeout
      BY <2>12 DEF IdleTimeout, LoopStates
    <2>13. CASE TakePending
      <3>1. Head(pending) \in Turn /\ Tail(pending) \in Seq(Turn)
        BY <2>13 DEF TakePending
      <3>2. /\ Dispatch(Head(pending)) /\ pending' \in Seq(Turn) /\ submissions' \in Seq(Sub)
            /\ UNCHANGED <<getter, held>>
        BY <2>13, <3>1 DEF TakePending
      <3>3. /\ getter' \in {"none", "waiting", "done"} /\ held' \in Sub \cup {NoSub}
            /\ getter' = "done" => held' \in Sub
        BY <3>2
      <3> HIDE DEF TypeOK
      <3> QED
        BY <3>1, <3>2, <3>3, DispatchTyped
    <2>14. CASE TakeSubmission
      <3>1. Head(submissions) \in Sub /\ Tail(submissions) \in Seq(Sub)
        BY <2>14 DEF TakeSubmission
      <3>2. /\ Dispatch(Head(submissions)) /\ pending' \in Seq(Turn) /\ submissions' \in Seq(Sub)
            /\ UNCHANGED <<getter, held>>
        BY <2>14, <3>1 DEF TakeSubmission
      <3>3. /\ getter' \in {"none", "waiting", "done"} /\ held' \in Sub \cup {NoSub}
            /\ getter' = "done" => held' \in Sub
        BY <3>2
      <3> HIDE DEF TypeOK
      <3> QED
        BY <3>1, <3>2, <3>3, DispatchTyped
    <2>15. CASE EnterWait
      BY <2>15 DEF EnterWait, LoopStates
    <2>16. CASE Wake
      BY <2>16 DEF Wake, Finished, LoopStates
    <2>17. CASE TurnAlreadyCleared
      BY <2>17 DEF TurnAlreadyCleared, CancelGetter, LoopStates
    <2>18. CASE TurnOver
      <3>1. task' \in [Sub -> TaskStates] /\ pc' \in LoopStates
        BY <2>18, CancelledFacts DEF TurnOver, CancelAux, LoopStates
      <3>2. events' \in 0..EventCap
        BY <2>18 DEF TurnOver, HasRoom
      <3>3. getter' \in {"none", "waiting", "done"} /\ (getter' = "done" => held' \in Sub)
        BY <2>18 DEF TurnOver, CancelGetter
      <3>4. batch' \in [turn : BOOLEAN, get : BOOLEAN, aux : SUBSET Shell]
        BY <2>18 DEF TurnOver
      <3> QED
        BY <3>1, <3>2, <3>3, <3>4, <2>18 DEF TurnOver
    <2>19. CASE TurnReportBlocked
      BY <2>19 DEF TurnReportBlocked, LoopStates
    <2>20. CASE TurnReported
      <3>1. task' \in [Sub -> TaskStates] /\ pc' \in LoopStates
        BY <2>20, CancelledFacts DEF TurnReported, CancelAux, LoopStates
      <3> QED
        BY <3>1, <2>20 DEF TurnReported, CancelGetter, HasRoom
    <2>21. CASE GotAbort
      <3>1. task' \in [Sub -> TaskStates] /\ pc' \in LoopStates
        BY <2>21, CancelledFacts DEF GotAbort, CancelAux, LoopStates
      <3> QED
        BY <3>1, <2>21 DEF GotAbort, Got
    <2>22. CASE GotLateAbort
      <3>1. task' \in [Sub -> TaskStates] /\ pc' \in LoopStates
        BY <2>22, CancelledFacts DEF GotLateAbort, CancelAux, LoopStates
      <3> QED
        BY <3>1, <2>22 DEF GotLateAbort, Got
    <2>23. CASE GotSteer
      BY <2>23 DEF GotSteer, Got, LoopStates
    <2>24. CASE GotShell
      BY <2>24 DEF GotShell, Got, SetTask, LoopStates, TaskStates, AliveStates
    <2>25. CASE GotTurn
      <3>1. held \in Turn
        BY <2>25 DEF GotTurn, Got
      <3>2. Append(pending, held) \in Seq(Turn)
        BY <3>1
      <3> QED
        BY <3>2, <2>25 DEF GotTurn, Got
    <2>26. CASE Gathered
      BY <2>26 DEF Gathered, LoopStates
    <2>27. CASE AbortDone
      BY <2>27 DEF AbortDone, HasRoom, LoopStates
    <2>28. CASE NoticePut
      BY <2>28 DEF NoticePut, HasRoom, LoopStates
    <2>29. CASE AuxReported
      BY <2>29 DEF AuxReported, HasRoom, LoopStates
    <2>30. CASE BatchOver
      BY <2>30 DEF BatchOver, LoopStates
    <2>31. CASE StopReaps
      BY <2>31, CancelledFacts DEF StopReaps, LoopStates
    <2>32. CASE StopCancels
      <3>1. task' \in [Sub -> TaskStates] /\ pc' \in LoopStates
        BY <2>32, CancelledFacts DEF StopCancels, LoopStates
      <3>2. reaped' \in SUBSET (Turn \cup Shell) /\ missed' \in Sub \cup {NoSub}
        BY <2>32 DEF StopCancels, Current
      <3> QED
        BY <2>32, <3>1, <3>2 DEF StopCancels
    <2>33. CASE StopDone
      BY <2>33 DEF StopDone, LoopStates
    <2>34. ASSUME NEW s \in Shell, AuxOver(s) PROVE TypeOK'
      BY <2>34 DEF AuxOver, CancelGetter, HasRoom, LoopStates
    <2>36. CASE IdleFetch
      <3>1. Head(submissions) \in Sub /\ Tail(submissions) \in Seq(Sub)
        BY <2>36 DEF IdleFetch
      <3> QED
        BY <2>36, <3>1 DEF IdleFetch, LoopStates
    <2>37. CASE TakeFetched
      <3>1. /\ held \in Sub /\ Dispatch(held) /\ pending' \in Seq(Turn) /\ submissions' \in Seq(Sub)
            /\ getter' = "none" /\ held' \in Sub \cup {NoSub}
        BY <2>37 DEF TakeFetched
      <3> HIDE DEF TypeOK
      <3> QED
        BY <3>1, DispatchTyped
    <2>35. CASE UNCHANGED vars
      BY <2>35 DEF vars
    <2> QED
      BY <2>1, <2>2, <2>3, <2>4, <2>5, <2>6, <2>7, <2>8, <2>9, <2>10, <2>11, <2>12, <2>13,
         <2>14, <2>15, <2>16, <2>17, <2>18, <2>19, <2>20, <2>21, <2>22, <2>23, <2>24, <2>25,
         <2>26, <2>27, <2>28, <2>29, <2>30, <2>31, <2>32, <2>33, <2>34, <2>35, <2>36, <2>37
         DEF Next, Client, TaskStep, Loop, Stop
  <1> QED
    BY <1>1, <1>2, PTL DEF Spec

\* get_task holds a submission exactly when it is done, and none exists
\* while the loop picks the next turn.
THEOREM GetterCorrect == Spec => []GetterHolds
  <1>1. Init => GetterHolds
    BY DEF Init, GetterHolds
  <1>2. TypeOK /\ GetterHolds /\ [Next]_vars => GetterHolds'
    <2> SUFFICES ASSUME TypeOK, GetterHolds, [Next]_vars PROVE GetterHolds'
      OBVIOUS
    <2> USE NoSubIsNone DEF GetterHolds, queueVars, taskVars, loopVars, stopVars, histVars
    <2>1. CASE NextEvent
      BY <2>1 DEF NextEvent
    <2>2. CASE Exit
      BY <2>2 DEF Exit
    <2>3. CASE GoIdle
      BY <2>3 DEF GoIdle
    <2>4. CASE IdleTimeout
      BY <2>4 DEF IdleTimeout
    <2>5. CASE EnterWait
      BY <2>5 DEF EnterWait
    <2>6. CASE Wake
      BY <2>6 DEF Wake
    <2>7. CASE TurnAlreadyCleared
      BY <2>7 DEF TurnAlreadyCleared, CancelGetter
    <2>8. CASE TurnOver
      BY <2>8 DEF TurnOver, CancelGetter, CancelAux
    <2>9. CASE TurnReportBlocked
      BY <2>9 DEF TurnReportBlocked
    <2>10. CASE TurnReported
      BY <2>10 DEF TurnReported, CancelGetter, CancelAux
    <2>11. CASE Gathered
      BY <2>11 DEF Gathered
    <2>12. CASE AbortDone
      BY <2>12 DEF AbortDone
    <2>13. CASE NoticePut
      BY <2>13 DEF NoticePut
    <2>14. CASE AuxReported
      BY <2>14 DEF AuxReported
    <2>15. CASE StopReaps
      BY <2>15 DEF StopReaps
    <2>16. CASE StopCancels
      BY <2>16 DEF StopCancels
    <2>17. CASE StopDone
      BY <2>17 DEF StopDone
    <2>18. CASE GotAbort
      BY <2>18 DEF GotAbort, Got, CancelAux
    <2>19. CASE GotLateAbort
      BY <2>19 DEF GotLateAbort, Got, CancelAux
    <2>20. CASE GotSteer
      BY <2>20 DEF GotSteer, Got
    <2>21. CASE GotShell
      BY <2>21 DEF GotShell, Got
    <2>22. CASE GotTurn
      BY <2>22 DEF GotTurn, Got
    <2>23. CASE BatchOver
      BY <2>23 DEF BatchOver
    <2>24. CASE TakePending
      BY <2>24 DEF TakePending, Dispatch
    <2>25. CASE TakeSubmission
      BY <2>25 DEF TakeSubmission, Dispatch
    <2>26. CASE GetterTakes
      <3>1. Head(submissions) \in Sub
        BY <2>26 DEF GetterTakes, TypeOK
      <3> QED
        BY <2>26, <3>1 DEF GetterTakes
    <2>27. ASSUME NEW s \in Sub, Start(s) PROVE GetterHolds'
      BY <2>27 DEF Start
    <2>28. ASSUME NEW s \in Sub, Emit(s) PROVE GetterHolds'
      BY <2>28 DEF Emit
    <2>29. ASSUME NEW s \in Sub, Complete(s) PROVE GetterHolds'
      BY <2>29 DEF Complete
    <2>30. ASSUME NEW s \in Sub, Fail(s) PROVE GetterHolds'
      BY <2>30 DEF Fail
    <2>31. ASSUME NEW s \in Sub, Absorb(s) PROVE GetterHolds'
      BY <2>31 DEF Absorb
    <2>32. ASSUME NEW s \in Sub, EndCancelled(s) PROVE GetterHolds'
      BY <2>32 DEF EndCancelled
    <2>33. ASSUME NEW s \in Sub, Submit(s) PROVE GetterHolds'
      BY <2>33 DEF Submit
    <2>34. ASSUME NEW s \in Shell, AuxOver(s) PROVE GetterHolds'
      BY <2>34 DEF AuxOver, CancelGetter
    <2>36. CASE IdleFetch
      <3>1. Head(submissions) \in Sub
        BY <2>36 DEF IdleFetch, TypeOK
      <3> QED
        BY <2>36, <3>1 DEF IdleFetch
    <2>37. CASE TakeFetched
      BY <2>37 DEF TakeFetched, Dispatch
    <2>35. CASE UNCHANGED vars
      BY <2>35 DEF vars
    <2> QED
      BY <2>1, <2>2, <2>3, <2>4, <2>5, <2>6, <2>7, <2>8, <2>9, <2>10, <2>11, <2>12, <2>13,
         <2>14, <2>15, <2>16, <2>17, <2>18, <2>19, <2>20, <2>21, <2>22, <2>23, <2>24, <2>25,
         <2>26, <2>27, <2>28, <2>29, <2>30, <2>31, <2>32, <2>33, <2>34, <2>35, <2>36, <2>37
         DEF Next, Client, TaskStep, Loop, Stop
  <1> QED
    BY <1>1, <1>2, TypeCorrect, PTL DEF Spec

\* Every submission is in exactly one place: a submission moves from the
\* queue to get_task, from there or from _pending to a task, and is dropped
\* only where BatchOver forgets what get_task holds.
THEOREM OncePlaced == Spec => []ExactlyOnePlace
  <1>1. Init => OnePlace
    BY DEF Init, OnePlace, Started, Held, Apart, Range, IsInjective
  <1>2. TypeOK /\ GetterHolds /\ OnePlace /\ [Next]_vars => OnePlace'
    <2> SUFFICES ASSUME TypeOK, GetterHolds, OnePlace, [Next]_vars PROVE OnePlace'
      OBVIOUS
    <2> USE NoSubIsNone DEF queueVars, taskVars, loopVars, stopVars, histVars
    <2>a. task \in [Sub -> TaskStates]
      BY DEF TypeOK
    <2>b. ASSUME UNCHANGED <<submissions, pending, held, accepted, handled, lost>>,
                 \A s \in Sub : task'[s] = "none" <=> task[s] = "none"
          PROVE  OnePlace'
      <3>1. Started' = Started /\ Held' = Held
        BY <2>b DEF Started, Held
      <3> QED
        BY <3>1, <2>b DEF OnePlace
    <2>c. ASSUME NEW s \in Sub, Dispatch(s)
          PROVE  /\ \/ handled' = handled \cup {s} /\ Started' = Started
                    \/ handled' = handled /\ Started' = Started \cup {s}
                 /\ accepted' = accepted /\ lost' = lost
      <3>1. CASE s \in Abort \cup Steer
        BY <2>c, <3>1 DEF Dispatch, Started
      <3>2. CASE s \notin Abort \cup Steer
        BY <2>a, <2>c, <3>2 DEF Dispatch, SetTask, Started
      <3> QED
        BY <3>1, <3>2
    <2>1. CASE NextEvent
      BY <2>1, <2>a, <2>b DEF NextEvent
    <2>2. CASE Exit
      BY <2>2, <2>a, <2>b DEF Exit
    <2>3. CASE GoIdle
      BY <2>3, <2>a, <2>b DEF GoIdle
    <2>4. CASE IdleTimeout
      BY <2>4, <2>a, <2>b DEF IdleTimeout
    <2>5. CASE EnterWait
      BY <2>5, <2>a, <2>b DEF EnterWait
    <2>6. CASE Wake
      BY <2>6, <2>a, <2>b DEF Wake
    <2>7. CASE TurnAlreadyCleared
      BY <2>7, <2>a, <2>b DEF TurnAlreadyCleared
    <2>8. CASE TurnOver
      BY <2>8, <2>a, <2>b, CancelledFacts DEF TurnOver, CancelAux
    <2>9. CASE TurnReportBlocked
      BY <2>9, <2>a, <2>b DEF TurnReportBlocked
    <2>10. CASE TurnReported
      BY <2>10, <2>a, <2>b, CancelledFacts DEF TurnReported, CancelAux
    <2>11. CASE Gathered
      BY <2>11, <2>a, <2>b DEF Gathered
    <2>12. CASE AbortDone
      BY <2>12, <2>a, <2>b DEF AbortDone
    <2>13. CASE NoticePut
      BY <2>13, <2>a, <2>b DEF NoticePut
    <2>14. CASE AuxReported
      BY <2>14, <2>a, <2>b DEF AuxReported
    <2>15. CASE StopReaps
      BY <2>15, <2>a, <2>b, CancelledFacts DEF StopReaps
    <2>16. CASE StopCancels
      BY <2>16, <2>a, <2>b, CancelledFacts DEF StopCancels
    <2>17. CASE StopDone
      BY <2>17, <2>a, <2>b DEF StopDone
    <2>18. ASSUME NEW s \in Sub, Start(s) PROVE OnePlace'
      BY <2>18, <2>a, <2>b DEF Start, SetTask
    <2>19. ASSUME NEW s \in Sub, Emit(s) PROVE OnePlace'
      BY <2>19, <2>a, <2>b DEF Emit, SetTask
    <2>20. ASSUME NEW s \in Sub, Complete(s) PROVE OnePlace'
      BY <2>20, <2>a, <2>b DEF Complete, SetTask
    <2>21. ASSUME NEW s \in Sub, Fail(s) PROVE OnePlace'
      BY <2>21, <2>a, <2>b DEF Fail, SetTask
    <2>22. ASSUME NEW s \in Sub, Absorb(s) PROVE OnePlace'
      BY <2>22, <2>a, <2>b DEF Absorb, SetTask
    <2>23. ASSUME NEW s \in Sub, EndCancelled(s) PROVE OnePlace'
      BY <2>23, <2>a, <2>b DEF EndCancelled, SetTask
    <2>24. ASSUME NEW s \in Shell, AuxOver(s) PROVE OnePlace'
      BY <2>24, <2>a, <2>b DEF AuxOver
    <2>25. ASSUME NEW s \in Sub, Submit(s) PROVE OnePlace'
      <3>1. /\ Range(submissions') = Range(submissions) \cup {s}
            /\ IsInjective(submissions) /\ s \notin Range(submissions) => IsInjective(submissions')
            /\ Range(accepted') = Range(accepted) \cup {s}
        BY <2>25, AppendFacts DEF Submit, TypeOK
      <3>2. Started' = Started /\ Held' = Held
        BY <2>25 DEF Submit, Started, Held
      <3> QED
        BY <2>25, <3>1, <3>2 DEF Submit, OnePlace, Apart
    <2>26. CASE GetterTakes
      <3>1. /\ Head(submissions) \in Range(submissions) /\ Head(submissions) \in Sub
            /\ Range(submissions') = Range(submissions) \ {Head(submissions)}
            /\ IsInjective(submissions')
        BY <2>26, TailFacts DEF GetterTakes, TypeOK, OnePlace
      <3>2. Held = {} /\ Held' = {Head(submissions)} /\ Started' = Started
        BY <2>26, <3>1 DEF GetterTakes, GetterHolds, Held, Started
      <3> QED
        BY <2>26, <3>1, <3>2 DEF GetterTakes, OnePlace, Apart
    <2>27. CASE TakePending
      <3>1. /\ Head(pending) \in Range(pending) /\ Head(pending) \in Sub
            /\ Range(pending') = Range(pending) \ {Head(pending)}
            /\ IsInjective(pending') /\ submissions' = submissions
        BY <2>27, TailFacts DEF TakePending, TypeOK, OnePlace, Sub
      <3>2. Dispatch(Head(pending)) /\ Held' = Held
        BY <2>27 DEF TakePending, Held
      <3> QED
        BY <2>c, <3>1, <3>2 DEF OnePlace, Apart
    <2>28. CASE TakeSubmission
      <3>1. /\ Head(submissions) \in Range(submissions) /\ Head(submissions) \in Sub
            /\ Range(submissions') = Range(submissions) \ {Head(submissions)}
            /\ IsInjective(submissions') /\ pending' = pending
        BY <2>28, TailFacts DEF TakeSubmission, TypeOK, OnePlace, Sub
      <3>2. Dispatch(Head(submissions)) /\ Held' = Held
        BY <2>28 DEF TakeSubmission, Held
      <3> QED
        BY <2>c, <3>1, <3>2 DEF OnePlace, Apart
    <2>29. CASE GotAbort
      <3>1. held \in Sub /\ Held = {held} /\ Held' = {}
        BY <2>29 DEF GotAbort, Got, Held, Sub
      <3>2. Started' = Started
        BY <2>29, <2>a, CancelledFacts DEF GotAbort, CancelAux, Started
      <3> QED
        BY <2>29, <3>1, <3>2 DEF GotAbort, OnePlace, Apart
    <2>30. CASE GotLateAbort
      <3>1. held \in Sub /\ Held = {held} /\ Held' = {}
        BY <2>30 DEF GotLateAbort, Got, Held, Sub
      <3>2. Started' = Started
        BY <2>30, <2>a, CancelledFacts DEF GotLateAbort, CancelAux, Started
      <3> QED
        BY <2>30, <3>1, <3>2 DEF GotLateAbort, OnePlace, Apart
    <2>31. CASE GotSteer
      <3>1. held \in Sub /\ Held = {held} /\ Held' = {}
        BY <2>31 DEF GotSteer, Got, Held, Sub
      <3>2. Started' = Started
        BY <2>31, <2>a DEF GotSteer, Started
      <3> QED
        BY <2>31, <3>1, <3>2 DEF GotSteer, OnePlace, Apart
    <2>32. CASE GotShell
      <3>1. held \in Sub /\ Held = {held} /\ Held' = {}
        BY <2>32 DEF GotShell, Got, Held, Sub
      <3>2. Started' = Started \cup {held}
        BY <2>32, <2>a, <3>1 DEF GotShell, SetTask, Started
      <3> QED
        BY <2>32, <3>1, <3>2 DEF GotShell, OnePlace, Apart
    <2>33. CASE GotTurn
      <3>1. held \in Turn /\ Held = {held} /\ Held' = {} /\ Started' = Started
        BY <2>33 DEF GotTurn, Got, Held, Sub, Started
      <3>2. held \notin Range(pending)
        BY <3>1 DEF OnePlace, Apart
      <3>3. Range(pending') = Range(pending) \cup {held} /\ IsInjective(pending')
        BY <2>33, <3>1, <3>2, AppendFacts DEF GotTurn, TypeOK, OnePlace
      <3> QED
        BY <2>33, <3>1, <3>3 DEF GotTurn, OnePlace, Apart
    <2>34. CASE BatchOver
      <3>1. Held' = {} /\ Started' = Started
        BY <2>34 DEF BatchOver, Held, Started
      <3>2. \/ lost' = lost \cup {held} /\ Held = {held}
            \/ lost' = lost /\ Held = {}
        BY <2>34 DEF BatchOver, Held, GetterHolds
      <3> QED
        BY <2>34, <3>1, <3>2 DEF BatchOver, OnePlace, Apart
    <2>36. CASE IdleFetch
      <3>1. /\ Head(submissions) \in Range(submissions) /\ Head(submissions) \in Sub
            /\ Range(submissions') = Range(submissions) \ {Head(submissions)}
            /\ IsInjective(submissions')
        BY <2>36, TailFacts DEF IdleFetch, TypeOK, OnePlace
      <3>2. Held = {} /\ Held' = {Head(submissions)} /\ Started' = Started
        BY <2>36, <3>1 DEF IdleFetch, GetterHolds, Held, Started
      <3> QED
        BY <2>36, <3>1, <3>2 DEF IdleFetch, OnePlace, Apart
    <2>37. CASE TakeFetched
      <3>1. /\ held \in Sub /\ Held = {held} /\ Held' = {}
            /\ UNCHANGED <<submissions, pending>> /\ Dispatch(held)
        BY <2>37 DEF TakeFetched, TypeOK, Held
      <3> QED
        BY <2>c, <3>1 DEF OnePlace, Apart
    <2>35. CASE UNCHANGED vars
      BY <2>35, <2>b DEF vars
    <2> QED
      BY <2>1, <2>2, <2>3, <2>4, <2>5, <2>6, <2>7, <2>8, <2>9, <2>10, <2>11, <2>12, <2>13,
         <2>14, <2>15, <2>16, <2>17, <2>18, <2>19, <2>20, <2>21, <2>22, <2>23, <2>24, <2>25,
         <2>26, <2>27, <2>28, <2>29, <2>30, <2>31, <2>32, <2>33, <2>34, <2>35, <2>36, <2>37
         DEF Next, Client, TaskStep, Loop, Stop
  <1>3. TypeOK /\ GetterHolds /\ ExactlyOnePlace /\ [Next]_vars => ExactlyOnePlace'
    BY <1>2, PlacesFlat, PlacesFlatNext
  <1>4. Init => ExactlyOnePlace
    BY <1>1, PlacesFlat
  <1> QED
    BY <1>3, <1>4, TypeCorrect, GetterCorrect, PTL DEF Spec

Ownership == LiveTasksOwned /\ BatchTruthful /\ LoopLetsGo /\ StopAwaits /\ StopReapsTurns

\* The loop forgets a task only when it is over, so every live task is the
\* active turn or a registered auxiliary task, and stop() leaves no turn but
\* one begun from the submission it missed.
THEOREM OwnershipCorrect == Spec => []Ownership
  <1>1. Init => Ownership
    BY DEF Init, Ownership, LiveTasksOwned, BatchTruthful, LoopLetsGo, StopAwaits,
           StopReapsTurns, Alive,
           AliveStates, NoBatch
  <1>2. TypeOK /\ OnePlace /\ GetterHolds /\ Ownership /\ [Next]_vars => Ownership'
    <2> SUFFICES ASSUME TypeOK, OnePlace, GetterHolds, Ownership, [Next]_vars PROVE Ownership'
      OBVIOUS
    <2> USE SubKindsDisjoint, NoSubIsNone
        DEF Ownership, LiveTasksOwned, BatchTruthful, LoopLetsGo, StopAwaits,
            StopReapsTurns, NoBatch,
            queueVars, taskVars, loopVars, stopVars, histVars
    <2>a. /\ task \in [Sub -> TaskStates] /\ aux \subseteq Shell /\ active \in Turn \cup Shell \cup {NoSub}
          /\ batch \in [turn : BOOLEAN, get : BOOLEAN, aux : SUBSET Shell]
          /\ watched \subseteq Shell /\ Turn \subseteq Sub /\ Shell \subseteq Sub
      BY DEF TypeOK, Sub
    <2> USE <2>a DEF Alive, Ended
    <2>1. CASE NextEvent
      BY <2>1 DEF NextEvent, AliveStates, EndStates
    <2>2. CASE Exit
      BY <2>2 DEF Exit, AliveStates, EndStates
    <2>3. CASE GoIdle
      BY <2>3 DEF GoIdle, AliveStates, EndStates
    <2>4. CASE IdleTimeout
      BY <2>4 DEF IdleTimeout, AliveStates, EndStates
    <2>5. CASE EnterWait
      BY <2>5 DEF EnterWait, AliveStates, EndStates
    <2>6. CASE Wake
      BY <2>6 DEF Wake, Finished, AliveStates, EndStates
    <2>7. CASE TurnAlreadyCleared
      BY <2>7 DEF TurnAlreadyCleared, CancelGetter, AliveStates, EndStates
    <2>8. CASE TurnOver
      BY <2>8, CancelledFacts DEF TurnOver, CancelAux, AliveStates, EndStates
    <2>9. CASE TurnReportBlocked
      BY <2>9 DEF TurnReportBlocked, AliveStates, EndStates
    <2>10. CASE TurnReported
      BY <2>10, CancelledFacts DEF TurnReported, CancelAux, AliveStates, EndStates
    <2>11. CASE GotAbort
      BY <2>11, CancelledFacts DEF GotAbort, Got, CancelAux, AliveStates, EndStates
    <2>12. CASE GotLateAbort
      BY <2>12, CancelledFacts DEF GotLateAbort, Got, CancelAux, AliveStates, EndStates
    <2>13. CASE GotSteer
      BY <2>13 DEF GotSteer, Got, AliveStates, EndStates
    <2>14. CASE GotTurn
      BY <2>14 DEF GotTurn, Got, AliveStates, EndStates
    <2>15. CASE Gathered
      BY <2>15 DEF Gathered, AliveStates, EndStates
    <2>16. CASE AbortDone
      BY <2>16 DEF AbortDone, AliveStates, EndStates
    <2>17. CASE NoticePut
      BY <2>17 DEF NoticePut, AliveStates, EndStates
    <2>18. CASE AuxReported
      BY <2>18 DEF AuxReported, AliveStates, EndStates
    <2>19. CASE BatchOver
      BY <2>19 DEF BatchOver, AliveStates, EndStates
    <2>20. CASE GetterTakes
      BY <2>20 DEF GetterTakes, GetterHolds, AliveStates, EndStates
    <2>21. CASE StopReaps
      BY <2>21, CancelledFacts DEF StopReaps, AliveStates, EndStates
    <2>22. CASE StopCancels
      <3> DEFINE S == Current \cup (IF pc \in {"turnGather", "abortGather"} THEN aux ELSE {})
      <3>1. /\ task' = Cancelled(S) /\ stop' = "cancelled" /\ aux' = aux \ reaped
            /\ stop \in {"run", "reaping"}
            /\ aux = {} \/ \A s \in reaped : Ended(s)
            /\ \/ pc' = pc /\ pc \in {"abortAwait", "turnGather", "abortGather", "fetched"}
               \/ pc' = "exited"
            /\ reaped' = {s \in Current : Alive(s)}
            /\ missed' = IF pc = "fetched" THEN held ELSE NoSub
            /\ UNCHANGED <<active, held, batch, python, pending>>
        <4>1. UNCHANGED <<active, held, batch, python, pending>>
          BY <2>22 DEF StopCancels
        <4>2. \/ pc' = pc /\ pc \in {"abortAwait", "turnGather", "abortGather", "fetched"}
              \/ pc' = "exited"
          BY <2>22 DEF StopCancels
        <4> HIDE DEF LiveTasksOwned, BatchTruthful, LoopLetsGo, StopAwaits
        <4> QED
          BY <2>22, <4>1, <4>2 DEF StopCancels, S
      <3> HIDE DEF S
      <3>2. /\ \A s \in Sub : task'[s] \in AliveStates => Alive(s)
            /\ \A s \in Sub : Ended(s) => task'[s] = task[s]
            /\ \A s \in Sub : task'[s] = "none" <=> task[s] = "none"
        BY <3>1, CancelledFacts
      <3>3. LiveTasksOwned'
        BY <3>1, <3>2 DEF AliveStates, EndStates
      <3>4. BatchTruthful' /\ LoopLetsGo' /\ StopReapsTurns'
        BY <3>1, <3>2 DEF EndStates
      <3>5. StopAwaits'
        BY <3>1, <3>2 DEF Current
      <3> QED
        BY <3>3, <3>4, <3>5
    <2>23. CASE StopDone
      BY <2>23 DEF StopDone, AliveStates, EndStates
    <2>24. ASSUME NEW s \in Sub, Start(s) PROVE Ownership'
      BY <2>24 DEF Start, SetTask, AliveStates, EndStates
    <2>25. ASSUME NEW s \in Sub, Emit(s) PROVE Ownership'
      BY <2>25 DEF Emit, SetTask, AliveStates, EndStates
    <2>26. ASSUME NEW s \in Sub, Complete(s) PROVE Ownership'
      BY <2>26 DEF Complete, SetTask, AliveStates, EndStates
    <2>27. ASSUME NEW s \in Sub, Fail(s) PROVE Ownership'
      BY <2>27 DEF Fail, SetTask, AliveStates, EndStates
    <2>28. ASSUME NEW s \in Sub, Absorb(s) PROVE Ownership'
      BY <2>28 DEF Absorb, SetTask, AliveStates, EndStates
    <2>29. ASSUME NEW s \in Sub, EndCancelled(s) PROVE Ownership'
      BY <2>29 DEF EndCancelled, SetTask, AliveStates, EndStates
    <2>30. ASSUME NEW s \in Sub, Submit(s) PROVE Ownership'
      BY <2>30 DEF Submit
    <2>31. ASSUME NEW s \in Shell, AuxOver(s) PROVE Ownership'
      BY <2>31 DEF AuxOver, AliveStates, EndStates
    <2>32. CASE GotShell
      <3>1. held \in Shell /\ task[held] = "none"
        BY <2>32 DEF GotShell, Got, OnePlace, Apart, Held, Started
      <3> QED
        BY <2>32, <3>1 DEF GotShell, Got, SetTask, TaskStates, AliveStates, EndStates
    <2>33. CASE TakePending
      <3>1. /\ Head(pending) \in Sub /\ active = NoSub /\ batch = NoBatch
            /\ stop \notin {"cancelled", "stopped"}
        BY <2>33 DEF TakePending, TypeOK, Sub
      <3>2. Dispatch(Head(pending))
        BY <2>33 DEF TakePending
      <3> QED
        BY <3>1, <3>2 DEF Dispatch, SetTask, AliveStates, EndStates
    <2>34. CASE TakeSubmission
      <3>1. /\ Head(submissions) \in Sub /\ active = NoSub /\ batch = NoBatch
            /\ stop \notin {"cancelled", "stopped"}
        BY <2>34 DEF TakeSubmission, TypeOK, Sub
      <3>2. Dispatch(Head(submissions))
        BY <2>34 DEF TakeSubmission
      <3> QED
        BY <3>1, <3>2 DEF Dispatch, SetTask, AliveStates, EndStates
    <2>36. CASE IdleFetch
      BY <2>36 DEF IdleFetch, AliveStates, EndStates
    <2>37. CASE TakeFetched
      <3>1. /\ held \in Sub /\ active = NoSub /\ batch = NoBatch /\ stop # "stopped"
            /\ python = "3.11" /\ (stop = "cancelled" => held = missed)
            /\ stop' = stop /\ missed' = missed /\ python' = python
        BY <2>37 DEF TakeFetched, TypeOK, Dispatch
      <3>2. Dispatch(held)
        BY <2>37 DEF TakeFetched
      <3> QED
        BY <3>1, <3>2 DEF Dispatch, SetTask, AliveStates, EndStates
    <2>35. CASE UNCHANGED vars
      BY <2>35 DEF vars
    <2> QED
      BY <2>1, <2>2, <2>3, <2>4, <2>5, <2>6, <2>7, <2>8, <2>9, <2>10, <2>11, <2>12, <2>13,
         <2>14, <2>15, <2>16, <2>17, <2>18, <2>19, <2>20, <2>21, <2>22, <2>23, <2>24, <2>25,
         <2>26, <2>27, <2>28, <2>29, <2>30, <2>31, <2>32, <2>33, <2>34, <2>35, <2>36, <2>37
         DEF Next, Client, TaskStep, Loop, Stop
  <1>3. TypeOK /\ ExactlyOnePlace /\ GetterHolds /\ Ownership /\ [Next]_vars => Ownership'
    BY <1>2, PlacesFlat
  <1> QED
    BY <1>1, <1>3, TypeCorrect, OncePlaced, GetterCorrect, PTL DEF Spec

\* A live task is always the active turn or a registered auxiliary task.
THEOREM LiveTasksAreOwned == Spec => []LiveTasksOwned
  BY OwnershipCorrect, PTL DEF Ownership

\* No turn is alive once stop() has returned, except under Python 3.11 the
\* one begun from the submission that the idle wait had fetched when stop()
\* cancelled the loop.
THEOREM StopReaps_Turns == Spec => []StopReapsTurns
  BY OwnershipCorrect, PTL DEF Ownership

\* What comes last comes after all that were there.
LEMMA BeforeAppend ==
    ASSUME NEW S, NEW q \in Seq(S), NEW x \in S
    PROVE  /\ \A r, s : Before(q, r, s) => Before(Append(q, x), r, s)
           /\ \A r \in Range(q) : Before(Append(q, x), r, x)
  <1>1. /\ DOMAIN q = 1..Len(q) /\ DOMAIN Append(q, x) = 1..(Len(q) + 1) /\ Len(q) \in Nat
        /\ Append(q, x)[Len(q) + 1] = x
        /\ \A i \in 1..Len(q) : Append(q, x)[i] = q[i]
    OBVIOUS
  <1>2. ASSUME NEW r, NEW s, Before(q, r, s) PROVE Before(Append(q, x), r, s)
    BY <1>1, <1>2 DEF Before
  <1>3. ASSUME NEW r \in Range(q) PROVE Before(Append(q, x), r, x)
    <2>1. PICK i \in 1..Len(q) : q[i] = r
      BY <1>1 DEF Range
    <2>2. i \in DOMAIN Append(q, x) /\ Len(q) + 1 \in DOMAIN Append(q, x) /\ i < Len(q) + 1
      BY <1>1
    <2> QED
      BY <1>1, <2>1, <2>2 DEF Before
  <1> QED
    BY <1>2, <1>3

\* A list stays in the order of another when what joins it comes after all of it.
LEMMA InOrderAppend ==
    ASSUME NEW S, NEW p \in Seq(S), NEW x \in S, NEW q,
           InOrder(q, p), Precede(q, Range(p), {x})
    PROVE  InOrder(q, Append(p, x))
  <1>1. /\ DOMAIN p = 1..Len(p) /\ DOMAIN Append(p, x) = 1..(Len(p) + 1) /\ Len(p) \in Nat
        /\ Append(p, x)[Len(p) + 1] = x
        /\ \A i \in 1..Len(p) : Append(p, x)[i] = p[i]
    OBVIOUS
  <1>2. SUFFICES ASSUME NEW i \in 1..(Len(p) + 1), NEW j \in 1..(Len(p) + 1), i < j
                 PROVE  Before(q, Append(p, x)[i], Append(p, x)[j])
    BY <1>1 DEF InOrder
  <1>3. i \in 1..Len(p)
    BY <1>1, <1>2
  <1>4. CASE j \in 1..Len(p)
    BY <1>1, <1>2, <1>3, <1>4 DEF InOrder
  <1>5. CASE j = Len(p) + 1
    BY <1>1, <1>3, <1>5 DEF Precede, Range
  <1> QED
    BY <1>1, <1>4, <1>5

\* The head of a list in order comes before its tail, which is in order.
LEMMA InOrderTail ==
    ASSUME NEW S, NEW p \in Seq(S), p # <<>>, NEW q, InOrder(q, p)
    PROVE  /\ InOrder(q, Tail(p)) /\ Precede(q, {Head(p)}, Range(Tail(p)))
           /\ Head(p) \in Range(p) /\ Range(Tail(p)) \subseteq Range(p)
  <1>1. /\ Len(p) \in Nat \ {0} /\ DOMAIN p = 1..Len(p) /\ DOMAIN Tail(p) = 1..(Len(p) - 1)
        /\ Head(p) = p[1] /\ 1 \in 1..Len(p)
        /\ \A i \in 1..(Len(p) - 1) : Tail(p)[i] = p[i + 1] /\ i + 1 \in 1..Len(p) /\ 1 < i + 1
    OBVIOUS
  <1>2. InOrder(q, Tail(p))
    <2> SUFFICES ASSUME NEW i \in 1..(Len(p) - 1), NEW j \in 1..(Len(p) - 1), i < j
                 PROVE  Before(q, Tail(p)[i], Tail(p)[j])
      BY <1>1 DEF InOrder
    <2>1. i + 1 < j + 1
      OBVIOUS
    <2> QED
      BY <1>1, <2>1 DEF InOrder
  <1>3. Precede(q, {Head(p)}, Range(Tail(p)))
    BY <1>1 DEF Precede, Range, InOrder
  <1>4. Head(p) \in Range(p) /\ Range(Tail(p)) \subseteq Range(p)
    BY <1>1 DEF Range
  <1> QED
    BY <1>2, <1>3, <1>4

\* Turns begun, messages pending, the submission held and the queue form one
\* line in the order of submit(), so turns begin in that order.
THEOREM LineCorrect == Spec => []OneLine
  <1>1. Init => OneLine
    BY DEF Init, OneLine, InOrder, Precede, Held, Range
  <1>2. TypeOK /\ OnePlace /\ GetterHolds /\ LoopLetsGo /\ OneLine /\ [Next]_vars => OneLine'
    <2> SUFFICES ASSUME TypeOK, OnePlace, GetterHolds, LoopLetsGo, OneLine, [Next]_vars
                 PROVE  OneLine'
      OBVIOUS
    <2> USE NoSubIsNone DEF queueVars, taskVars, loopVars, stopVars, histVars
    <2>a. /\ submissions \in Seq(Sub) /\ pending \in Seq(Turn) /\ accepted \in Seq(Sub)
          /\ begun \in Seq(Turn \cup Shell)
      BY DEF TypeOK
    <2>b. ASSUME UNCHANGED <<submissions, pending, accepted, begun>>,
                 Held' \subseteq Held, active' \in {active, NoSub}
          PROVE  OneLine'
      BY <2>b DEF OneLine, Precede
    <2>c. ASSUME NEW s \in Sub, Dispatch(s), Held' = {},
                 InOrder(accepted, submissions'), InOrder(accepted, pending'),
                 Range(submissions') \subseteq Range(submissions),
                 Range(pending') \subseteq Range(pending),
                 Precede(accepted, {s}, Range(pending') \cup Range(submissions')),
                 s \in Range(pending) \cup Held \cup Range(submissions)
          PROVE  OneLine'
      <3>1. Held' = {} /\ accepted' = accepted
        BY <2>c DEF Dispatch
      <3>2. CASE s \in Abort \cup Steer
        <4>1. begun' = begun /\ active' = active
          BY <2>c, <3>2 DEF Dispatch
        <4> QED
          BY <2>c, <3>1, <4>1 DEF OneLine, Precede
      <3>3. CASE s \notin Abort \cup Steer
        <4>1. begun' = Append(begun, s) /\ active' = s /\ s \in Turn \cup Shell
          BY <2>c, <3>3 DEF Dispatch, Sub
        <4>2. Range(begun') = Range(begun) \cup {s}
          BY <2>a, <4>1, AppendFacts
        <4>3. InOrder(accepted, begun')
          <5>1. Precede(accepted, Range(begun), {s})
            BY <2>c DEF OneLine, Precede
          <5> QED
            BY <2>a, <4>1, <5>1, InOrderAppend DEF OneLine
        <4>4. s \in Range(accepted)
          BY <2>c DEF OnePlace
        <4>5. Precede(accepted, Range(begun'), Range(pending') \cup Range(submissions'))
          BY <2>c, <4>2 DEF OneLine, Precede
        <4>6. Precede(accepted, Range(pending'), Range(submissions'))
          BY <2>c DEF OneLine, Precede
        <4>7. Precede(accepted, {}, Range(submissions'))
          BY DEF Precede
        <4>8. Range(begun') \subseteq Range(accepted) /\ active' \in Range(begun')
          BY <4>1, <4>2, <4>4 DEF OneLine
        <4> QED
          BY <2>c, <3>1, <4>3, <4>5, <4>6, <4>7, <4>8 DEF OneLine
      <3> QED
        BY <3>2, <3>3
    <2>1. CASE NextEvent
      BY <2>1, <2>b DEF NextEvent, Held
    <2>2. CASE Exit
      BY <2>2, <2>b DEF Exit, Held
    <2>3. CASE GoIdle
      BY <2>3, <2>b DEF GoIdle, Held
    <2>4. CASE IdleTimeout
      BY <2>4, <2>b DEF IdleTimeout, Held
    <2>5. CASE EnterWait
      BY <2>5, <2>b DEF EnterWait, Held
    <2>6. CASE Wake
      BY <2>6, <2>b DEF Wake, Held
    <2>7. CASE TurnAlreadyCleared
      BY <2>7, <2>b DEF TurnAlreadyCleared, Held
    <2>8. CASE TurnOver
      BY <2>8, <2>b DEF TurnOver, Held
    <2>9. CASE TurnReportBlocked
      BY <2>9, <2>b DEF TurnReportBlocked, Held
    <2>10. CASE TurnReported
      BY <2>10, <2>b DEF TurnReported, Held
    <2>11. CASE GotAbort
      BY <2>11, <2>b DEF GotAbort, Held, Got
    <2>12. CASE GotLateAbort
      BY <2>12, <2>b DEF GotLateAbort, Held, Got
    <2>13. CASE GotSteer
      BY <2>13, <2>b DEF GotSteer, Held, Got
    <2>14. CASE GotShell
      BY <2>14, <2>b DEF GotShell, Held, Got
    <2>15. CASE Gathered
      BY <2>15, <2>b DEF Gathered, Held
    <2>16. CASE AbortDone
      BY <2>16, <2>b DEF AbortDone, Held
    <2>17. CASE NoticePut
      BY <2>17, <2>b DEF NoticePut, Held
    <2>18. CASE AuxReported
      BY <2>18, <2>b DEF AuxReported, Held
    <2>19. CASE BatchOver
      BY <2>19, <2>b DEF BatchOver, Held
    <2>20. CASE StopReaps
      BY <2>20, <2>b DEF StopReaps, Held
    <2>21. CASE StopCancels
      BY <2>21, <2>b DEF StopCancels, Held
    <2>22. CASE StopDone
      BY <2>22, <2>b DEF StopDone, Held
    <2>23. ASSUME NEW s \in Sub, Start(s) PROVE OneLine'
      BY <2>23, <2>b DEF Start, Held
    <2>24. ASSUME NEW s \in Sub, Emit(s) PROVE OneLine'
      BY <2>24, <2>b DEF Emit, Held
    <2>25. ASSUME NEW s \in Sub, Complete(s) PROVE OneLine'
      BY <2>25, <2>b DEF Complete, Held
    <2>26. ASSUME NEW s \in Sub, Fail(s) PROVE OneLine'
      BY <2>26, <2>b DEF Fail, Held
    <2>27. ASSUME NEW s \in Sub, Absorb(s) PROVE OneLine'
      BY <2>27, <2>b DEF Absorb, Held
    <2>28. ASSUME NEW s \in Sub, EndCancelled(s) PROVE OneLine'
      BY <2>28, <2>b DEF EndCancelled, Held
    <2>29. ASSUME NEW s \in Shell, AuxOver(s) PROVE OneLine'
      BY <2>29, <2>b DEF AuxOver, Held
    <2>30. ASSUME NEW s \in Sub, Submit(s) PROVE OneLine'
      <3>1. /\ submissions' = Append(submissions, s) /\ accepted' = Append(accepted, s)
            /\ UNCHANGED <<pending, begun, active>> /\ Held' = Held
        BY <2>30 DEF Submit, Held
      <3>2. /\ \A r, t : Before(accepted, r, t) => Before(accepted', r, t)
            /\ \A r \in Range(accepted) : Before(accepted', r, s)
        BY <2>a, <3>1, BeforeAppend
      <3>3. Range(submissions') = Range(submissions) \cup {s} /\ Range(accepted') = Range(accepted) \cup {s}
        BY <2>a, <3>1, AppendFacts
      <3>4. Range(submissions) \cup Range(pending) \cup Held \cup Range(begun) \subseteq Range(accepted)
        BY DEF OnePlace, OneLine
      <3>5. InOrder(accepted', submissions) /\ InOrder(accepted', pending) /\ InOrder(accepted', begun)
        BY <3>2 DEF OneLine, InOrder
      <3>6. InOrder(accepted', submissions')
        <4>1. Precede(accepted', Range(submissions), {s})
          BY <3>2, <3>4 DEF Precede
        <4> QED
          BY <2>a, <3>1, <3>5, <4>1, InOrderAppend
      <3>7. /\ Precede(accepted', Range(begun), Range(pending) \cup Held \cup Range(submissions'))
            /\ Precede(accepted', Range(pending), Held \cup Range(submissions'))
            /\ Precede(accepted', Held, Range(submissions'))
        BY <3>2, <3>3, <3>4 DEF OneLine, Precede
      <3> QED
        BY <3>1, <3>3, <3>5, <3>6, <3>7 DEF OneLine
    <2>31. CASE GetterTakes
      <3>1. /\ submissions # <<>> /\ submissions' = Tail(submissions)
            /\ UNCHANGED <<pending, begun, active, accepted>>
        BY <2>31 DEF GetterTakes
      <3>2. Held = {} /\ Held' \subseteq {Head(submissions)}
        BY <2>31 DEF GetterTakes, GetterHolds, Held
      <3>3. /\ InOrder(accepted, submissions')
            /\ Precede(accepted, {Head(submissions)}, Range(submissions'))
            /\ Head(submissions) \in Range(submissions)
            /\ Range(submissions') \subseteq Range(submissions)
        BY <2>a, <3>1, InOrderTail DEF OneLine
      <3> QED
        BY <3>1, <3>2, <3>3 DEF OneLine, Precede
    <2>32. CASE TakePending
      <3>1. /\ pending # <<>> /\ pending' = Tail(pending) /\ Dispatch(Head(pending))
            /\ UNCHANGED submissions /\ Held' = {}
        BY <2>32 DEF TakePending, GetterHolds, LoopLetsGo, Held
      <3>2. Head(pending) \in Sub
        BY <2>a, <3>1 DEF Sub
      <3>3. /\ InOrder(accepted, pending')
            /\ Precede(accepted, {Head(pending)}, Range(pending'))
            /\ Head(pending) \in Range(pending)
            /\ Range(pending') \subseteq Range(pending)
        BY <2>a, <3>1, InOrderTail DEF OneLine
      <3>4. Precede(accepted, {Head(pending)}, Range(pending') \cup Range(submissions'))
        BY <3>1, <3>3 DEF OneLine, Precede, Range
      <3> QED
        BY <2>c, <3>1, <3>2, <3>3, <3>4 DEF OneLine
    <2>33. CASE TakeSubmission
      <3>1. /\ submissions # <<>> /\ submissions' = Tail(submissions) /\ Dispatch(Head(submissions))
            /\ UNCHANGED pending /\ pending = <<>> /\ Held' = {}
        BY <2>33 DEF TakeSubmission, GetterHolds, LoopLetsGo, Held
      <3>2. Head(submissions) \in Sub
        BY <2>a, <3>1 DEF Sub
      <3>3. /\ InOrder(accepted, submissions')
            /\ Precede(accepted, {Head(submissions)}, Range(submissions'))
            /\ Head(submissions) \in Range(submissions)
            /\ Range(submissions') \subseteq Range(submissions)
        BY <2>a, <3>1, InOrderTail DEF OneLine
      <3>4. Precede(accepted, {Head(submissions)}, Range(pending') \cup Range(submissions'))
        BY <3>1, <3>3 DEF OneLine, Precede, Range
      <3> QED
        BY <2>c, <3>1, <3>2, <3>3, <3>4 DEF OneLine
    <2>34. CASE GotTurn
      <3>1. /\ held \in Turn /\ Held = {held} /\ Held' = {}
            /\ pending' = Append(pending, held) /\ UNCHANGED <<submissions, accepted, begun, active>>
        BY <2>34 DEF GotTurn, Got, Held, Sub
      <3>2. Range(pending') = Range(pending) \cup {held}
        BY <2>a, <3>1, AppendFacts
      <3>3. InOrder(accepted, pending')
        <4>1. Precede(accepted, Range(pending), {held})
          BY <3>1 DEF OneLine, Precede
        <4> QED
          BY <2>a, <3>1, <4>1, InOrderAppend DEF OneLine
      <3> QED
        BY <3>1, <3>2, <3>3 DEF OneLine, Precede
    <2>36. CASE IdleFetch
      <3>1. /\ submissions # <<>> /\ submissions' = Tail(submissions)
            /\ UNCHANGED <<pending, begun, active, accepted>>
        BY <2>36 DEF IdleFetch
      <3>2. Held = {} /\ Held' \subseteq {Head(submissions)}
        BY <2>36 DEF IdleFetch, GetterHolds, Held
      <3>3. /\ InOrder(accepted, submissions')
            /\ Precede(accepted, {Head(submissions)}, Range(submissions'))
            /\ Head(submissions) \in Range(submissions)
            /\ Range(submissions') \subseteq Range(submissions)
        BY <2>a, <3>1, InOrderTail DEF OneLine
      <3> QED
        BY <3>1, <3>2, <3>3 DEF OneLine, Precede
    <2>37. CASE TakeFetched
      <3>1. /\ held \in Sub /\ Held = {held} /\ Held' = {} /\ pending = <<>>
            /\ UNCHANGED <<submissions, pending>> /\ Dispatch(held)
        BY <2>37 DEF TakeFetched, TypeOK, LoopLetsGo, Held
      <3>2. Precede(accepted, {held}, Range(pending') \cup Range(submissions'))
        BY <3>1 DEF OneLine, Precede, Range
      <3> QED
        BY <2>c, <3>1, <3>2 DEF OneLine
    <2>35. CASE UNCHANGED vars
      BY <2>35, <2>b DEF vars, Held
    <2> QED
      BY <2>1, <2>2, <2>3, <2>4, <2>5, <2>6, <2>7, <2>8, <2>9, <2>10, <2>11, <2>12, <2>13,
         <2>14, <2>15, <2>16, <2>17, <2>18, <2>19, <2>20, <2>21, <2>22, <2>23, <2>24, <2>25,
         <2>26, <2>27, <2>28, <2>29, <2>30, <2>31, <2>32, <2>33, <2>34, <2>35, <2>36, <2>37
         DEF Next, Client, TaskStep, Loop, Stop
  <1>3. TypeOK /\ ExactlyOnePlace /\ GetterHolds /\ Ownership /\ OneLine /\ [Next]_vars => OneLine'
    BY <1>2, PlacesFlat DEF Ownership
  <1> QED
    BY <1>1, <1>3, TypeCorrect, OncePlaced, GetterCorrect, OwnershipCorrect, PTL DEF Spec

\* Turns begin in the order in which their submissions were accepted.
THEOREM FirstComeFirstServed == Spec => []TurnsBeginInOrder
  <1>1. OneLine => TurnsBeginInOrder
    BY DEF OneLine, TurnsBeginInOrder
  <1> QED
    BY <1>1, LineCorrect, PTL

CancelStates == {"cancelling", "killed", "cancelled", "unstarted"}

\* An AbortTurn reaches only a turn submitted before it, and one turn only:
\* the turn it finds active began before it was taken off the queue.
THEOREM AbortsCorrect == Spec => [](AbortsHitEarlierTurn /\ AbortersHandled)
  <1> DEFINE AbortInv == AbortsHitEarlierTurn /\ AbortersHandled
  <1>1. Init => AbortInv
    BY SubKindsDisjoint DEF Init, AbortsHitEarlierTurn, AbortersHandled, Sub
  <1>2. TypeOK /\ OnePlace /\ OneLine /\ AbortInv /\ [Next]_vars => AbortInv'
    <2> SUFFICES ASSUME TypeOK, OnePlace, OneLine, AbortInv, [Next]_vars PROVE AbortInv'
      OBVIOUS
    <2> USE SubKindsDisjoint, NoSubIsNone DEF queueVars, taskVars, loopVars, stopVars, histVars
    <2>a. /\ task \in [Sub -> TaskStates] /\ aux \subseteq Shell /\ Turn \subseteq Sub
          /\ abortedBy \in [Sub -> Abort \cup {NoSub}] /\ accepted \in Seq(Sub)
          /\ active \in Turn \cup Shell \cup {NoSub}
      BY DEF TypeOK, Sub
    <2>b. ASSUME UNCHANGED <<abortedBy, accepted>>, handled \subseteq handled',
                 stop \in {"cancelled", "stopped"} => stop' \in {"cancelled", "stopped"},
                 \A t \in Turn : task'[t] \in CancelStates =>
                     task[t] \in CancelStates \/ stop' \in {"cancelled", "stopped"}
          PROVE  AbortInv'
      BY <2>b DEF AbortsHitEarlierTurn, AbortersHandled, CancelStates
    <2>c. ASSUME NEW S, NEW t \in Turn, t \notin S PROVE Cancelled(S)[t] = task[t]
      BY <2>a, <2>c DEF Cancelled
    <2>1. CASE NextEvent
      BY <2>1, <2>a, <2>b DEF NextEvent, CancelStates
    <2>2. CASE Exit
      BY <2>2, <2>a, <2>b DEF Exit, CancelStates
    <2>3. CASE GoIdle
      BY <2>3, <2>a, <2>b DEF GoIdle, CancelStates
    <2>4. CASE IdleTimeout
      BY <2>4, <2>a, <2>b DEF IdleTimeout, CancelStates
    <2>5. CASE EnterWait
      BY <2>5, <2>a, <2>b DEF EnterWait, CancelStates
    <2>6. CASE Wake
      BY <2>6, <2>a, <2>b DEF Wake, CancelStates
    <2>7. CASE TurnAlreadyCleared
      BY <2>7, <2>a, <2>b DEF TurnAlreadyCleared, CancelStates
    <2>8. CASE TurnOver
      BY <2>8, <2>a, <2>b, <2>c DEF TurnOver, CancelAux, CancelStates
    <2>9. CASE TurnReportBlocked
      BY <2>9, <2>a, <2>b DEF TurnReportBlocked, CancelStates
    <2>10. CASE TurnReported
      BY <2>10, <2>a, <2>b, <2>c DEF TurnReported, CancelAux, CancelStates
    <2>11. CASE GotLateAbort
      BY <2>11, <2>a, <2>b, <2>c DEF GotLateAbort, Got, CancelAux, CancelStates
    <2>12. CASE GotSteer
      BY <2>12, <2>a, <2>b DEF GotSteer, Got, CancelStates
    <2>13. CASE GotShell
      BY <2>13, <2>a, <2>b DEF GotShell, Got, SetTask, CancelStates
    <2>14. CASE GotTurn
      BY <2>14, <2>a, <2>b DEF GotTurn, Got, CancelStates
    <2>15. CASE Gathered
      BY <2>15, <2>a, <2>b DEF Gathered, CancelStates
    <2>16. CASE AbortDone
      BY <2>16, <2>a, <2>b DEF AbortDone, CancelStates
    <2>17. CASE NoticePut
      BY <2>17, <2>a, <2>b DEF NoticePut, CancelStates
    <2>18. CASE AuxReported
      BY <2>18, <2>a, <2>b DEF AuxReported, CancelStates
    <2>19. CASE BatchOver
      BY <2>19, <2>a, <2>b DEF BatchOver, CancelStates
    <2>20. CASE GetterTakes
      BY <2>20, <2>a, <2>b DEF GetterTakes, CancelStates
    <2>21. CASE StopReaps
      BY <2>21, <2>a, <2>b, <2>c DEF StopReaps, CancelStates
    <2>22. CASE StopCancels
      BY <2>22, <2>a, <2>b, <2>c DEF StopCancels, CancelStates
    <2>23. CASE StopDone
      BY <2>23, <2>a, <2>b DEF StopDone, CancelStates
    <2>24. ASSUME NEW s \in Sub, Start(s) PROVE AbortInv'
      BY <2>24, <2>a, <2>b DEF Start, SetTask, CancelStates
    <2>25. ASSUME NEW s \in Sub, Emit(s) PROVE AbortInv'
      BY <2>25, <2>a, <2>b DEF Emit, SetTask, CancelStates
    <2>26. ASSUME NEW s \in Sub, Complete(s) PROVE AbortInv'
      BY <2>26, <2>a, <2>b DEF Complete, SetTask, CancelStates
    <2>27. ASSUME NEW s \in Sub, Fail(s) PROVE AbortInv'
      BY <2>27, <2>a, <2>b DEF Fail, SetTask, CancelStates
    <2>28. ASSUME NEW s \in Sub, Absorb(s) PROVE AbortInv'
      BY <2>28, <2>a, <2>b DEF Absorb, SetTask, CancelStates
    <2>29. ASSUME NEW s \in Sub, EndCancelled(s) PROVE AbortInv'
      BY <2>29, <2>a, <2>b DEF EndCancelled, SetTask, CancelStates
    <2>30. ASSUME NEW s \in Shell, AuxOver(s) PROVE AbortInv'
      BY <2>30, <2>b DEF AuxOver
    <2>31. CASE TakePending
      <3>1. Dispatch(Head(pending)) /\ stop' = stop
        BY <2>31 DEF TakePending, Dispatch
      <3>2. \A t \in Turn : task'[t] \in CancelStates => task[t] \in CancelStates
        BY <2>a, <3>1 DEF Dispatch, SetTask, CancelStates
      <3> QED
        BY <2>b, <3>1, <3>2 DEF Dispatch
    <2>32. CASE TakeSubmission
      <3>1. Dispatch(Head(submissions)) /\ stop' = stop
        BY <2>32 DEF TakeSubmission, Dispatch
      <3>2. \A t \in Turn : task'[t] \in CancelStates => task[t] \in CancelStates
        BY <2>a, <3>1 DEF Dispatch, SetTask, CancelStates
      <3> QED
        BY <2>b, <3>1, <3>2 DEF Dispatch
    <2>33. ASSUME NEW s \in Sub, Submit(s) PROVE AbortInv'
      <3>1. \A r, t : Before(accepted, r, t) => Before(accepted', r, t)
        BY <2>33, <2>a, BeforeAppend DEF Submit
      <3> QED
        BY <2>33, <3>1 DEF Submit, AbortsHitEarlierTurn, AbortersHandled
    <2>34. CASE GotAbort
      <3>1. /\ held \in Abort /\ active \in Turn \cup Shell /\ UNCHANGED <<accepted, stop>>
            /\ task' = Cancelled(aux \cup {active}) /\ handled' = handled \cup {held}
            /\ abortedBy' = IF Alive(active) THEN [abortedBy EXCEPT ![active] = held]
                            ELSE abortedBy
        BY <2>34, <2>a DEF GotAbort, Got, CancelAux
      <3>2. Before(accepted, active, held) /\ held \notin handled /\ held # NoSub
        BY <2>34, <3>1 DEF GotAbort, OneLine, Precede, Held, OnePlace, Apart, Sub
      <3>3. \A t \in Sub : abortedBy[t] # held
        BY <3>2 DEF AbortersHandled
      <3>4. CASE ~Alive(active)
        <4>1. Cancelled(aux \cup {active})[active] = task[active]
          BY <2>a, <3>1, <3>4 DEF Cancelled, CancelOf, Alive, AliveStates, Sub
        <4>2. \A t \in Turn : task'[t] = task[t]
          BY <2>a, <2>c, <3>1, <4>1
        <4> QED
          BY <2>b, <3>1, <3>4, <4>2
      <3>5. CASE Alive(active)
        <4>1. active \in Sub /\ abortedBy' = [abortedBy EXCEPT ![active] = held]
          BY <3>1, <3>5 DEF Sub
        <4>2. /\ abortedBy'[active] = held
              /\ \A t \in Sub : t # active => abortedBy'[t] = abortedBy[t]
          BY <2>a, <4>1
        <4>3. \A t \in Turn : t # active => task'[t] = task[t]
          BY <2>a, <2>c, <3>1
        <4>4. AbortersHandled'
          BY <3>1, <4>1, <4>2 DEF AbortersHandled
        <4>5. \A t, u \in Sub : abortedBy'[t] = abortedBy'[u] /\ t # u => abortedBy'[t] = NoSub
          BY <3>3, <4>1, <4>2 DEF AbortsHitEarlierTurn
        <4>6. ASSUME NEW t \in Turn, task'[t] \in CancelStates
              PROVE  \/ abortedBy'[t] # NoSub /\ Before(accepted, t, abortedBy'[t])
                     \/ stop \in {"cancelled", "stopped"}
          <5>1. CASE t = active
            BY <3>2, <4>2, <5>1
          <5>2. CASE t # active
            BY <2>a, <4>2, <4>3, <4>6, <5>2 DEF AbortsHitEarlierTurn, CancelStates
          <5> QED
            BY <5>1, <5>2
        <4> QED
          BY <3>1, <4>4, <4>5, <4>6 DEF AbortsHitEarlierTurn, CancelStates
      <3> QED
        BY <3>4, <3>5
    <2>36. CASE IdleFetch
      BY <2>36, <2>a, <2>b DEF IdleFetch, CancelStates
    <2>37. CASE TakeFetched
      <3>1. Dispatch(held) /\ stop' = stop
        BY <2>37 DEF TakeFetched, Dispatch
      <3>2. \A t \in Turn : task'[t] \in CancelStates => task[t] \in CancelStates
        BY <2>a, <3>1 DEF Dispatch, SetTask, CancelStates
      <3> QED
        BY <2>b, <3>1, <3>2 DEF Dispatch
    <2>35. CASE UNCHANGED vars
      BY <2>35, <2>b DEF vars
    <2> QED
      BY <2>1, <2>2, <2>3, <2>4, <2>5, <2>6, <2>7, <2>8, <2>9, <2>10, <2>11, <2>12, <2>13,
         <2>14, <2>15, <2>16, <2>17, <2>18, <2>19, <2>20, <2>21, <2>22, <2>23, <2>24, <2>25,
         <2>26, <2>27, <2>28, <2>29, <2>30, <2>31, <2>32, <2>33, <2>34, <2>35, <2>36, <2>37
         DEF Next, Client, TaskStep, Loop, Stop
  <1>3. TypeOK /\ ExactlyOnePlace /\ OneLine /\ AbortInv /\ [Next]_vars => AbortInv'
    BY <1>2, PlacesFlat
  <1> QED
    BY <1>1, <1>3, TypeCorrect, OncePlaced, LineCorrect, PTL DEF Spec

\* Until stop(), a turn is cancelled only by an AbortTurn submitted after it.
THEOREM AbortsHitEarlier == Spec => []AbortsHitEarlierTurn
  BY AbortsCorrect, PTL

\* The parts of the invariant the argument above rests on, all together.
THEOREM BookkeepingCorrect == Spec => []Bookkeeping
  BY OwnershipCorrect, GetterCorrect, LineCorrect, AbortsCorrect, PTL DEF Ownership, Bookkeeping

\* The loop's books are true at every step: no live task without an owner,
\* every turn alive after the cancellation awaited by stop() or missed by it,
\* every index and flag as the loop reads it.
THEOREM SessionConsistent == Spec => []Consistent
  BY TypeCorrect, LiveTasksAreOwned, StopReaps_Turns, BookkeepingCorrect, PTL DEF Consistent

-----------------------------------------------------------------------------
(* The session implements TurnService                                      *)

\* The line of TurnService, and its live turns.
Waiting == pending \o HeldSeq \o submissions
LiveTurns == {t \in Turn : Alive(t)}

\* A submission that joins the line.
LEMMA JoinsLine ==
    ASSUME NEW S, NEW p \in Seq(S), NEW h \in Seq(S), NEW q \in Seq(S), NEW x \in S,
           NEW before, before = p \o h \o q, NEW after, after = p \o h \o Append(q, x)
    PROVE  after = Append(before, x)
  <1>1. PICK a \in Seq(S) : a = p \o h
    BY ConcatProperties
  <1>2. PICK l \in Seq(S) : l = <<x>>
    <2>1. <<x>> \in Seq(S)
      OBVIOUS
    <2> QED
      BY <2>1
  <1>3. Append(q, x) = q \o l /\ a \o q \in Seq(S) /\ before = a \o q
    BY <1>1, <1>2, AppendIsConcat, ConcatProperties
  <1>4. Append(before, x) = (a \o q) \o l
    BY <1>2, <1>3, AppendIsConcat
  <1>5. (a \o q) \o l = a \o (q \o l)
    BY ConcatAssociative, SMTT(60)
  <1> QED
    BY <1>1, <1>3, <1>4, <1>5

\* A message that get_task held moves to the end of the pending ones.
LEMMA MovesInLine ==
    ASSUME NEW S, NEW p \in Seq(S), NEW q \in Seq(S), NEW x \in S,
           NEW before, before = p \o <<x>> \o q, NEW after, after = Append(p, x) \o <<>> \o q
    PROVE  after = before
  <1>1. Append(p, x) = p \o <<x>> /\ Append(p, x) \in Seq(S)
    BY AppendIsConcat, AppendProperties
  <1>2. Append(p, x) \o <<>> = Append(p, x)
    BY <1>1, ConcatEmptySeq
  <1> QED
    BY <1>1, <1>2

\* The head of the line is that of its first part.
LEMMA LineHead ==
    ASSUME NEW S, NEW p \in Seq(S), NEW q \in Seq(S), p # <<>>
    PROVE  /\ p \o q # <<>> /\ Head(p \o q) = Head(p) /\ Tail(p \o q) = Tail(p) \o q
           /\ p = <<Head(p)>> \o Tail(p)
  <1>1. /\ Head(p) \in S /\ Tail(p) \in Seq(S) /\ Len(p) \in Nat \ {0} /\ Len(q) \in Nat
        /\ Len(Tail(p)) = Len(p) - 1
        /\ \A i \in 1..(Len(p) - 1) : Tail(p)[i] = p[i + 1]
        /\ Head(p) = p[1] /\ <<Head(p)>> \in Seq(S) /\ Len(<<Head(p)>>) = 1 /\ <<Head(p)>>[1] = Head(p)
    BY HeadTailProperties
  <1>2. /\ p \o q \in Seq(S) /\ Len(p \o q) = Len(p) + Len(q)
        /\ \A i \in 1..(Len(p) + Len(q)) : (p \o q)[i] = IF i <= Len(p) THEN p[i] ELSE q[i - Len(p)]
    BY ConcatProperties
  <1>3. p \o q # <<>> /\ Head(p \o q) = (p \o q)[1] /\ (p \o q)[1] = p[1]
    BY <1>1, <1>2
  <1>4. /\ Tail(p \o q) \in Seq(S) /\ Len(Tail(p \o q)) = Len(p) + Len(q) - 1
        /\ \A i \in 1..(Len(p) + Len(q) - 1) : Tail(p \o q)[i] = (p \o q)[i + 1]
    BY <1>2, <1>3, HeadTailProperties
  <1>5. /\ Tail(p) \o q \in Seq(S) /\ Len(Tail(p) \o q) = Len(p) - 1 + Len(q)
        /\ \A i \in 1..(Len(p) - 1 + Len(q)) :
              (Tail(p) \o q)[i] = IF i <= Len(p) - 1 THEN Tail(p)[i] ELSE q[i - (Len(p) - 1)]
    BY <1>1, ConcatProperties
  <1>6. Tail(p \o q) = Tail(p) \o q
    <2>1. \A i \in 1..(Len(p) + Len(q) - 1) : Tail(p \o q)[i] = (Tail(p) \o q)[i]
      <3> TAKE i \in 1..(Len(p) + Len(q) - 1)
      <3>1. i + 1 \in 1..(Len(p) + Len(q)) /\ i \in 1..(Len(p) - 1 + Len(q))
        BY <1>1
      <3>2. CASE i <= Len(p) - 1
        <4>1. i \in 1..(Len(p) - 1) /\ i + 1 <= Len(p)
          BY <1>1, <3>2
        <4> QED
          BY <1>1, <1>2, <1>4, <1>5, <3>1, <4>1
      <3>3. CASE ~(i <= Len(p) - 1)
        <4>1. ~(i + 1 <= Len(p)) /\ (i + 1) - Len(p) = i - (Len(p) - 1)
          BY <1>1, <3>3
        <4> QED
          BY <1>2, <1>4, <1>5, <3>1, <3>3, <4>1
      <3> QED
        BY <3>2, <3>3
    <2>2. Len(Tail(p \o q)) = Len(Tail(p) \o q) /\ Len(Tail(p \o q)) = Len(p) + Len(q) - 1
      BY <1>1, <1>4, <1>5
    <2> QED
      BY <1>4, <1>5, <2>1, <2>2, SeqEqual
  <1>7. p = <<Head(p)>> \o Tail(p)
    <2>1. /\ <<Head(p)>> \o Tail(p) \in Seq(S) /\ Len(<<Head(p)>> \o Tail(p)) = 1 + Len(Tail(p))
          /\ \A i \in 1..(1 + Len(Tail(p))) :
                (<<Head(p)>> \o Tail(p))[i] = IF i <= 1 THEN <<Head(p)>>[i] ELSE Tail(p)[i - 1]
      BY <1>1, ConcatProperties
    <2>2. Len(p) = Len(<<Head(p)>> \o Tail(p))
      BY <1>1, <2>1
    <2>3. ASSUME NEW i \in 1..Len(p) PROVE p[i] = (<<Head(p)>> \o Tail(p))[i]
      <3>1. i = 1 \/ (i - 1 \in 1..(Len(p) - 1) /\ ~(i <= 1))
        BY <1>1
      <3> QED
        BY <1>1, <2>1, <2>2, <3>1
    <2> QED
      BY <2>1, <2>2, <2>3, SeqEqual
  <1> QED
    BY <1>1, <1>3, <1>6, <1>7

\* What get_task holds stands behind the pending ones, before the queue.
LEMMA HeldInLine ==
    ASSUME NEW S, NEW p \in Seq(S), NEW q \in Seq(S), NEW x \in S,
           NEW l, l = p \o <<x>> \o q, NEW k, k = Len(p) + 1, NEW rest, rest = p \o q
    PROVE  /\ l \in Seq(S) /\ k \in DOMAIN l /\ l[k] = x /\ \A i \in 1..(k - 1) : l[i] = p[i] /\ i \in 1..Len(p)
           /\ rest \in Seq(S) /\ Len(rest) = Len(l) - 1
           /\ \A i \in 1..(Len(l) - 1) : rest[i] = IF i < k THEN l[i] ELSE l[i + 1]
  <1>1. <<x>> \in Seq(S) /\ Len(<<x>>) = 1 /\ <<x>>[1] = x /\ Len(p) \in Nat /\ Len(q) \in Nat
    OBVIOUS
  <1>2. /\ p \o <<x>> \in Seq(S) /\ Len(p \o <<x>>) = Len(p) + 1
        /\ \A i \in 1..(Len(p) + 1) : (p \o <<x>>)[i] = IF i <= Len(p) THEN p[i] ELSE <<x>>[i - Len(p)]
    BY <1>1, ConcatProperties
  <1>3. /\ l \in Seq(S) /\ Len(l) = Len(p) + 1 + Len(q)
        /\ \A i \in 1..(Len(p) + 1 + Len(q)) :
              l[i] = IF i <= Len(p) + 1 THEN (p \o <<x>>)[i] ELSE q[i - (Len(p) + 1)]
    BY <1>2, ConcatProperties
  <1>4. k \in 1..Len(l) /\ l[k] = x /\ \A i \in 1..Len(p) : l[i] = p[i]
    <2>1. k \in 1..(Len(p) + 1) /\ k \in 1..(Len(p) + 1 + Len(q)) /\ k - Len(p) = 1 /\ ~(k <= Len(p))
      BY <1>1
    <2>2. l[k] = x
      BY <1>1, <1>2, <1>3, <2>1
    <2>3. ASSUME NEW i \in 1..Len(p) PROVE l[i] = p[i]
      <3>1. i \in 1..(Len(p) + 1) /\ i \in 1..(Len(p) + 1 + Len(q)) /\ i <= Len(p) /\ i <= Len(p) + 1
        BY <1>1
      <3> QED
        BY <1>2, <1>3, <3>1
    <2> QED
      BY <1>3, <2>1, <2>2, <2>3
  <1>5. /\ p \o q \in Seq(S) /\ Len(p \o q) = Len(p) + Len(q)
        /\ \A i \in 1..(Len(p) + Len(q)) : (p \o q)[i] = IF i <= Len(p) THEN p[i] ELSE q[i - Len(p)]
    BY ConcatProperties
  <1>6. ASSUME NEW i \in 1..(Len(p) + Len(q))
        PROVE  (p \o q)[i] = IF i < k THEN l[i] ELSE l[i + 1]
    <2>1. CASE i < k
      <3>1. i \in 1..Len(p) /\ i <= Len(p)
        BY <1>1, <2>1
      <3> QED
        BY <1>4, <1>5, <2>1, <3>1
    <2>2. CASE ~(i < k)
      <3>1. /\ ~(i <= Len(p)) /\ i + 1 \in 1..(Len(p) + 1 + Len(q)) /\ ~(i + 1 <= Len(p) + 1)
            /\ (i + 1) - (Len(p) + 1) = i - Len(p)
        BY <1>1, <2>2
      <3> QED
        BY <1>3, <1>5, <2>2, <3>1
    <2> QED
      BY <2>1, <2>2
  <1>7. Len(l) - 1 = Len(p) + Len(q) /\ k - 1 = Len(p) /\ DOMAIN l = 1..Len(l)
    BY <1>1, <1>3
  <1> QED
    BY <1>3, <1>4, <1>5, <1>6, <1>7

\* What a state of the session looks like to TurnService: the part of the
\* invariant that its steps rely on.
LEMMA SessionSeen ==
    ASSUME TypeOK, GetterHolds, LiveTasksOwned
    PROVE  /\ pending \in Seq(Sub) /\ submissions \in Seq(Sub) /\ HeldSeq \in Seq(Sub)
           /\ LiveTurns \subseteq {active}
           /\ held = NoSub => Waiting = pending \o submissions
           /\ held # NoSub => held \in Sub /\ Waiting = pending \o <<held>> \o submissions
  <1>1. pending \in Seq(Turn) /\ submissions \in Seq(Sub) /\ Turn \subseteq Sub /\ held \in Sub \cup {NoSub}
    BY DEF TypeOK, Sub
  <1>2. pending \in Seq(Sub)
    BY <1>1, SeqMonotonic
  <1>3. HeldSeq \in Seq(Sub)
    BY <1>1 DEF HeldSeq
  <1>4. LiveTurns \subseteq {active}
    BY SubKindsDisjoint DEF LiveTurns, LiveTasksOwned, TypeOK, Sub
  <1>5. held = NoSub => Waiting = pending \o submissions
    BY <1>2, ConcatEmptySeq DEF Waiting, HeldSeq
  <1>6. held # NoSub => held \in Sub /\ Waiting = pending \o <<held>> \o submissions
    BY <1>1 DEF Waiting, HeldSeq
  <1> QED
    BY <1>1, <1>2, <1>3, <1>4, <1>5, <1>6

\* What changes none of the submissions' places, nor which turns are live, is
\* no step of TurnService.
LEMMA NoServiceStep ==
    ASSUME Waiting' = Waiting, begun' = begun, LiveTurns' = LiveTurns
    PROVE  [Service!Next]_Service!vars
  BY DEF Waiting, LiveTurns, Service!vars

\* One submission leaves the line from behind the pending messages; if a turn
\* ends with it, it is a command.
LEMMA HeldLeaves ==
    ASSUME TypeOK, GetterHolds, LiveTasksOwned, held # NoSub, held' = NoSub,
           UNCHANGED <<pending, submissions, begun>>,
           LiveTurns' = LiveTurns \/ (held \notin Turn /\ LiveTurns' = {})
    PROVE  [Service!Next]_Service!vars
  <1> DEFINE k == Len(pending) + 1
  <1>1. /\ pending \in Seq(Turn) /\ pending \in Seq(Sub) /\ submissions \in Seq(Sub) /\ held \in Sub
        /\ Waiting = pending \o <<held>> \o submissions
    BY SessionSeen DEF TypeOK
  <1>2. Waiting' = pending \o submissions
    <2>1. HeldSeq' = <<>>
      BY DEF HeldSeq
    <2> QED
      BY <1>1, <2>1, ConcatEmptySeq DEF Waiting
  <1>3. /\ k \in DOMAIN Waiting /\ Waiting[k] = held
        /\ \A i \in 1..(k - 1) : Waiting[i] = pending[i] /\ i \in 1..Len(pending)
        /\ Waiting' = [i \in 1..(Len(Waiting) - 1) |-> IF i < k THEN Waiting[i] ELSE Waiting[i + 1]]
    <2> DEFINE rest == Waiting'
    <2>1. /\ k = Len(pending) + 1 /\ Waiting = pending \o <<held>> \o submissions
          /\ rest = pending \o submissions
      BY <1>1, <1>2
    <2>2. pending \in Seq(Sub) /\ submissions \in Seq(Sub) /\ held \in Sub
      BY <1>1
    <2> HIDE DEF k, rest
    <2>3. k \in DOMAIN Waiting /\ Waiting[k] = held
      BY <2>1, <2>2, HeldInLine
    <2>4. \A i \in 1..(k - 1) : Waiting[i] = pending[i] /\ i \in 1..Len(pending)
      BY <2>1, <2>2, HeldInLine
    <2>5. rest \in Seq(Sub) /\ Len(rest) = Len(Waiting) - 1
      BY <2>1, <2>2, HeldInLine
    <2>6. \A i \in 1..(Len(Waiting) - 1) : rest[i] = IF i < k THEN Waiting[i] ELSE Waiting[i + 1]
      BY <2>1, <2>2, HeldInLine
    <2>7. \A r \in Seq(Sub) : r = [i \in 1..Len(r) |-> r[i]]
      BY LenProperties
    <2>8. rest = [i \in 1..(Len(Waiting) - 1) |-> IF i < k THEN Waiting[i] ELSE Waiting[i + 1]]
      BY <2>5, <2>6, <2>7
    <2> QED
      BY <2>3, <2>4, <2>8 DEF rest
  <1>4. \A i \in 1..(k - 1) : Waiting[i] \in Turn
    BY <1>1, <1>3, ElementOfSeq
  <1>5. held \notin Turn => held \in Shell \cup Abort \cup Steer
    BY <1>1 DEF Sub
  <1> HIDE DEF k
  <1>6. Service!Aside(k)
    BY <1>3, <1>4, <1>5 DEF Service!Aside, Service!Without, Waiting, LiveTurns
  <1> QED
    BY <1>3, <1>6 DEF Service!Next, Waiting

\* The turn that was live has ended.
LEMMA TurnEnds ==
    ASSUME Waiting' = Waiting, begun' = begun, LiveTurns' = {}
    PROVE  [Service!Next]_Service!vars
  <1>1. CASE LiveTurns = {}
    BY <1>1, NoServiceStep
  <1>2. CASE LiveTurns # {}
    BY <1>2 DEF Service!Next, Service!Finish, Waiting, LiveTurns
  <1> QED
    BY <1>1, <1>2

\* The head of the line becomes the turn, or is answered at once.
LEMMA HeadLeaves ==
    ASSUME NEW s \in Sub, TypeOK, LiveTasksOwned, active = NoSub, Waiting \in Seq(Sub), Waiting # <<>>,
           s = Head(Waiting), Waiting' = Tail(Waiting), Dispatch(s)
    PROVE  [Service!Next]_Service!vars
  <1>1. LiveTurns = {}
    BY SubKindsDisjoint, NoSubIsNone DEF LiveTurns, LiveTasksOwned, TypeOK, Sub
  <1>2. CASE s \in Abort \cup Steer
    <2>1. UNCHANGED <<task, begun>>
      BY <1>2 DEF Dispatch
    <2>2. LiveTurns' = LiveTurns
      BY <2>1 DEF LiveTurns, Alive
    <2>3. /\ Len(Waiting) \in Nat \ {0} /\ Tail(Waiting) \in Seq(Sub) /\ Len(Tail(Waiting)) = Len(Waiting) - 1
          /\ \A i \in 1..Len(Tail(Waiting)) : Tail(Waiting)[i] = Waiting[i + 1]
          /\ Waiting[1] = s /\ DOMAIN Waiting = 1..Len(Waiting)
      BY HeadTailProperties
    <2>4. Waiting' = [i \in 1..(Len(Waiting) - 1) |-> IF i < 1 THEN Waiting[i] ELSE Waiting[i + 1]]
      <3>1. \A r \in Seq(Sub) : r = [i \in 1..Len(r) |-> r[i]]
        BY LenProperties
      <3>2. \A i \in 1..(Len(Waiting) - 1) : ~(i < 1)
        OBVIOUS
      <3> QED
        BY <2>3, <3>1, <3>2
    <2>5. 1 \in DOMAIN Waiting
      BY <2>3
    <2>6. Service!Aside(1)
      <3>1. \A i \in 1..(1 - 1) : Waiting[i] \in Turn
        OBVIOUS
      <3> QED
        BY <2>1, <2>2, <2>4, <3>1 DEF Service!Aside, Service!Without, Waiting, LiveTurns
    <2> QED
      BY <2>5, <2>6 DEF Service!Next, Waiting
  <1>3. CASE s \notin Abort \cup Steer
    <2>1. task' = [task EXCEPT ![s] = "ready"] /\ begun' = Append(begun, s)
      BY <1>3 DEF Dispatch, SetTask
    <2>2. begun \in Seq(Sub)
      <3>1. begun \in Seq(Turn \cup Shell) /\ Turn \cup Shell \subseteq Sub
        BY DEF TypeOK, Sub
      <3> QED
        BY <3>1, SeqMonotonic
    <2>3. Range(begun') = Range(begun) \cup {s}
      BY <2>1, <2>2, AppendFacts
    <2>4. LiveTurns' = {s} \cap Turn
      <3>1. /\ task'[s] = "ready" /\ \A t \in Sub : t # s => task'[t] = task[t]
            /\ Turn \subseteq Sub /\ "ready" \in AliveStates
        BY <2>1 DEF TypeOK, Sub, AliveStates
      <3>2. \A t \in Turn : task[t] \notin AliveStates
        BY <1>1 DEF LiveTurns, Alive
      <3> QED
        BY <3>1, <3>2 DEF LiveTurns, Alive
    <2>5. Service!Serve
      BY <1>1, <2>3, <2>4 DEF Service!Serve, Waiting, LiveTurns
    <2> QED
      BY <2>5 DEF Service!Next
  <1> QED
    BY <1>2, <1>3

\* Cancelling shell commands leaves the live turns alone; cancelling more
\* ends the one there is, or leaves it to clean up.
LEMMA CancelledTurns ==
    ASSUME TypeOK, LiveTurns \subseteq {active}, NEW S, task' = Cancelled(S)
    PROVE  /\ LiveTurns' = LiveTurns \/ LiveTurns' = {}
           /\ S \subseteq Shell => LiveTurns' = LiveTurns
  <1>1. /\ task \in [Sub -> TaskStates] /\ Turn \subseteq Sub
        /\ \A t \in Turn : t \notin S => task'[t] = task[t]
        /\ \A t \in Turn : task'[t] \in AliveStates => Alive(t)
    BY CancelledFacts DEF TypeOK, Sub, Cancelled
  <1>2. LiveTurns' \subseteq LiveTurns
    BY <1>1 DEF LiveTurns, Alive
  <1>3. S \subseteq Shell => LiveTurns' = LiveTurns
    BY <1>1, SubKindsDisjoint DEF LiveTurns, Alive
  <1> QED
    BY <1>2, <1>3

\* A step of the task that handles a submission: at most it ends a turn.
LEMMA TaskSimulated ==
    ASSUME TypeOK, GetterHolds, LiveTasksOwned, NEW s \in Sub, TaskStep(s)
    PROVE  [Service!Next]_Service!vars
  <1>1. UNCHANGED <<pending, held, submissions, begun>>
    BY DEF TaskStep, Start, Emit, Complete, Fail, Absorb, EndCancelled, queueVars, loopVars,
       histVars
  <1>2. Waiting' = Waiting
    BY <1>1 DEF Waiting, HeldSeq
  <1>3. task \in [Sub -> TaskStates] /\ Turn \subseteq Sub /\ LiveTurns \subseteq {active}
    BY SessionSeen DEF TypeOK, Sub
  <1>4. CASE Start(s) \/ Emit(s) \/ Absorb(s)
    <2>1. /\ \A t \in Sub : t # s => task'[t] = task[t]
          /\ task[s] \in AliveStates /\ task'[s] \in AliveStates
      BY <1>3, <1>4 DEF Start, Emit, Absorb, SetTask, AliveStates, taskVars
    <2>2. LiveTurns' = LiveTurns
      BY <1>3, <2>1 DEF LiveTurns, Alive
    <2> QED
      BY <1>1, <1>2, <2>2, NoServiceStep
  <1>5. CASE Complete(s) \/ Fail(s) \/ EndCancelled(s)
    <2>1. /\ \A t \in Sub : t # s => task'[t] = task[t]
          /\ task[s] \in AliveStates /\ task'[s] \notin AliveStates
      BY <1>3, <1>5 DEF Complete, Fail, EndCancelled, SetTask, AliveStates
    <2>2. CASE s \in Turn
      <3>1. LiveTurns' = {}
        BY <1>3, <2>1, <2>2 DEF LiveTurns, Alive
      <3> QED
        BY <1>1, <1>2, <3>1, TurnEnds
    <2>3. CASE s \notin Turn
      <3>1. LiveTurns' = LiveTurns
        BY <1>3, <2>1, <2>3 DEF LiveTurns, Alive
      <3> QED
        BY <1>1, <1>2, <3>1, NoServiceStep
    <2> QED
      BY <2>2, <2>3
  <1> QED
    BY <1>4, <1>5 DEF TaskStep

\* The steps that take the head of the line.
LEMMA TakingSimulated ==
    ASSUME TypeOK, GetterHolds, LiveTasksOwned, LoopLetsGo,
           TakePending \/ TakeSubmission \/ TakeFetched
    PROVE  [Service!Next]_Service!vars
  <1>1. /\ pending \in Seq(Sub) /\ submissions \in Seq(Sub) /\ active = NoSub /\ held' = NoSub
        /\ ~TakeFetched => Waiting = pending \o submissions
    <2>1. active = NoSub /\ held' = NoSub /\ (~TakeFetched => held = NoSub)
      BY DEF TakePending, TakeSubmission, TakeFetched, GetterHolds, LoopLetsGo
    <2> QED
      BY <2>1, SessionSeen
  <1>2. \A p, q \in Seq(Sub) : pending' = p /\ submissions' = q => Waiting' = p \o q
    BY <1>1, ConcatEmptySeq DEF Waiting, HeldSeq
  <1>3. CASE TakePending /\ ~TakeFetched
    <2>1. pending # <<>> /\ pending' = Tail(pending) /\ submissions' = submissions /\ Dispatch(Head(pending))
      BY <1>3 DEF TakePending
    <2>2. Head(pending) \in Sub /\ Tail(pending) \in Seq(Sub)
      BY <1>1, <2>1, HeadTailProperties
    <2>3. Waiting' = Tail(pending) \o submissions
      BY <1>1, <1>2, <2>1, <2>2
    <2>4. Waiting # <<>> /\ Head(Waiting) = Head(pending) /\ Tail(Waiting) = Tail(pending) \o submissions
      BY <1>1, <1>3, <2>1, LineHead
    <2>5. Waiting \in Seq(Sub)
      BY <1>1, <1>3, ConcatProperties
    <2> QED
      BY <1>1, <2>1, <2>2, <2>3, <2>4, <2>5, HeadLeaves
  <1>4. CASE TakeSubmission /\ ~TakeFetched
    <2>1. /\ pending = <<>> /\ pending' = <<>> /\ submissions # <<>> /\ submissions' = Tail(submissions)
          /\ Dispatch(Head(submissions))
      BY <1>4 DEF TakeSubmission, LoopLetsGo
    <2>2. Head(submissions) \in Sub /\ Tail(submissions) \in Seq(Sub)
      BY <1>1, <2>1, HeadTailProperties
    <2>3. Waiting = submissions /\ Waiting' = Tail(submissions)
      BY <1>1, <1>2, <1>4, <2>1, <2>2, ConcatEmptySeq
    <2> QED
      BY <1>1, <2>1, <2>2, <2>3, HeadLeaves
  <1>5. CASE TakeFetched
    <2>1. /\ pending = <<>> /\ UNCHANGED <<pending, submissions>> /\ held \in Sub /\ Dispatch(held)
          /\ held # NoSub
      BY <1>5, NoSubIsNone DEF TakeFetched, LoopLetsGo, TypeOK, queueVars
    <2>2. PICK h \in Seq(Sub) : h = <<held>>
      <3>1. <<held>> \in Seq(Sub)
        BY <2>1
      <3> QED
        BY <3>1
    <2>3. h # <<>> /\ Head(h) = held /\ Tail(h) = <<>>
      BY <2>2
    <2>4. Waiting = h \o submissions
      BY <1>1, <2>1, <2>2, SessionSeen, ConcatEmptySeq
    <2>5. Waiting' = submissions
      BY <1>1, <1>2, <2>1, ConcatEmptySeq
    <2>6. Waiting # <<>> /\ Head(Waiting) = held /\ Tail(Waiting) = submissions
      <3>1. /\ h \o submissions # <<>> /\ Head(h \o submissions) = Head(h)
            /\ Tail(h \o submissions) = Tail(h) \o submissions
        BY <1>1, <2>3, LineHead
      <3> QED
        BY <1>1, <2>3, <2>4, <3>1, ConcatEmptySeq
    <2>7. Waiting \in Seq(Sub)
      BY <1>1, <2>4, ConcatProperties
    <2> QED
      BY <1>1, <2>1, <2>5, <2>6, <2>7, HeadLeaves
  <1> QED
    BY <1>3, <1>4, <1>5

\* What get_task, or the idle get(), takes keeps its place in the line.
LEMMA GetterSimulated ==
    ASSUME TypeOK, GetterHolds, LiveTasksOwned, GetterTakes \/ IdleFetch
    PROVE  [Service!Next]_Service!vars
  <1>1. /\ held = NoSub /\ submissions # <<>> /\ held' = Head(submissions)
        /\ submissions' = Tail(submissions) /\ UNCHANGED <<pending, task, begun>>
    BY DEF GetterTakes, IdleFetch, GetterHolds, taskVars, histVars
  <1>2. /\ pending \in Seq(Sub) /\ submissions \in Seq(Sub) /\ Waiting = pending \o submissions
    BY <1>1, SessionSeen
  <1>3. Head(submissions) \in Sub /\ Tail(submissions) \in Seq(Sub)
    BY <1>1, <1>2, HeadTailProperties
  <1>4. Waiting' = pending \o <<Head(submissions)>> \o Tail(submissions)
    BY <1>1, <1>3, NoSubIsNone DEF Waiting, HeldSeq
  <1>5. submissions = <<Head(submissions)>> \o Tail(submissions)
    BY <1>1, <1>2, LineHead
  <1>6. \A x \in Sub, q \in Seq(Sub) : pending \o <<x>> \o q = pending \o (<<x>> \o q)
    <2> TAKE x \in Sub, q \in Seq(Sub)
    <2>1. <<x>> \in Seq(Sub)
      OBVIOUS
    <2> QED
      BY <1>2, <2>1, ConcatAssociative
  <1>7. Waiting' = Waiting
    BY <1>2, <1>3, <1>4, <1>5, <1>6
  <1>8. LiveTurns' = LiveTurns
    BY <1>1 DEF LiveTurns, Alive
  <1> QED
    BY <1>1, <1>7, <1>8, NoServiceStep

\* What the loop does with the submission that get_task holds.
LEMMA HandlingSimulated ==
    ASSUME TypeOK, GetterHolds, LiveTasksOwned,
           GotAbort \/ GotLateAbort \/ GotSteer \/ GotShell \/ GotTurn \/ BatchOver
    PROVE  [Service!Next]_Service!vars
  <1>1. /\ LiveTurns \subseteq {active} /\ aux \subseteq Shell /\ task \in [Sub -> TaskStates]
        /\ Turn \subseteq Sub
    BY SessionSeen DEF TypeOK, Sub
  <1>2. UNCHANGED <<submissions, begun>> /\ held' = NoSub
    BY DEF GotAbort, GotLateAbort, GotSteer, GotShell, GotTurn, BatchOver, Got, queueVars,
       histVars
  <1>3. CASE GotAbort
    <2>1. task' = Cancelled(aux \cup {active}) /\ held \in Abort /\ pending' = pending
      BY <1>3 DEF GotAbort, CancelAux, Got, queueVars
    <2>2. LiveTurns' = LiveTurns \/ LiveTurns' = {}
      BY <1>1, <2>1, CancelledTurns
    <2>3. held # NoSub /\ held \notin Turn
      BY <2>1, SubKindsDisjoint, NoSubIsNone DEF Sub
    <2> QED
      BY <1>2, <2>1, <2>2, <2>3, HeldLeaves
  <1>4. CASE GotLateAbort
    <2>1. task' = Cancelled(aux \cup {}) /\ held \in Abort /\ pending' = pending
      BY <1>4 DEF GotLateAbort, CancelAux, Got, queueVars
    <2>2. LiveTurns' = LiveTurns
      BY <1>1, <2>1, CancelledTurns
    <2>3. held # NoSub
      BY <2>1, NoSubIsNone DEF Sub
    <2> QED
      BY <1>2, <2>1, <2>2, <2>3, HeldLeaves
  <1>5. CASE GotSteer
    <2>1. task' = task /\ held \in Steer /\ pending' = pending
      BY <1>5 DEF GotSteer, Got, queueVars, taskVars
    <2>2. LiveTurns' = LiveTurns /\ held # NoSub
      BY <2>1, NoSubIsNone DEF LiveTurns, Alive, Sub
    <2> QED
      BY <1>2, <2>1, <2>2, HeldLeaves
  <1>6. CASE GotShell
    <2>1. task' = [task EXCEPT ![held] = "ready"] /\ held \in Shell /\ pending' = pending
      BY <1>6 DEF GotShell, Got, SetTask, queueVars
    <2>2. \A t \in Turn : task'[t] = task[t]
      BY <1>1, <2>1, SubKindsDisjoint
    <2>3. LiveTurns' = LiveTurns /\ held # NoSub
      BY <2>1, <2>2, NoSubIsNone DEF LiveTurns, Alive, Sub
    <2> QED
      BY <1>2, <2>1, <2>3, HeldLeaves
  <1>7. CASE GotTurn
    <2>1. task' = task /\ held \in Turn /\ pending' = Append(pending, held)
      BY <1>7 DEF GotTurn, Got, taskVars
    <2>2. /\ held \in Sub /\ held # NoSub /\ pending \in Seq(Sub) /\ submissions \in Seq(Sub)
          /\ Waiting = pending \o <<held>> \o submissions
      BY <1>1, <2>1, NoSubIsNone, SessionSeen
    <2>3. HeldSeq' = <<>>
      BY <1>2 DEF HeldSeq
    <2>4. Waiting' = Append(pending, held) \o <<>> \o submissions
      BY <1>2, <2>1, <2>3 DEF Waiting
    <2>5. Waiting' = Waiting
      <3> DEFINE after == Waiting'
      <3>1. after = Append(pending, held) \o <<>> \o submissions
        BY <2>4
      <3> HIDE DEF after
      <3>2. after = Waiting
        BY <2>2, <3>1, MovesInLine
      <3> QED
        BY <3>2 DEF after
    <2>6. LiveTurns' = LiveTurns
      BY <2>1 DEF LiveTurns, Alive
    <2> QED
      BY <1>2, <2>5, <2>6, NoServiceStep
  <1>8. CASE BatchOver
    <2>1. task' = task /\ pending' = pending
      BY <1>8 DEF BatchOver, queueVars, taskVars
    <2>2. LiveTurns' = LiveTurns
      BY <2>1 DEF LiveTurns, Alive
    <2>3. CASE held = NoSub
      <3>1. Waiting' = Waiting
        BY <1>2, <2>1, <2>3 DEF Waiting, HeldSeq
      <3> QED
        BY <1>2, <2>2, <3>1, NoServiceStep
    <2>4. CASE held # NoSub
      BY <1>2, <2>1, <2>2, <2>4, HeldLeaves
    <2> QED
      BY <2>3, <2>4
  <1> QED
    BY <1>3, <1>4, <1>5, <1>6, <1>7, <1>8

\* The other steps of the loop and of stop() move no submission; they may
\* cancel tasks.
LEMMA RestSimulated ==
    ASSUME TypeOK, GetterHolds, LiveTasksOwned,
           \/ NextEvent \/ Exit \/ GoIdle \/ IdleTimeout \/ EnterWait \/ Wake
           \/ TurnAlreadyCleared \/ TurnOver \/ TurnReportBlocked \/ TurnReported
           \/ Gathered \/ AbortDone \/ NoticePut \/ (\E s \in Shell : AuxOver(s)) \/ AuxReported
           \/ StopReaps \/ StopCancels \/ StopDone
    PROVE  [Service!Next]_Service!vars
  <1>1. /\ LiveTurns \subseteq {active} /\ aux \subseteq Shell
    BY SessionSeen DEF TypeOK
  <1>2. UNCHANGED <<pending, submissions, begun, held>>
    BY DEF NextEvent, Exit, GoIdle, IdleTimeout, EnterWait, Wake, TurnAlreadyCleared, TurnOver,
           TurnReportBlocked, TurnReported, Gathered, AbortDone, NoticePut, AuxOver, AuxReported,
           StopReaps, StopCancels, StopDone, queueVars, histVars, loopVars
  <1>3. Waiting' = Waiting
    BY <1>2 DEF Waiting, HeldSeq
  <1>4. CASE task' = task
    <2>1. LiveTurns' = LiveTurns
      BY <1>4 DEF LiveTurns, Alive
    <2> QED
      BY <1>2, <1>3, <2>1, NoServiceStep
  <1>5. CASE \E S \in SUBSET Shell : task' = Cancelled(S)
    <2>1. LiveTurns' = LiveTurns
      BY <1>1, <1>5, CancelledTurns
    <2> QED
      BY <1>2, <1>3, <2>1, NoServiceStep
  <1>6. CASE \E S : task' = Cancelled(S)
    <2>1. LiveTurns' = LiveTurns \/ LiveTurns' = {}
      BY <1>1, <1>6, CancelledTurns
    <2> QED
      BY <1>2, <1>3, <2>1, NoServiceStep, TurnEnds
  <1>7. CASE TurnOver \/ TurnReported \/ StopReaps
    <2>1. task' = Cancelled(aux \cup {}) \/ task' = Cancelled(aux)
      BY <1>7 DEF TurnOver, TurnReported, StopReaps, CancelAux
    <2>2. aux \cup {} \in SUBSET Shell /\ aux \in SUBSET Shell
      BY <1>1
    <2> QED
      BY <1>5, <2>1, <2>2
  <1>8. CASE StopCancels
    BY <1>6, <1>8 DEF StopCancels
  <1>9. CASE \/ NextEvent \/ Exit \/ GoIdle \/ IdleTimeout \/ EnterWait \/ Wake
             \/ TurnAlreadyCleared \/ TurnReportBlocked \/ Gathered \/ AbortDone \/ NoticePut
             \/ (\E s \in Shell : AuxOver(s)) \/ AuxReported \/ StopDone
    <2>1. task' = task
      BY <1>9 DEF NextEvent, Exit, GoIdle, IdleTimeout, EnterWait, Wake, TurnAlreadyCleared,
             TurnReportBlocked, Gathered, AbortDone, NoticePut, AuxOver, AuxReported, StopDone,
             taskVars
    <2> QED
      BY <1>4, <2>1
  <1> QED
    BY <1>7, <1>8, <1>9

\* The two queues, the getter and the tasks behave as one line served from
\* its head, one message turn at a time: RuntimeSession implements
\* TurnService.
THEOREM ServiceImplemented == Spec => ImplementsTurnService
  <1>1. Init => Service!Init
    BY DEF Init, Service!Init, HeldSeq, Alive, AliveStates, Range, Sub
  <1>2. TypeOK /\ GetterHolds /\ Ownership /\ [Next]_vars => [Service!Next]_Service!vars
    <2> SUFFICES ASSUME TypeOK, GetterHolds, LiveTasksOwned, LoopLetsGo, [Next]_vars
                 PROVE  [Service!Next]_Service!vars
      BY DEF Ownership
    <2>1. ASSUME NEW s \in Sub, Submit(s) PROVE [Service!Next]_Service!vars
      <3>1. submissions' = Append(submissions, s) /\ UNCHANGED <<pending, held, begun, task>>
        BY <2>1 DEF Submit, taskVars, loopVars
      <3>2. HeldSeq' = HeldSeq /\ LiveTurns' = LiveTurns
        BY <3>1 DEF HeldSeq, LiveTurns, Alive
      <3>3. Waiting' = Append(Waiting, s)
        <4>1. Waiting' = pending \o HeldSeq \o Append(submissions, s)
          BY <3>1, <3>2 DEF Waiting
        <4> DEFINE after == Waiting'
        <4>2. after = pending \o HeldSeq \o Append(submissions, s) /\ Waiting = pending \o HeldSeq \o submissions
          BY <4>1 DEF Waiting
        <4>3. pending \in Seq(Sub) /\ HeldSeq \in Seq(Sub) /\ submissions \in Seq(Sub)
          BY SessionSeen
        <4> HIDE DEF after
        <4>4. after = Append(Waiting, s)
          BY <4>2, <4>3, JoinsLine
        <4> QED
          BY <4>4 DEF after
      <3>4. Service!Accept(s)
        BY <3>1, <3>2, <3>3 DEF Service!Accept, Waiting, LiveTurns
      <3>5. s \in Turn \cup (Shell \cup Abort \cup Steer)
        BY DEF Sub
      <3> QED
        BY <3>4, <3>5 DEF Service!Next, Service!Job
    <2>2. ASSUME NEW s \in Sub, TaskStep(s) PROVE [Service!Next]_Service!vars
      BY <2>2, TaskSimulated
    <2>3. CASE GetterTakes \/ IdleFetch
      BY <2>3, GetterSimulated
    <2>4. CASE TakePending \/ TakeSubmission \/ TakeFetched
      BY <2>4, TakingSimulated
    <2>5. CASE GotAbort \/ GotLateAbort \/ GotSteer \/ GotShell \/ GotTurn \/ BatchOver
      BY <2>5, HandlingSimulated
    <2>6. CASE \/ NextEvent \/ Exit \/ GoIdle \/ IdleTimeout \/ EnterWait \/ Wake
               \/ TurnAlreadyCleared \/ TurnOver \/ TurnReportBlocked \/ TurnReported
               \/ Gathered \/ AbortDone \/ NoticePut \/ (\E s \in Shell : AuxOver(s)) \/ AuxReported
               \/ StopReaps \/ StopCancels \/ StopDone
      BY <2>6, RestSimulated
    <2>7. CASE UNCHANGED vars
      <3>1. UNCHANGED <<pending, held, submissions, begun, task>>
        BY <2>7 DEF vars, queueVars, taskVars, loopVars, histVars
      <3>2. Waiting' = Waiting /\ LiveTurns' = LiveTurns
        BY <3>1 DEF Waiting, HeldSeq, LiveTurns, Alive
      <3> QED
        BY <3>1, <3>2, NoServiceStep
    <2> QED
      BY <2>1, <2>2, <2>3, <2>4, <2>5, <2>6, <2>7 DEF Next, Client, Loop, Stop
  <1> QED
    BY <1>1, <1>2, TypeCorrect, GetterCorrect, OwnershipCorrect, PTL
       DEF Spec, Service!Spec, ImplementsTurnService
=============================================================================
