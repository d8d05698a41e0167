--------------------------- MODULE Approvals_proofs ---------------------------
(***************************************************************************)
(* Theorems about permission and approval, for any number of calls, keys,  *)
(* aborts and edits and for both behaviours of asyncio.wait_for.           *)
(***************************************************************************)
EXTENDS Approvals, TLAPS

USE DEF None, Allowing, Answers, Decisions, InFlight

(***************************************************************************)
(* Why the three parties that settle a future agree: what is known of a    *)
(* call at each of its awaits.                                             *)
(***************************************************************************)

Untouched(c) == c \notin hit \cup swept

\* Without a future nothing was said, answered or listed of a call.
Unregistered(c) ==
    future[c] = None =>
        /\ pc[c] \in {"new", "announcing", "done"}
        /\ answer[c] = None /\ told[c] = {} /\ ledger[c] = {}
        /\ c \notin pending \cup byThread \cup left \cup swept \cup unsaid \cup lost /\ at # c

\* The stages of a call, when its key is known and when it is pending.
Stages(c) ==
    /\ pc[c] \in {"new", "announcing"} => future[c] = None
    /\ pc[c] # "new" => key[c] \in Key
    /\ pc[c] # "done" => out[c] = None
    /\ pc[c] = "done" => c \notin pending \cup byThread
    /\ pc[c] \in {"waiting", "recording", "expiring"} => (c \in pending <=> c \notin swept)

\* A cancelled task is one an abort hit, and stays cancelled until it finds
\* out; a result survives the cancellation in Python 3.11 only.
Cancellation(c) ==
    /\ c \in cut => c \in hit /\ pc[c] \in InFlight
    /\ c \in hit => pc[c] # "new"
    /\ c \in hit /\ pc[c] \in {"announcing", "waiting"} => c \in cut
    /\ c \in hit /\ pc[c] = "recording" /\ python = "3.12" => c \in cut

\* The future, the answer in _approval_meta and the sweep tell one story.
Settlement(c) ==
    /\ future[c] = "open" => pc[c] = "waiting" /\ answer[c] = None /\ c \notin swept
    /\ pc[c] \in {"waiting", "recording"} =>
        /\ future[c] = "allow" => answer[c] \in Allowing
        /\ future[c] = "deny" => answer[c] = "deny" \/ (answer[c] = None /\ c \in swept)
    /\ pc[c] = "waiting" /\ future[c] = "gone" => answer[c] = None /\ python = "3.12"
    /\ pc[c] = "recording" =>
        /\ future[c] \in {"allow", "deny"} /\ noted[c] # None
        /\ c \notin swept => noted[c] = answer[c]
        /\ python = "3.12" => c \notin late
    /\ pc[c] = "expiring" =>
        future[c] = "gone" /\ c \in late /\ (answer[c] # None => python = "3.12")

\* An answer is not announced the moment it is accepted, and may never be.
Unannounced(c) == c \in unsaid \cup lost
Announced(c) == IF answer[c] = None \/ Unannounced(c) THEN {} ELSE {answer[c]}

\* What was said: every answer that is announced, every sweep, and nothing
\* else of a call in flight that no abort touched.
Said(c) ==
    /\ Unannounced(c) => answer[c] # None
    /\ c \notin unsaid \cap lost
    /\ answer[c] # None => answer[c] \in told[c] \/ Unannounced(c)
    /\ c \in swept => "abort" \in told[c] \/ Telling(c)
    /\ at = c => c \in swept
    /\ pc[c] \in InFlight /\ Untouched(c) => told[c] = Announced(c) /\ ledger[c] = {}

\* How a call that asked the user has ended.
Ended(c) ==
    pc[c] = "done" /\ future[c] # None =>
        /\ out[c] = "run" => answer[c] \in Allowing /\ (c \in hit => python = "3.11")
        /\ out[c] = "denied" => told[c] # {} \/ Unannounced(c) \/ Telling(c)
        /\ Untouched(c) /\ out[c] # "error" /\ (python = "3.11" \/ c \notin late) /\ answer[c] # None =>
            /\ out[c] = IF answer[c] \in Allowing THEN "run" ELSE "denied"
            /\ told[c] = Announced(c) /\ ledger[c] = {answer[c]}
        /\ Untouched(c) /\ out[c] # "error" /\ answer[c] = None =>
            told[c] = {"timeout"} /\ ledger[c] = {"timeout"}

\* A call that ran without asking was in no abort's way.
Unasked(c) == pc[c] = "done" /\ future[c] = None /\ c \in hit => out[c] # "run"

CallInv(c) ==
    /\ Unregistered(c) /\ Stages(c) /\ Cancellation(c) /\ Settlement(c)
    /\ Said(c) /\ Ended(c) /\ Unasked(c)

IInv == TypeOK /\ \A c \in Call : CallInv(c)

\* Nothing that is said of a call has changed.
Same(c) ==
    /\ python' = python /\ pc'[c] = pc[c] /\ out'[c] = out[c] /\ noted'[c] = noted[c] /\ key'[c] = key[c]
    /\ future'[c] = future[c] /\ answer'[c] = answer[c]
    /\ told'[c] = told[c] /\ ledger'[c] = ledger[c]
    /\ c \in pending' <=> c \in pending
    /\ c \in byThread' <=> c \in byThread
    /\ c \in late' <=> c \in late
    /\ c \in cut' <=> c \in cut
    /\ c \in hit' <=> c \in hit
    /\ c \in swept' <=> c \in swept
    /\ c \in unsaid' <=> c \in unsaid
    /\ c \in lost' <=> c \in lost
    /\ (at' = c /\ sweep' = "telling") <=> (at = c /\ sweep = "telling")
    /\ c \in left' => c \in left
    /\ at' = c => at = c

\* The invariant of a call needs nothing but what Same compares.
LEMMA Frame ==
    ASSUME NEW c \in Call, CallInv(c), Same(c)
    PROVE  CallInv(c)'
<1> USE DEF Same, CallInv, Untouched, Unannounced, Announced, Telling
<1>1. Unregistered(c)'
  BY DEF Unregistered
<1>2. Stages(c)'
  BY DEF Stages
<1>3. Cancellation(c)'
  BY DEF Cancellation
<1>4. Settlement(c)'
  BY DEF Settlement
<1>5. Said(c)'
  BY DEF Said
<1>6. Ended(c)' /\ Unasked(c)'
  BY DEF Ended, Unasked
<1>7. QED  BY <1>1, <1>2, <1>3, <1>4, <1>5, <1>6

\* Before the first call is checked nothing has happened.
LEMMA InitIInv == Init => IInv
BY BoundsAreNumbers, SentinelsAreNot DEF Init, IInv, TypeOK, CallInv, Untouched, Unregistered,
    Stages, Cancellation, Settlement, Unannounced, Announced, Telling, Said, Ended, Unasked

\* A check lets the call run, denies it or asks the user.
LEMMA CheckStep ==
    ASSUME IInv, NEW c \in Call, Check(c)
    PROVE  IInv'
<1>1. TypeOK'
  BY BoundsAreNumbers, SentinelsAreNot
     DEF IInv, TypeOK, Check, Request, Verdict, Granted, callVars, futureVars, grantVars,
         sweepVars, logVars, countVars
<1>2. ASSUME NEW b \in Call, b # c PROVE CallInv(b)'
  <2>1. Same(b)
    BY <1>2, SentinelsAreNot
       DEF IInv, TypeOK, Same, Check, Request, Verdict, Granted, callVars, futureVars,
           grantVars, sweepVars, logVars, countVars
  <2>2. QED  BY <1>2, <2>1, Frame DEF IInv
<1>3. CallInv(c)'
  BY SentinelsAreNot
     DEF IInv, TypeOK, CallInv, Untouched, Unregistered, Stages, Cancellation, Settlement,
         Unannounced, Announced, Telling, Said,
         Ended, Unasked, Check, Request, Verdict, Granted, callVars, futureVars, grantVars,
         sweepVars, logVars, countVars
<1>4. QED  BY <1>1, <1>2, <1>3 DEF IInv

\* The future of a call is registered.
LEMMA RegisterStep ==
    ASSUME IInv, NEW c \in Call, Register(c)
    PROVE  IInv'
<1>1. TypeOK'
  BY BoundsAreNumbers, SentinelsAreNot
     DEF IInv, TypeOK, Register, callVars, futureVars, grantVars, sweepVars, logVars, countVars
<1>2. ASSUME NEW b \in Call, b # c PROVE CallInv(b)'
  <2>1. Same(b)
    BY <1>2, SentinelsAreNot
       DEF IInv, TypeOK, Same, Register, callVars, futureVars, grantVars, sweepVars, logVars,
           countVars
  <2>2. QED  BY <1>2, <2>1, Frame DEF IInv
<1>3. CallInv(c)'
  BY SentinelsAreNot
     DEF IInv, TypeOK, CallInv, Untouched, Unregistered, Stages, Cancellation, Settlement,
         Unannounced, Announced, Telling, Said,
         Ended, Unasked, Register, callVars, futureVars, grantVars, sweepVars, logVars,
         countVars
<1>4. QED  BY <1>1, <1>2, <1>3 DEF IInv

\* A call is cancelled before its future exists.
LEMMA CutEarlyStep ==
    ASSUME IInv, NEW c \in Call, CutEarly(c)
    PROVE  IInv'
<1>1. TypeOK'
  BY BoundsAreNumbers, SentinelsAreNot
     DEF IInv, TypeOK, CutEarly, Leave, callVars, futureVars, grantVars, sweepVars, logVars,
         countVars
<1>2. ASSUME NEW b \in Call, b # c PROVE CallInv(b)'
  <2>1. Same(b)
    BY <1>2, SentinelsAreNot
       DEF IInv, TypeOK, Same, CutEarly, Leave, callVars, futureVars, grantVars, sweepVars,
           logVars, countVars
  <2>2. QED  BY <1>2, <2>1, Frame DEF IInv
<1>3. CallInv(c)'
  BY SentinelsAreNot
     DEF IInv, TypeOK, CallInv, Untouched, Unregistered, Stages, Cancellation, Settlement,
         Unannounced, Announced, Telling, Said,
         Ended, Unasked, CutEarly, Leave, callVars, futureVars, grantVars, sweepVars, logVars,
         countVars
<1>4. QED  BY <1>1, <1>2, <1>3 DEF IInv

\* The time limit of a call passes.
LEMMA TimeLimitStep ==
    ASSUME IInv, NEW c \in Call, TimeLimit(c)
    PROVE  IInv'
<1>1. TypeOK'
  BY BoundsAreNumbers, SentinelsAreNot
     DEF IInv, TypeOK, TimeLimit, callVars, futureVars, grantVars, sweepVars, logVars, countVars
<1>2. ASSUME NEW b \in Call, b # c PROVE CallInv(b)'
  <2>1. Same(b)
    BY <1>2, SentinelsAreNot
       DEF IInv, TypeOK, Same, TimeLimit, callVars, futureVars, grantVars, sweepVars, logVars,
           countVars
  <2>2. QED  BY <1>2, <2>1, Frame DEF IInv
<1>3. CallInv(c)'
  BY SentinelsAreNot
     DEF IInv, TypeOK, CallInv, Untouched, Unregistered, Stages, Cancellation, Settlement,
         Unannounced, Announced, Telling, Said,
         Ended, Unasked, TimeLimit, callVars, futureVars, grantVars, sweepVars, logVars,
         countVars
<1>4. QED  BY <1>1, <1>2, <1>3 DEF IInv

\* The task finds the result of its future.
LEMMA WakeStep ==
    ASSUME IInv, NEW c \in Call, Wake(c)
    PROVE  IInv'
<1>1. TypeOK'
  BY BoundsAreNumbers, SentinelsAreNot
     DEF IInv, TypeOK, Wake, FindsResult, HasResult, callVars, futureVars, grantVars, sweepVars,
         logVars, countVars
<1>2. ASSUME NEW b \in Call, b # c PROVE CallInv(b)'
  <2>1. Same(b)
    BY <1>2, SentinelsAreNot
       DEF IInv, TypeOK, Same, Wake, FindsResult, HasResult, callVars, futureVars, grantVars,
           sweepVars, logVars, countVars
  <2>2. QED  BY <1>2, <2>1, Frame DEF IInv
<1>3. CallInv(c)'
  BY SentinelsAreNot
     DEF IInv, TypeOK, CallInv, Untouched, Unregistered, Stages, Cancellation, Settlement,
         Unannounced, Announced, Telling, Said,
         Ended, Unasked, Wake, FindsResult, HasResult, callVars, futureVars, grantVars,
         sweepVars, logVars, countVars
<1>4. QED  BY <1>1, <1>2, <1>3 DEF IInv

\* The task finds that it is cancelled.
LEMMA WakeCutStep ==
    ASSUME IInv, NEW c \in Call, WakeCut(c)
    PROVE  IInv'
<1>1. TypeOK'
  BY BoundsAreNumbers, SentinelsAreNot
     DEF IInv, TypeOK, WakeCut, FindsCut, FindsResult, HasResult, Leave, callVars, futureVars,
         grantVars, sweepVars, logVars, countVars
<1>2. ASSUME NEW b \in Call, b # c PROVE CallInv(b)'
  <2>1. Same(b)
    BY <1>2, SentinelsAreNot
       DEF IInv, TypeOK, Same, WakeCut, FindsCut, FindsResult, HasResult, Leave, callVars,
           futureVars, grantVars, sweepVars, logVars, countVars
  <2>2. QED  BY <1>2, <2>1, Frame DEF IInv
<1>3. CallInv(c)'
  BY SentinelsAreNot
     DEF IInv, TypeOK, CallInv, Untouched, Unregistered, Stages, Cancellation, Settlement,
         Unannounced, Announced, Telling, Said,
         Ended, Unasked, WakeCut, FindsCut, FindsResult, HasResult, Leave, callVars, futureVars,
         grantVars, sweepVars, logVars, countVars
<1>4. QED  BY <1>1, <1>2, <1>3 DEF IInv

\* The task finds that its time is over.
LEMMA WakeLateStep ==
    ASSUME IInv, NEW c \in Call, WakeLate(c)
    PROVE  IInv'
<1>1. TypeOK'
  BY BoundsAreNumbers, SentinelsAreNot
     DEF IInv, TypeOK, WakeLate, FindsTimeout, FindsResult, HasResult, callVars, futureVars,
         grantVars, sweepVars, logVars, countVars
<1>2. ASSUME NEW b \in Call, b # c PROVE CallInv(b)'
  <2>1. Same(b)
    BY <1>2, SentinelsAreNot
       DEF IInv, TypeOK, Same, WakeLate, FindsTimeout, FindsResult, HasResult, callVars,
           futureVars, grantVars, sweepVars, logVars, countVars
  <2>2. QED  BY <1>2, <2>1, Frame DEF IInv
<1>3. CallInv(c)'
  BY SentinelsAreNot
     DEF IInv, TypeOK, CallInv, Untouched, Unregistered, Stages, Cancellation, Settlement,
         Unannounced, Announced, Telling, Said,
         Ended, Unasked, WakeLate, FindsTimeout, FindsResult, HasResult, callVars, futureVars,
         grantVars, sweepVars, logVars, countVars
<1>4. QED  BY <1>1, <1>2, <1>3 DEF IInv

\* The decision is in the ledger.
LEMMA RecordedStep ==
    ASSUME IInv, NEW c \in Call, Recorded(c)
    PROVE  IInv'
<1>0. noted[c] \in Decisions
  BY DEF IInv, TypeOK, CallInv, Settlement, Recorded
<1>1. TypeOK'
  BY <1>0, BoundsAreNumbers, SentinelsAreNot
     DEF IInv, TypeOK, Recorded, Leave, callVars, futureVars, grantVars, sweepVars, logVars,
         countVars
<1>2. ASSUME NEW b \in Call, b # c PROVE CallInv(b)'
  <2>1. Same(b)
    BY <1>2, SentinelsAreNot
       DEF IInv, TypeOK, Same, Recorded, Leave, callVars, futureVars, grantVars, sweepVars,
           logVars, countVars
  <2>2. QED  BY <1>2, <2>1, Frame DEF IInv
<1>3. CallInv(c)'
  BY SentinelsAreNot
     DEF IInv, TypeOK, CallInv, Untouched, Unregistered, Stages, Cancellation, Settlement,
         Unannounced, Announced, Telling, Said,
         Ended, Unasked, Recorded, Leave, callVars, futureVars, grantVars, sweepVars, logVars,
         countVars
<1>4. QED  BY <1>1, <1>2, <1>3 DEF IInv

\* The time-out is announced and in the ledger.
LEMMA ExpiredStep ==
    ASSUME IInv, NEW c \in Call, Expired(c)
    PROVE  IInv'
<1>1. TypeOK'
  BY BoundsAreNumbers, SentinelsAreNot
     DEF IInv, TypeOK, Expired, Leave, callVars, futureVars, grantVars, sweepVars, logVars,
         countVars
<1>2. ASSUME NEW b \in Call, b # c PROVE CallInv(b)'
  <2>1. Same(b)
    BY <1>2, SentinelsAreNot
       DEF IInv, TypeOK, Same, Expired, Leave, callVars, futureVars, grantVars, sweepVars,
           logVars, countVars
  <2>2. QED  BY <1>2, <2>1, Frame DEF IInv
<1>3. CallInv(c)'
  BY SentinelsAreNot
     DEF IInv, TypeOK, CallInv, Untouched, Unregistered, Stages, Cancellation, Settlement,
         Unannounced, Announced, Telling, Said,
         Ended, Unasked, Expired, Leave, callVars, futureVars, grantVars, sweepVars, logVars,
         countVars
<1>4. QED  BY <1>1, <1>2, <1>3 DEF IInv

\* A call is cancelled while it writes.
LEMMA CutWritingStep ==
    ASSUME IInv, NEW c \in Call, CutWriting(c)
    PROVE  IInv'
<1>0. pc[c] = "recording" => noted[c] \in Decisions
  BY DEF IInv, TypeOK, CallInv, Settlement
<1>1. TypeOK'
  BY <1>0, BoundsAreNumbers, SentinelsAreNot
     DEF IInv, TypeOK, CutWriting, Leave, callVars, futureVars, grantVars, sweepVars, logVars,
         countVars
<1>2. ASSUME NEW b \in Call, b # c PROVE CallInv(b)'
  <2>1. Same(b)
    BY <1>2, SentinelsAreNot
       DEF IInv, TypeOK, Same, CutWriting, Leave, callVars, futureVars, grantVars, sweepVars,
           logVars, countVars
  <2>2. QED  BY <1>2, <2>1, Frame DEF IInv
<1>3. CallInv(c)'
  BY SentinelsAreNot
     DEF IInv, TypeOK, CallInv, Untouched, Unregistered, Stages, Cancellation, Settlement,
         Unannounced, Announced, Telling, Said,
         Ended, Unasked, CutWriting, Leave, callVars, futureVars, grantVars, sweepVars, logVars,
         countVars
<1>4. QED  BY <1>1, <1>2, <1>3 DEF IInv

\* A write to the ledger fails.
LEMMA FailsStep ==
    ASSUME IInv, NEW c \in Call, Fails(c)
    PROVE  IInv'
<1>1. TypeOK'
  BY BoundsAreNumbers, SentinelsAreNot
     DEF IInv, TypeOK, Fails, Leave, callVars, futureVars, grantVars, sweepVars, logVars,
         countVars
<1>2. ASSUME NEW b \in Call, b # c PROVE CallInv(b)'
  <2>1. Same(b)
    BY <1>2, SentinelsAreNot
       DEF IInv, TypeOK, Same, Fails, Leave, callVars, futureVars, grantVars, sweepVars, logVars,
           countVars
  <2>2. QED  BY <1>2, <2>1, Frame DEF IInv
<1>3. CallInv(c)'
  BY SentinelsAreNot
     DEF IInv, TypeOK, CallInv, Untouched, Unregistered, Stages, Cancellation, Settlement,
         Unannounced, Announced, Telling, Said, Ended, Unasked, Fails, Leave, callVars,
         futureVars, grantVars, sweepVars, logVars, countVars
<1>4. QED  BY <1>1, <1>2, <1>3 DEF IInv

\* The user answers.
LEMMA AnswerStep ==
    ASSUME IInv, NEW c \in Call, NEW d \in Answers, Answer(c, d)
    PROVE  IInv'
<1>0. key[c] \in Key
  BY DEF IInv, TypeOK, CallInv, Stages, Settlement, Answer
<1>1. TypeOK'
  BY <1>0, BoundsAreNumbers, SentinelsAreNot
     DEF IInv, TypeOK, Answer, callVars, futureVars, grantVars, sweepVars, logVars, countVars
<1>2. ASSUME NEW b \in Call, b # c PROVE CallInv(b)'
  <2>1. Same(b)
    BY <1>2, SentinelsAreNot
       DEF IInv, TypeOK, Same, Answer, callVars, futureVars, grantVars, sweepVars, logVars,
           countVars
  <2>2. QED  BY <1>2, <2>1, Frame DEF IInv
<1>3. CallInv(c)'
  BY SentinelsAreNot
     DEF IInv, TypeOK, CallInv, Untouched, Unregistered, Stages, Cancellation, Settlement,
         Unannounced, Announced, Telling, Said,
         Ended, Unasked, Answer, callVars, futureVars, grantVars, sweepVars, logVars, countVars
<1>4. QED  BY <1>1, <1>2, <1>3 DEF IInv

\* The event of an answer is in the queue.
LEMMA AnnounceStep ==
    ASSUME IInv, NEW c \in Call, Announce(c)
    PROVE  IInv'
<1>0. answer[c] \in Answers
  BY DEF IInv, TypeOK, CallInv, Said, Unannounced, Announce
<1>1. TypeOK'
  BY <1>0, BoundsAreNumbers, SentinelsAreNot
     DEF IInv, TypeOK, Announce, callVars, futureVars, grantVars, sweepVars, logVars, countVars
<1>2. ASSUME NEW b \in Call, b # c PROVE CallInv(b)'
  <2>1. Same(b)
    BY <1>2, SentinelsAreNot
       DEF IInv, TypeOK, Same, Announce, callVars, futureVars, grantVars, sweepVars, logVars,
           countVars
  <2>2. QED  BY <1>2, <2>1, Frame DEF IInv
<1>3. CallInv(c)'
  BY <1>0, SentinelsAreNot
     DEF IInv, TypeOK, CallInv, Untouched, Unregistered, Stages, Cancellation, Settlement,
         Unannounced, Announced, Telling, Said, Ended, Unasked, Announce, callVars,
         futureVars, grantVars, sweepVars, logVars, countVars
<1>4. QED  BY <1>1, <1>2, <1>3 DEF IInv

\* The sweep takes a call.
LEMMA SweepStepOfCall ==
    ASSUME IInv, NEW c \in Call, Sweep(c)
    PROVE  IInv'
<1>1. TypeOK'
  BY BoundsAreNumbers, SentinelsAreNot
     DEF IInv, TypeOK, Sweep, callVars, futureVars, grantVars, sweepVars, logVars, countVars
<1>2. ASSUME NEW b \in Call, b # c PROVE CallInv(b)'
  <2>1. Same(b)
    BY <1>2, SentinelsAreNot
       DEF IInv, TypeOK, Same, Sweep, callVars, futureVars, grantVars, sweepVars, logVars,
           countVars
  <2>2. QED  BY <1>2, <2>1, Frame DEF IInv
<1>3. CallInv(c)'
  BY SentinelsAreNot
     DEF IInv, TypeOK, CallInv, Untouched, Unregistered, Stages, Cancellation, Settlement,
         Unannounced, Announced, Telling, Said,
         Ended, Unasked, Sweep, callVars, futureVars, grantVars, sweepVars, logVars, countVars
<1>4. QED  BY <1>1, <1>2, <1>3 DEF IInv

\* An abort hits every call in flight.
LEMMA AbortStep ==
    ASSUME IInv, Abort
    PROVE  IInv'
<1>1. TypeOK'
  BY BoundsAreNumbers, SentinelsAreNot
     DEF IInv, TypeOK, Abort, callVars, futureVars, grantVars, sweepVars, logVars, countVars
<1>2. ASSUME NEW b \in Call PROVE CallInv(b)'
  BY SentinelsAreNot
     DEF IInv, TypeOK, CallInv, Untouched, Unregistered, Stages, Cancellation, Settlement,
         Unannounced, Announced, Telling, Said,
         Ended, Unasked, Abort, callVars, futureVars, grantVars, sweepVars, logVars, countVars
<1>3. QED  BY <1>1, <1>2 DEF IInv

\* The permanent list is edited.
LEMMA EditStep ==
    ASSUME IInv, EditPermanent
    PROVE  IInv'
<1>1. TypeOK'
  BY BoundsAreNumbers, SentinelsAreNot
     DEF IInv, TypeOK, EditPermanent, callVars, futureVars, grantVars, sweepVars, logVars,
         countVars
<1>2. ASSUME NEW b \in Call PROVE CallInv(b)'
  BY SentinelsAreNot
     DEF IInv, TypeOK, CallInv, Untouched, Unregistered, Stages, Cancellation, Settlement,
         Unannounced, Announced, Telling, Said,
         Ended, Unasked, EditPermanent, callVars, futureVars, grantVars, sweepVars, logVars,
         countVars
<1>3. QED  BY <1>1, <1>2 DEF IInv

\* The sweep takes its snapshot.
LEMMA SweepBeginsStep ==
    ASSUME IInv, SweepBegins
    PROVE  IInv'
<1>1. TypeOK'
  BY BoundsAreNumbers, SentinelsAreNot
     DEF IInv, TypeOK, SweepBegins, callVars, futureVars, grantVars, sweepVars, logVars,
         countVars
<1>2. ASSUME NEW b \in Call PROVE CallInv(b)'
  BY SentinelsAreNot
     DEF IInv, TypeOK, CallInv, Untouched, Unregistered, Stages, Cancellation, Settlement,
         Unannounced, Announced, Telling, Said,
         Ended, Unasked, SweepBegins, callVars, futureVars, grantVars, sweepVars, logVars,
         countVars
<1>3. QED  BY <1>1, <1>2 DEF IInv

\* The sweep has announced a call.
LEMMA SweepToldStep ==
    ASSUME IInv, SweepTold
    PROVE  IInv'
<1>1. TypeOK'
  BY BoundsAreNumbers, SentinelsAreNot
     DEF IInv, TypeOK, SweepTold, callVars, futureVars, grantVars, sweepVars, logVars, countVars
<1>2. ASSUME NEW b \in Call PROVE CallInv(b)'
  BY SentinelsAreNot
     DEF IInv, TypeOK, CallInv, Untouched, Unregistered, Stages, Cancellation, Settlement,
         Unannounced, Announced, Telling, Said, Ended, Unasked, SweepTold, callVars, futureVars,
         grantVars, sweepVars, logVars, countVars
<1>3. QED  BY <1>1, <1>2 DEF IInv

\* The sweep ends because the ledger cannot be written.
LEMMA SweepFailsStep ==
    ASSUME IInv, SweepFails
    PROVE  IInv'
<1>1. TypeOK'
  BY BoundsAreNumbers, SentinelsAreNot
     DEF IInv, TypeOK, SweepFails, callVars, futureVars, grantVars, sweepVars, logVars, countVars
<1>2. ASSUME NEW b \in Call PROVE CallInv(b)'
  BY SentinelsAreNot
     DEF IInv, TypeOK, CallInv, Untouched, Unregistered, Stages, Cancellation, Settlement,
         Unannounced, Announced, Telling, Said, Ended, Unasked, SweepFails, callVars, futureVars,
         grantVars, sweepVars, logVars, countVars
<1>3. QED  BY <1>1, <1>2 DEF IInv

\* The sweep has recorded a call.
LEMMA SweepRecordedStep ==
    ASSUME IInv, SweepRecorded
    PROVE  IInv'
<1>1. TypeOK'
  BY BoundsAreNumbers, SentinelsAreNot
     DEF IInv, TypeOK, SweepRecorded, callVars, futureVars, grantVars, sweepVars, logVars,
         countVars
<1>2. ASSUME NEW b \in Call PROVE CallInv(b)'
  BY SentinelsAreNot
     DEF IInv, TypeOK, CallInv, Untouched, Unregistered, Stages, Cancellation, Settlement,
         Unannounced, Announced, Telling, Said,
         Ended, Unasked, SweepRecorded, callVars, futureVars, grantVars, sweepVars, logVars,
         countVars
<1>3. QED  BY <1>1, <1>2 DEF IInv

\* The sweep forgets the thread.
LEMMA SweepEndsStep ==
    ASSUME IInv, SweepEnds
    PROVE  IInv'
<1>1. TypeOK'
  BY BoundsAreNumbers, SentinelsAreNot
     DEF IInv, TypeOK, SweepEnds, callVars, futureVars, grantVars, sweepVars, logVars, countVars
<1>2. ASSUME NEW b \in Call PROVE CallInv(b)'
  BY SentinelsAreNot
     DEF IInv, TypeOK, CallInv, Untouched, Unregistered, Stages, Cancellation, Settlement,
         Unannounced, Announced, Telling, Said,
         Ended, Unasked, SweepEnds, callVars, futureVars, grantVars, sweepVars, logVars,
         countVars
<1>3. QED  BY <1>1, <1>2 DEF IInv

\* Every step keeps the invariant.
LEMMA NextIInv == IInv /\ [Next]_vars => IInv'
<1> SUFFICES ASSUME IInv, [Next]_vars PROVE IInv'
  OBVIOUS
<1>1. ASSUME NEW c \in Call, Check(c) PROVE IInv'
  BY <1>1, CheckStep
<1>2. ASSUME NEW c \in Call, CallStep(c) PROVE IInv'
  BY <1>2, RegisterStep, CutEarlyStep, TimeLimitStep, WakeStep, WakeCutStep, WakeLateStep,
      RecordedStep, ExpiredStep, CutWritingStep, FailsStep DEF CallStep
<1>3. ASSUME NEW c \in Call, NEW d \in Answers, Answer(c, d) PROVE IInv'
  BY <1>3, AnswerStep
<1>4. CASE Abort
  BY <1>4, AbortStep
<1>5. CASE SweepStep
  BY <1>5, SweepBeginsStep, SweepToldStep, SweepRecordedStep, SweepFailsStep, SweepEndsStep,
      SweepStepOfCall DEF SweepStep
<1>6. CASE EditPermanent
  BY <1>6, EditStep
<1>7. CASE UNCHANGED vars
  <2>1. TypeOK'
    BY <1>7 DEF IInv, TypeOK, vars, callVars, futureVars, grantVars, sweepVars, logVars, countVars
  <2>2. ASSUME NEW b \in Call PROVE Same(b)
    BY <1>7 DEF Same, vars, callVars, futureVars, grantVars, sweepVars, logVars, countVars
  <2>3. QED  BY <2>1, <2>2, Frame DEF IInv
<1>8. ASSUME NEW c \in Call, Announce(c) PROVE IInv'
  BY <1>8, AnnounceStep
<1>9. QED
  BY <1>1, <1>2, <1>3, <1>4, <1>5, <1>6, <1>7, <1>8 DEF Next

\* In every reachable state the future, the answer, the sweep, frontend and
\* ledger tell one story of each call.
THEOREM Invariance == Spec => []IInv
<1>1. QED  BY InitIInv, NextIInv, PTL DEF Spec

\* A tool whose user was asked runs only after an answer that allows it, in
\* whatever order answer, time-out, abort and sweep reach its task.
THEOREM RunsOnlyIfAllowedHolds == Spec => []RunsOnlyIfAllowed
<1>1. IInv => RunsOnlyIfAllowed
  BY DEF IInv, TypeOK, CallInv, Unregistered, Ended, RunsOnlyIfAllowed, Asked
<1>2. QED  BY <1>1, Invariance, PTL

\* An answer that was accepted decides how the call ends.
THEOREM AnswerDecidesHolds == Spec => []AnswerDecides
<1>1. IInv => AnswerDecides
  BY DEF IInv, TypeOK, CallInv, Untouched, Unregistered, Ended, AnswerDecides
<1>2. QED  BY <1>1, Invariance, PTL

\* Frontend and ledger are told one and the same decision, once, about a
\* call that no abort touched and no error ended; the frontend perhaps after
\* the call is over, or never if an abort cancelled the ApprovalResponse.
THEOREM LedgerAgreesHolds == Spec => []LedgerAgrees
<1>1. ASSUME IInv, NEW c \in Call \ (hit \cup swept), Asked(c), out[c] # "error",
             python = "3.11" \/ c \notin late \/ answer[c] = None
      PROVE  \E d \in Decisions :
                /\ ledger[c] = {d}
                /\ told[c] = IF c \in unsaid \cup lost THEN {} ELSE {d}
                /\ answer[c] \in {None, d}
  <2>1. pc[c] = "done" /\ future[c] # None /\ Untouched(c)
    BY <1>1 DEF IInv, TypeOK, CallInv, Unregistered, Asked, Untouched
  <2>2. CASE answer[c] = None
    BY <1>1, <2>1, <2>2 DEF IInv, CallInv, Ended, Said, Unannounced
  <2>3. CASE answer[c] # None
    <3>1. told[c] = Announced(c) /\ ledger[c] = {answer[c]}
      BY <1>1, <2>1, <2>3 DEF IInv, CallInv, Ended
    <3>2. answer[c] \in Decisions
      BY <1>1, <2>3 DEF IInv, TypeOK
    <3>3. QED  BY <2>3, <3>1, <3>2 DEF Announced, Unannounced
  <2>4. QED  BY <2>2, <2>3
<1>2. IInv => LedgerAgrees
  BY <1>1 DEF LedgerAgrees
<1>3. QED  BY <1>2, Invariance, PTL

\* What an abort and a sweep leave behind: no call that runs against the
\* abort, no denied call the frontend is not told of (but for the answer an
\* abort took back), no entry that could still be answered.
THEOREM ApprovalsConsistent == Spec => []Consistent
<1>1. IInv => AbortStops
  BY DEF IInv, TypeOK, CallInv, Stages, Ended, Unasked, AbortStops
<1>2. IInv => DeniedIsTold
  BY DEF IInv, TypeOK, CallInv, Stages, Unregistered, Ended, Unannounced, DeniedIsTold, Asked
<1>3. IInv => NothingLeftBehind
  BY DEF IInv, CallInv, Stages, NothingLeftBehind
<1>4. IInv => Consistent
  BY <1>1, <1>2, <1>3 DEF IInv, Consistent
<1>5. QED  BY <1>4, Invariance, PTL

=============================================================================
