----------------------------- MODULE Approvals -----------------------------
(***************************************************************************)
(* Permission and approval of the tool calls of one thread:                *)
(* ToolOrchestrator (miqi/execution/orchestrator.py), PermissionEngine     *)
(* (permission_engine.py), and the handlers that answer an approval, abort *)
(* the turn or edit the permanent list.                                    *)
(*                                                                         *)
(* A call that needs the user announces a request, registers a future and  *)
(* waits for it.  Three parties settle the future: the user's answer, the  *)
(* time-out, and the abort of the turn, which first cancels the call's     *)
(* task and then sweeps the thread's approvals.  Each writes an event for  *)
(* the frontend and an item for the ledger, at awaits of its own: the      *)
(* events go to a bounded queue and may wait there, the ledger is a        *)
(* database and may fail.                                                  *)
(*                                                                         *)
(* The project supports Python 3.11 and later, and asyncio.wait_for        *)
(* differs: in 3.11 a result that is there when the task wakes survives a  *)
(* time-out and even a cancellation; from 3.12 both cancel the future at   *)
(* once and win over an answer the task has not woken for.                 *)
(***************************************************************************)
EXTENDS FiniteSets, Naturals

CONSTANTS
    Call,       \* tool calls
    Key,        \* what a grant is keyed by: tool and arguments
    NoCall,     \* "no call"
    NoKey,
    MaxAborts,  \* bound: how many AbortTurn submissions there are
    MaxEdits    \* bound: how often the permanent list is edited

ASSUME SentinelsAreNot == NoCall \notin Call /\ NoKey \notin Key
ASSUME BoundsAreNumbers == MaxAborts \in Nat /\ MaxEdits \in Nat

VARIABLES
    python,     \* the asyncio.wait_for of the build
    pc,         \* ToolOrchestrator.execute of each call
    out,        \* how it ends: the tool runs, or why it does not
    key,        \* the key of the call, once it is known to need permission
    future,     \* the future in _pending_approvals
    answer,     \* resolved_decision in _approval_meta, kept as history
    pending,    \* the keys of _pending_approvals and _approval_meta
    byThread,   \* _thread_approvals of the thread
    noted,      \* the decision a call is writing to the ledger
    late,       \* calls whose time limit has passed
    cut,        \* calls whose task is cancelled and has not noticed
    granted,    \* session_allowlist
    engine,     \* permanent_allowlist of the session's engine
    saved,      \* the global permanent list, persisted
    sweep,      \* cancel_approvals_for_thread: where it is
    left, at,   \* its snapshot, and the call whose abort it announces and records
    unsaid,     \* calls with an accepted answer whose event is not in the queue yet
    told,       \* history: decisions of ApprovalResolvedEvents
    ledger,     \* history: decisions of approval_resolved items
    hit,        \* history: calls that were in flight when an abort came
    swept,      \* history: calls whose approval a sweep took
    lost,       \* history: calls whose answer's event an abort took back
    aborts, edits   \* history: how many so far

callVars == <<pc, out, key, noted>>
futureVars == <<future, answer, pending, byThread, late, cut>>
grantVars == <<granted, engine, saved>>
sweepVars == <<sweep, left, at>>
logVars == <<unsaid, told, ledger>>
countVars == <<python, hit, swept, lost, aborts, edits>>
vars == <<callVars, futureVars, grantVars, sweepVars, logVars, countVars>>

None == "none"
Allowing == {"once", "session", "always"}
Answers == Allowing \cup {"deny"}
Decisions == Answers \cup {"timeout", "abort"}
InFlight == {"announcing", "waiting", "recording", "expiring"}

TypeOK ==
    /\ python \in {"3.11", "3.12"}
    /\ pc \in [Call -> InFlight \cup {"new", "done"}]
    /\ out \in [Call -> {None, "run", "denied", "timeout", "cancelled", "error"}]
    /\ key \in [Call -> Key \cup {NoKey}]
    /\ future \in [Call -> {None, "open", "allow", "deny", "gone"}]
    /\ answer \in [Call -> Answers \cup {None}]
    /\ noted \in [Call -> Answers \cup {None}]
    /\ pending \subseteq Call /\ byThread \subseteq Call
    /\ late \subseteq Call /\ cut \subseteq Call /\ hit \subseteq Call /\ swept \subseteq Call
    /\ unsaid \subseteq Call /\ lost \subseteq Call
    /\ granted \subseteq Key /\ engine \subseteq Key /\ saved \subseteq Key
    /\ sweep \in {"off", "due", "on", "telling", "writing"} /\ left \subseteq Call /\ at \in Call \cup {NoCall}
    /\ told \in [Call -> SUBSET Decisions] /\ ledger \in [Call -> SUBSET Decisions]
    /\ aborts \in 0..MaxAborts /\ edits \in 0..MaxEdits

Init ==
    /\ python \in {"3.11", "3.12"}
    /\ pc = [c \in Call |-> "new"] /\ out = [c \in Call |-> None]
    /\ key = [c \in Call |-> NoKey] /\ noted = [c \in Call |-> None]
    /\ future = [c \in Call |-> None] /\ answer = [c \in Call |-> None]
    /\ pending = {} /\ byThread = {} /\ late = {} /\ cut = {}
    /\ hit = {} /\ swept = {} /\ unsaid = {} /\ lost = {}
    /\ granted = {} /\ engine = {} /\ saved = {}
    /\ sweep = "off" /\ left = {} /\ at = NoCall
    /\ told = [c \in Call |-> {}] /\ ledger = [c \in Call |-> {}]
    /\ aborts = 0 /\ edits = 0

-----------------------------------------------------------------------------
(* PermissionEngine.check                                                  *)

\* What check looks at.  blocked: a deny pattern or the SURE path guard;
\* card: the confirmation card itself; mode: bypass_approval, force_approval
\* or neither; rule: what the tool's category, the profile and the user's
\* bypass settings say.
Request ==
    [blocked : BOOLEAN, card : BOOLEAN, mode : {"bypass", "manual", "edit"},
     key : Key, rule : {"allow", "deny", "ask"}]

Granted(k) == k \in granted \cup engine \cup saved

\* The first that applies decides; a grant comes before the rule.
Verdict(q) ==
    CASE q.blocked -> "deny"
      [] q.card \/ q.mode = "bypass" -> "allow"
      [] q.mode = "manual" -> "ask"
      [] Granted(q.key) -> "allow"
      [] OTHER -> q.rule

\* The call is checked: it runs, is denied - by a rule, a hook, or because
\* nobody could answer -, or the request is shown to the user.
Check(c) ==
    /\ pc[c] = "new"
    /\ \E q \in Request :
        /\ key' = [key EXCEPT ![c] = q.key]
        /\ \/ /\ Verdict(q) = "allow"
              /\ pc' = [pc EXCEPT ![c] = "done"]
              /\ out' = [out EXCEPT ![c] = "run"]
           \/ /\ Verdict(q) \in {"deny", "ask"}
              /\ pc' = [pc EXCEPT ![c] = "done"]
              /\ out' = [out EXCEPT ![c] = "denied"]
           \/ /\ Verdict(q) = "ask"
              /\ pc' = [pc EXCEPT ![c] = "announcing"]
              /\ UNCHANGED out
    /\ UNCHANGED <<noted, futureVars, grantVars, sweepVars, logVars, countVars>>

-----------------------------------------------------------------------------
(* _request_approval                                                       *)

\* The event is out and the ledger written: only now the future exists.
Register(c) ==
    /\ pc[c] = "announcing" /\ c \notin cut
    /\ pc' = [pc EXCEPT ![c] = "waiting"]
    /\ future' = [future EXCEPT ![c] = "open"]
    /\ pending' = pending \cup {c} /\ byThread' = byThread \cup {c}
    /\ UNCHANGED <<out, key, noted, answer, late, cut, grantVars, sweepVars, logVars, countVars>>

\* The finally clause, and execute's result.
Leave(c, result) ==
    /\ pc' = [pc EXCEPT ![c] = "done"]
    /\ out' = [out EXCEPT ![c] = result]
    /\ pending' = pending \ {c} /\ byThread' = byThread \ {c}
    /\ cut' = cut \ {c}

\* Cancelled before the future exists: nothing to clean up, no event.
CutEarly(c) ==
    /\ pc[c] = "announcing" /\ c \in cut
    /\ Leave(c, "cancelled")
    /\ UNCHANGED <<key, noted, future, answer, late, grantVars, sweepVars, logVars, countVars>>

HasResult(c) == future[c] \in {"allow", "deny"}

WaitForever(c) == FALSE  \* mutant: the wait has no time limit

\* The time limit passes.  From 3.12 this cancels the future.
TimeLimit(c) ==
    /\ pc[c] = "waiting" /\ c \notin late \cup cut
    /\ late' = late \cup {c}
    /\ future' = IF python = "3.12" /\ future[c] = "open"
                 THEN [future EXCEPT ![c] = "gone"] ELSE future
    /\ UNCHANGED <<callVars, answer, pending, byThread, cut, grantVars, sweepVars, logVars, countVars>>

FindsResultInTime(c) ==  \* mutant: a time-out always wins over an answer
    HasResult(c) /\ c \notin late /\ (python = "3.11" \/ c \notin cut)

\* What the waiting task finds when it runs: a result, a cancellation or
\* the end of its time.
FindsResult(c) == HasResult(c) /\ (python = "3.11" \/ c \notin late \cup cut)
FindsCut(c) == c \in cut /\ ~FindsResult(c)
FindsTimeout(c) == c \in late \ cut /\ ~FindsResult(c)

WakeNotesVerdict(c) ==  \* mutant: the verdict is written, not the decision
    /\ pc[c] = "waiting" /\ FindsResult(c)
    /\ pc' = [pc EXCEPT ![c] = "recording"]
    /\ noted' = [noted EXCEPT ![c] = IF future[c] = "allow" THEN "once" ELSE "deny"]
    /\ cut' = cut \ {c}
    /\ UNCHANGED <<out, key, future, answer, pending, byThread, late,
                   grantVars, sweepVars, logVars, countVars>>

\* The decision is read from _approval_meta, "deny" when a sweep took it.
Wake(c) ==
    /\ pc[c] = "waiting" /\ FindsResult(c)
    /\ pc' = [pc EXCEPT ![c] = "recording"]
    /\ noted' = [noted EXCEPT ![c] =
                    IF c \in pending /\ answer[c] # None THEN answer[c] ELSE "deny"]
    /\ cut' = cut \ {c}
    /\ UNCHANGED <<out, key, future, answer, pending, byThread, late,
                   grantVars, sweepVars, logVars, countVars>>

WakeCut(c) ==
    /\ pc[c] = "waiting" /\ FindsCut(c)
    /\ future' = [future EXCEPT ![c] = "gone"]
    /\ Leave(c, "cancelled")
    /\ UNCHANGED <<key, noted, answer, late, grantVars, sweepVars, logVars, countVars>>

WakeLate(c) ==
    /\ pc[c] = "waiting" /\ FindsTimeout(c)
    /\ future' = [future EXCEPT ![c] = "gone"]
    /\ pc' = [pc EXCEPT ![c] = "expiring"]
    /\ UNCHANGED <<out, key, noted, answer, pending, byThread, late, cut,
                   grantVars, sweepVars, logVars, countVars>>

\* The ledger item is written and the verdict returned to execute.
Recorded(c) ==
    /\ pc[c] = "recording" /\ c \notin cut
    /\ ledger' = [ledger EXCEPT ![c] = @ \cup {noted[c]}]
    /\ Leave(c, IF future[c] = "allow" THEN "run" ELSE "denied")
    /\ UNCHANGED <<key, noted, future, answer, late, unsaid, told, grantVars, sweepVars, countVars>>

ExpiredOpen(c) ==  \* mutant: a request nobody answers counts as allowed
    /\ pc[c] = "expiring" /\ c \notin cut
    /\ told' = [told EXCEPT ![c] = @ \cup {"timeout"}]
    /\ ledger' = [ledger EXCEPT ![c] = @ \cup {"timeout"}]
    /\ Leave(c, "run")
    /\ UNCHANGED <<key, noted, future, answer, late, unsaid, grantVars, sweepVars, countVars>>

\* Event and ledger item of the time-out.
Expired(c) ==
    /\ pc[c] = "expiring" /\ c \notin cut
    /\ told' = [told EXCEPT ![c] = @ \cup {"timeout"}]
    /\ ledger' = [ledger EXCEPT ![c] = @ \cup {"timeout"}]
    /\ Leave(c, "timeout")
    /\ UNCHANGED <<key, noted, future, answer, late, unsaid, grantVars, sweepVars, countVars>>

\* A cancellation while it writes: some of it is written.
CutWriting(c) ==
    /\ pc[c] \in {"recording", "expiring"} /\ c \in cut
    /\ \/ UNCHANGED <<told, ledger>>
       \/ /\ pc[c] = "recording"
          /\ ledger' = [ledger EXCEPT ![c] = @ \cup {noted[c]}]
          /\ UNCHANGED told
       \/ /\ pc[c] = "expiring"
          /\ told' = [told EXCEPT ![c] = @ \cup {"timeout"}]
          /\ ledger' \in {ledger, [ledger EXCEPT ![c] = @ \cup {"timeout"}]}
    /\ Leave(c, "cancelled")
    /\ UNCHANGED <<key, noted, future, answer, late, unsaid, grantVars, sweepVars, countVars>>

\* The ledger cannot be written - the request, the decision or, after its
\* event, the time-out: execute makes an error of it, whatever was decided.
Fails(c) ==
    /\ pc[c] \in {"announcing", "recording", "expiring"} /\ c \notin cut
    /\ told' = IF pc[c] = "expiring" THEN [told EXCEPT ![c] = @ \cup {"timeout"}] ELSE told
    /\ Leave(c, "error")
    /\ UNCHANGED <<key, noted, future, answer, late, unsaid, ledger, grantVars, sweepVars, countVars>>

-----------------------------------------------------------------------------
(* approvals.resolve and ApprovalResponse                                  *)

\* resolve_approval: an answer for a future that is missing or done is
\* refused; otherwise it leaves its grant and settles the future.
Answer(c, d) ==
    /\ c \in pending /\ future[c] = "open"
    /\ granted' = IF d = "session" THEN granted \cup {key[c]} ELSE granted
    /\ engine' = IF d = "always" THEN engine \cup {key[c]} ELSE engine
    /\ saved' = IF d = "always" THEN saved \cup {key[c]} ELSE saved
    /\ answer' = [answer EXCEPT ![c] = d]
    /\ future' = [future EXCEPT ![c] = IF d = "deny" THEN "deny" ELSE "allow"]
    /\ unsaid' = unsaid \cup {c}
    /\ UNCHANGED <<callVars, pending, byThread, late, cut, told, ledger, sweepVars, countVars>>

\* Its ApprovalResolvedEvent is in the queue: the handler awaits the put
\* after the future is settled, and the call goes on meanwhile.
Announce(c) ==
    /\ c \in unsaid
    /\ unsaid' = unsaid \ {c}
    /\ told' = [told EXCEPT ![c] = @ \cup {answer[c]}]
    /\ UNCHANGED <<callVars, futureVars, grantVars, sweepVars, ledger, countVars>>

\* approvals.add_permanent and approvals.clear_permanent, which restore the
\* list when it cannot be saved.  They do not reach the session's engine.
EditPermanent ==
    /\ edits < MaxEdits
    /\ edits' = edits + 1
    /\ \E k \in Key : saved' \in {saved \cup {k}, saved \ {k}, {}}
    /\ UNCHANGED <<callVars, futureVars, granted, engine, sweepVars, logVars, python, hit, swept, lost, aborts>>

-----------------------------------------------------------------------------
(* AbortTurn                                                               *)

AbortOnlySweeps ==  \* mutant: the turn's task is not cancelled
    /\ aborts < MaxAborts /\ sweep = "off"
    /\ aborts' = aborts + 1
    /\ hit' = hit \cup {c \in Call : pc[c] \in InFlight}
    /\ sweep' = "due"
    /\ UNCHANGED <<callVars, futureVars, left, at, grantVars, logVars, python, swept, lost, edits>>

\* The turn's task is cancelled, and with it the calls it waits for.  The
\* turn may be an ApprovalResponse, whose event is lost if it has to wait.
\* The session then awaits its auxiliary tasks before it sweeps.
Abort ==
    /\ aborts < MaxAborts /\ sweep = "off"
    /\ aborts' = aborts + 1
    /\ LET flying == {c \in Call : pc[c] \in InFlight} IN
        /\ cut' = cut \cup flying /\ hit' = hit \cup flying
        /\ future' = [c \in Call |->
                        IF python = "3.12" /\ c \in flying /\ future[c] = "open"
                        THEN "gone" ELSE future[c]]
    /\ \E dropped \in {{}} \cup {{c} : c \in unsaid} :
        unsaid' = unsaid \ dropped /\ lost' = lost \cup dropped
    /\ sweep' = "due"
    /\ UNCHANGED <<callVars, answer, pending, byThread, late, left, at,
                   grantVars, told, ledger, python, swept, edits>>

\* cancel_approvals_for_thread takes a snapshot ...
SweepBegins ==
    /\ sweep = "due"
    /\ sweep' = "on" /\ left' = byThread
    /\ UNCHANGED <<callVars, futureVars, at, grantVars, logVars, countVars>>

\* ... and denies what is still open, and drops the entries
Sweep(c) ==
    /\ sweep = "on" /\ c \in left
    /\ left' = left \ {c} /\ at' = c /\ sweep' = "telling"
    /\ future' = IF c \in pending /\ future[c] = "open"
                 THEN [future EXCEPT ![c] = "deny"] ELSE future
    /\ pending' = pending \ {c}
    /\ swept' = swept \cup {c}
    /\ UNCHANGED <<callVars, answer, byThread, late, cut, grantVars, logVars,
                   python, hit, lost, aborts, edits>>

\* ... announces the abort
SweepTold ==
    /\ sweep = "telling" /\ at # NoCall
    /\ told' = [told EXCEPT ![at] = @ \cup {"abort"}]
    /\ sweep' = "writing"
    /\ UNCHANGED <<callVars, futureVars, grantVars, left, at, unsaid, ledger, countVars>>

\* ... and records it, for one call after the other ...
SweepRecorded ==
    /\ sweep = "writing" /\ at # NoCall
    /\ ledger' = [ledger EXCEPT ![at] = @ \cup {"abort"}]
    /\ at' = NoCall /\ sweep' = "on"
    /\ UNCHANGED <<callVars, futureVars, grantVars, left, unsaid, told, countVars>>

\* ... but for a ledger that cannot be written, which ends the sweep ...
SweepFails ==
    /\ sweep = "writing"
    /\ sweep' = "off" /\ at' = NoCall /\ left' = {}
    /\ UNCHANGED <<callVars, futureVars, grantVars, logVars, countVars>>

\* ... and forgets the thread, a request that came meanwhile included.
SweepEnds ==
    /\ sweep = "on" /\ left = {}
    /\ sweep' = "off" /\ byThread' = {}
    /\ UNCHANGED <<callVars, future, answer, pending, late, cut, left, at,
                   grantVars, logVars, countVars>>

-----------------------------------------------------------------------------
CallStep(c) ==
    \/ Register(c) \/ CutEarly(c) \/ TimeLimit(c) \/ Wake(c) \/ WakeCut(c) \/ WakeLate(c)
    \/ Recorded(c) \/ Expired(c) \/ CutWriting(c) \/ Fails(c)

SweepStep ==
    \/ SweepBegins \/ SweepTold \/ SweepRecorded \/ SweepFails \/ SweepEnds
    \/ \E c \in Call : Sweep(c)

Next ==
    \/ \E c \in Call : Check(c) \/ CallStep(c) \/ Announce(c) \/ \E d \in Answers : Answer(c, d)
    \/ Abort \/ SweepStep \/ EditPermanent

Spec == Init /\ [][Next]_vars

(***************************************************************************)
(* Fairness: the event loop runs a call that is not waiting for a person,  *)
(* and the time limit of one that is passes (the default is a minute); a   *)
(* sweep and the handler of an answer go on, because the event queue is    *)
(* drained.                                                                *)
(***************************************************************************)
FairSpec ==
    /\ Spec /\ WF_vars(SweepStep)
    /\ \A c \in Call : WF_vars(CallStep(c)) /\ WF_vars(Announce(c))

-----------------------------------------------------------------------------
(* Properties                                                              *)

Asked(c) == pc[c] = "done" /\ (told[c] # {} \/ ledger[c] # {} \/ future[c] # None)

\* A tool whose user was asked runs only after an answer that allows it,
\* whatever the time-out and an abort do at the same moment.
RunsOnlyIfAllowed ==
    \A c \in Call : out[c] = "run" /\ Asked(c) => answer[c] \in Allowing

\* An abort stops a call that waits for the user: it does not run, except
\* where Python 3.11 keeps an answer that was there already.
AbortStops ==
    \A c \in hit : out[c] = "run" => python = "3.11" /\ answer[c] \in Allowing

\* An answer that was accepted decides: the user is not told "allowed" while
\* the call is denied.  From 3.12 a time-out in the same moment wins, and a
\* ledger that cannot be written makes an error of any call.
AnswerDecides ==
    \A c \in Call \ (hit \cup swept) :
        /\ pc[c] = "done" /\ out[c] # "error" /\ answer[c] # None
        /\ python = "3.11" \/ c \notin late
        => out[c] = IF answer[c] \in Allowing THEN "run" ELSE "denied"

\* Frontend and ledger are told one and the same decision, once, about a
\* call that no abort touched and no error ended.  The frontend may be told
\* after the call has ended, when its queue is full, and is not told if an
\* abort cancels the ApprovalResponse that waits for it.
LedgerAgrees ==
    \A c \in Call \ (hit \cup swept) :
        /\ Asked(c) /\ out[c] # "error"
        /\ python = "3.11" \/ c \notin late \/ answer[c] = None
        => \E d \in Decisions :
            /\ ledger[c] = {d}
            /\ told[c] = IF c \in unsaid \cup lost THEN {} ELSE {d}
            /\ answer[c] \in {None, d}

Telling(c) == at = c /\ sweep = "telling"

\* What a sweep or the user denies the frontend is told of, unless an abort
\* cancelled the ApprovalResponse.
DeniedIsTold ==
    \A c \in Call :
        out[c] = "denied" /\ Asked(c) => told[c] # {} \/ c \in unsaid \cup lost \/ Telling(c)

\* A call that is over has no entry left that could be answered or listed.
NothingLeftBehind == \A c \in Call : pc[c] = "done" => c \notin pending \cup byThread

\* What an abort and a sweep leave behind: no call that runs, no open card,
\* no entry that could still be answered.
Consistent == TypeOK /\ AbortStops /\ DeniedIsTold /\ NothingLeftBehind

\* The card a request shows is closed by an event, unless its call is
\* cancelled - a call that leaves before the sweep begins is not swept -, a
\* write failed or the event was lost.
CardCloses(c) == told[c] # {} \/ out[c] \in {"cancelled", "error"} \/ c \in lost

\* Every call that asks ends, and its card is closed.
EveryCallEnds ==
    \A c \in Call : pc[c] = "announcing" ~> pc[c] = "done" /\ CardCloses(c)
=============================================================================
