------------------------------ MODULE Gateway ------------------------------
(***************************************************************************)
(* The headless gateway (miqi/cli/gateway_cmd.py): the cron service, the   *)
(* dispatcher of channel messages and the heartbeat share one runtime.     *)
(* on_job is an ask with a time limit of its own; the dispatcher starts a  *)
(* task, one ask, for every message; a heartbeat is one more sender.       *)
(***************************************************************************)
EXTENDS Asks, Cron

CONSTANT Sender  \* chats whose messages are dispatched, and the heartbeat

ASSUME CallerAssumption == Caller = Sender \cup Job /\ Sender \cap Job = {}

gatewayAllVars == <<askVars, cronVars>>

TypeOK == AsksTypeOK /\ CronTypeOK

Init == AsksInit /\ CronInit

-----------------------------------------------------------------------------
Dispatch(c) == timer # "down" /\ Ask(c) /\ UNCHANGED cronVars

BeginJob(j) == Begin(j) /\ Ask(j)

\* The job is over when its ask has returned, raised or been cancelled.
FinishJob ==
    /\ current # NoJob /\ ask[current] = "idle"
    /\ Finish
    /\ UNCHANGED askVars

\* wait_for(on_job, job_timeout), the guard against a stuck job.
JobTimeOut ==
    /\ current # NoJob /\ Cancel(current)
    /\ UNCHANGED cronVars

Asking ==
    /\ \/ \E c \in Caller : Submit(c) \/ Read(c) \/ TimeOut(c)
       \/ \E kind \in {"answer", "error"} : TurnEnds(kind)
       \/ Warn
    /\ UNCHANGED cronVars

\* The runtime, its queue and its callers go with the process.
Die == Crash /\ AsksRestart

Scheduling ==
    /\ Start \/ Wake \/ SaveAndArm \/ \E j \in Job : Elapse(j)
    /\ UNCHANGED askVars

Elsewhere == UserStep /\ UNCHANGED askVars

Next ==
    \/ \E c \in Sender : Dispatch(c)
    \/ \E j \in Job : BeginJob(j)
    \/ FinishJob \/ JobTimeOut \/ Die
    \/ Asking \/ Scheduling \/ Elsewhere

Spec == Init /\ [][Next]_gatewayAllVars

(***************************************************************************)
(* Fairness: the event loop runs what is ready, and every turn ends, with  *)
(* an answer or an error (TurnsServed of RuntimeSession).                  *)
(***************************************************************************)
Fairness ==
    /\ \A c \in Caller :
        /\ WF_gatewayAllVars(Submit(c) /\ UNCHANGED cronVars)
        /\ WF_gatewayAllVars(Read(c) /\ UNCHANGED cronVars)
    /\ WF_gatewayAllVars((\E kind \in {"answer", "error"} : TurnEnds(kind)) /\ UNCHANGED cronVars)
    /\ WF_gatewayAllVars((Wake \/ SaveAndArm) /\ UNCHANGED askVars)
    /\ WF_gatewayAllVars(FinishJob) /\ WF_gatewayAllVars(\E j \in Job : BeginJob(j))

FairSpec == Spec /\ Fairness

-----------------------------------------------------------------------------
(* Properties                                                              *)

\* File, memory and what runs agree; the queue holds what was given up.
Consistent == TypeOK /\ NeverCatchesUp /\ RunsWanted /\ SavedIsTrue

\* Every ask of the gateway ends, however many wait for the runtime and
\* whichever of them are given up.
EveryAskEnds == \A c \in Caller : (ask[c] # "idle") ~> (ask[c] = "idle")

\* Neither a job that is due nor an ask waits for ever.
Progress == DueRuns /\ EveryAskEnds
=============================================================================
