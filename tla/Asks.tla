-------------------------------- MODULE Asks --------------------------------
(***************************************************************************)
(* RuntimeClient.ask (miqi/runtime/client.py): every caller of a headless  *)
(* runtime submits a message and reads the runtime's one event queue until *)
(* an answer or an error comes.  A lock of the runtime admits one caller   *)
(* at a time.  A caller that gives up leaves its turn running: its answer  *)
(* is nobody's, and stays in the queue for the next reader.                *)
(*                                                                         *)
(* The runtime is what RuntimeSession promises: turns run one by one, in   *)
(* the order of submission, and each ends in one answer or one error.      *)
(***************************************************************************)
EXTENDS Naturals, Sequences, FiniteSets, SequencesExt

CONSTANTS
    Caller,   \* who asks; a caller asks again and again, one ask at a time
    MaxSlips  \* bound: how many asks are given up before their turn ends

ASSUME SlipsAssumption == MaxSlips \in Nat

VARIABLES
    ask,      \* where the call of ask() is
    line,     \* runtime._ask_lock: the holder, then the waiters
    turns,    \* whose messages the runtime has not answered, the first runs
    events,   \* the event queue: answers and errors, and whose they are
    got,      \* whose answer the latest ask of a caller returned
    warned,   \* the running turn has emitted its warning
    slips     \* history: asks given up before their turn ended, and warnings

askVars == <<ask, line, turns, events, got, warned, slips>>

None == "none"
Nobody == "nobody"

AsksTypeOK ==
    /\ ask \in [Caller -> {"idle", "waiting", "reading"}]
    /\ line \in Seq(Caller)
    /\ turns \in Seq(Caller \cup {Nobody})
    /\ events \in Seq([of : Caller \cup {Nobody}, kind : {"answer", "error", "warning"}])
    /\ got \in [Caller -> Caller \cup {Nobody, None}]
    /\ warned \in BOOLEAN
    /\ slips \in 0..MaxSlips

AsksInit ==
    /\ ask = [c \in Caller |-> "idle"] /\ line = <<>>
    /\ turns = <<>> /\ events = <<>>
    /\ got = [c \in Caller |-> None] /\ warned = FALSE
    /\ slips = 0

\* A new process, a new runtime.
AsksRestart ==
    /\ ask' = [c \in Caller |-> "idle"] /\ line' = <<>>
    /\ turns' = <<>> /\ events' = <<>>
    /\ got' = [c \in Caller |-> None] /\ warned' = FALSE
    /\ slips' = 0

-----------------------------------------------------------------------------
(* The caller                                                              *)

\* asyncio.Lock is fair: whoever comes while others wait goes to the end.
Ask(c) ==
    /\ ask[c] = "idle"
    /\ ask' = [ask EXCEPT ![c] = "waiting"]
    /\ line' = Append(line, c)
    /\ got' = [got EXCEPT ![c] = None]
    /\ UNCHANGED <<turns, events, warned, slips>>

Holds(c) == line # <<>> /\ Head(line) = c

SubmitUnlocked(c) ==  \* mutant: the lock is not waited for
    /\ ask[c] = "waiting"
    /\ ask' = [ask EXCEPT ![c] = "reading"]
    /\ turns' = Append(turns, c)
    /\ UNCHANGED <<line, events, got, warned, slips>>

Submit(c) ==
    /\ ask[c] = "waiting" /\ Holds(c)
    /\ ask' = [ask EXCEPT ![c] = "reading"]
    /\ turns' = Append(turns, c)
    /\ UNCHANGED <<line, events, got, warned, slips>>

LeavesInLine(c, rest) ==  \* mutant: a waiter that leaves keeps its place
    /\ ask' = [ask EXCEPT ![c] = "idle"]
    /\ line' = IF ask[c] = "waiting" THEN line ELSE Tail(line)
    /\ turns' = [i \in DOMAIN turns |-> IF turns[i] = c THEN Nobody ELSE turns[i]]
    /\ events' = [i \in DOMAIN rest |->
                    IF rest[i].of = c THEN [rest[i] EXCEPT !.of = Nobody] ELSE rest[i]]

\* The finally clause releases the lock, a cancelled waiter leaves the line.
\* What the runtime still owes to c is nobody's from now on.
Leaves(c, rest) ==
    /\ ask' = [ask EXCEPT ![c] = "idle"]
    /\ \E place \in DOMAIN line : line[place] = c /\ line' = RemoveAt(line, place)
    /\ turns' = [i \in DOMAIN turns |-> IF turns[i] = c THEN Nobody ELSE turns[i]]
    /\ events' = [i \in DOMAIN rest |->
                    IF rest[i].of = c THEN [rest[i] EXCEPT !.of = Nobody] ELSE rest[i]]

ReadPeeks(c) ==  \* mutant: the event is left in the queue
    /\ ask[c] = "reading" /\ events # <<>>
    /\ got' = [got EXCEPT ![c] = Head(events).of]
    /\ Leaves(c, events)
    /\ UNCHANGED <<warned, slips>>

\* Whatever answer or error is next in the queue is taken for the caller's.
Read(c) ==
    /\ ask[c] = "reading" /\ events # <<>>
    /\ got' = [got EXCEPT ![c] = Head(events).of]
    /\ Leaves(c, Tail(events))
    /\ UNCHANGED <<warned, slips>>

\* next_event times out: no event for two minutes.
TimeOut(c) ==
    /\ ask[c] = "reading" /\ events = <<>> /\ slips < MaxSlips
    /\ Leaves(c, events) /\ slips' = slips + 1
    /\ UNCHANGED <<got, warned>>

\* The call is cancelled; an event it would have read stays in the queue.
Cancel(c) ==
    /\ \/ ask[c] = "waiting" /\ UNCHANGED slips
       \/ ask[c] = "reading" /\ slips < MaxSlips /\ slips' = slips + 1
    /\ Leaves(c, events)
    /\ UNCHANGED <<got, warned>>

-----------------------------------------------------------------------------
(* The runtime                                                             *)

TurnEnds(kind) ==
    /\ turns # <<>>
    /\ events' = Append(events, [of |-> Head(turns), kind |-> kind])
    /\ turns' = Tail(turns) /\ warned' = FALSE
    /\ UNCHANGED <<ask, line, got, slips>>

\* Compaction fails before the turn: a recoverable ErrorEvent, not its end.
Warn ==
    /\ turns # <<>> /\ ~warned /\ slips < MaxSlips
    /\ events' = Append(events, [of |-> Head(turns), kind |-> "warning"])
    /\ warned' = TRUE /\ slips' = slips + 1
    /\ UNCHANGED <<ask, line, turns, got>>

-----------------------------------------------------------------------------
(* Properties                                                              *)

\* Every caller gets the answer to its own message, until a first ask is
\* given up: then all later answers are those of an earlier turn.
AnswerIsOwn == slips = 0 => \A c \in Caller : got[c] \in {c, None}

\* The answers left over are exactly the asks that were given up: the queue
\* neither grows otherwise nor ever catches up.
NeverCatchesUp ==
    Len(turns) + Len(events) = slips + Cardinality({c \in Caller : ask[c] = "reading"})
=============================================================================
