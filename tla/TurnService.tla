---------------------------- MODULE TurnService ----------------------------
(***************************************************************************)
(* What a RuntimeSession promises to the clients that share it: one queue, *)
(* turns served from its head one at a time, and commands that overtake    *)
(* the messages waiting for a turn, and nothing else.                      *)
(***************************************************************************)
EXTENDS Naturals, Sequences

CONSTANTS Message, Command

Job == Message \cup Command

VARIABLES
    line,       \* what was submitted and is not served yet, oldest first
    served,     \* the jobs that became a turn
    live        \* the message turns that have not ended

vars == <<line, served, live>>

Init == line = <<>> /\ served = {} /\ live = {}

\* submit()
Accept(s) ==
    /\ line' = Append(line, s)
    /\ UNCHANGED <<served, live>>

Without(k) == [i \in 1..(Len(line) - 1) |-> IF i < k THEN line[i] ELSE line[i + 1]]

\* The head of the line becomes the turn, once the last message is done with.
Serve ==
    /\ line # <<>> /\ live = {}
    /\ line' = Tail(line)
    /\ served' = served \cup {Head(line)}
    /\ live' = {Head(line)} \cap Message

\* A job leaves the line with nothing but messages ahead of it: a command
\* that is carried out at once, or a job that is dropped.  A command may end
\* a turn on the spot: AbortTurn, when the turn has not run its first step.
Aside(k) ==
    /\ \A i \in 1..(k - 1) : line[i] \in Message
    /\ line' = Without(k)
    /\ \/ UNCHANGED live
       \/ line[k] \in Command /\ live' = {}
    /\ UNCHANGED served

\* The turn of a message ends.
Finish ==
    /\ live # {}
    /\ live' = {}
    /\ UNCHANGED <<line, served>>

Next == (\E s \in Job : Accept(s)) \/ Serve \/ (\E k \in DOMAIN line : Aside(k)) \/ Finish

Spec == Init /\ [][Next]_vars
=============================================================================
