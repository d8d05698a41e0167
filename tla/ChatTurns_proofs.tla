-------------------------- MODULE ChatTurns_proofs --------------------------
(***************************************************************************)
(* Theorems about the drains of a session's chat requests, for any number  *)
(* of requests, aborts and unread events.                                  *)
(***************************************************************************)
EXTENDS ChatTurns, SequenceTheorems, TLAPS

(***************************************************************************)
(* The drains that are to read.  While no two sends overlap and no job     *)
(* takes the lock, they stand in a queue: ahead[s] are those before s.     *)
(* The abort of a drain that has not taken its first step leaves it to     *)
(* wait for itself: such drains, and all that come later, are stuck.       *)
(***************************************************************************)

\* The drains that will still read.
Live == {s \in Req : drain[s] \in {"ready", "waiting", "draining"}}

\* The drain that s waits for, or would if it took its first step now.
Target(s) == IF drain[s] = "ready" THEN released ELSE awaited[s]

\* Those that the session's lock does not name.
Unlocked == IF Busy(lock) THEN Live \ {lock} ELSE Live

\* The queue is a strict order of the drains that are to read.
Linear(ahead) ==
    /\ \A u \in Live : u \notin ahead[u]
    /\ \A u, v \in Live : u = v \/ u \in ahead[v] \/ v \in ahead[u]
    /\ \A u, v, w \in Live : u \in ahead[v] /\ v \in ahead[w] => u \in ahead[w]

First(ahead, s) == \A u \in Live : u \notin ahead[s]

\* The first of the queue reads or may; any other waits for the one before.
Queued(ahead, stuck) ==
    \A s \in Live \ stuck :
        /\ First(ahead, s) => drain[s] = "draining" \/ ~Busy(Target(s))
        /\ ~First(ahead, s) =>
            /\ drain[s] # "draining"
            /\ Target(s) \in Live \ stuck /\ Target(s) \in ahead[s]
            /\ \A u \in Live : u \in ahead[s] => u = Target(s) \/ u \in ahead[Target(s)]
        /\ drain[s] = "ready" => Busy(lock) /\ s = lock

\* Whoever is stuck waits for a stuck drain, and so does whoever comes later.
Stuck(ahead, stuck) ==
    /\ stuck \subseteq Live
    /\ \A s \in stuck : drain[s] # "draining" /\ Target(s) \in stuck /\ Target(s) \in Unlocked
    /\ \A s \in stuck, u \in Live : s \in ahead[u] => u \in stuck
    /\ "rush" \notin circumstances => stuck = {}

\* The lock is the last of the queue, and the released drain the last but
\* the lock: the next to come finds the one it must wait for.
Slots(ahead, stuck) ==
    /\ Busy(lock) => lock \in Live /\ \A u \in Live : u = lock \/ u \in ahead[lock]
    /\ stuck # {} => released \in stuck /\ released \in Unlocked
    /\ stuck = {} /\ Unlocked = {} => ~Busy(released)
    /\ stuck = {} /\ Unlocked # {} =>
        released \in Unlocked /\ \A u \in Unlocked : u = released \/ u \in ahead[released]

\* Unless some are stuck, each but the last has one that waits for it.
Awaited(ahead) ==
    "rush" \notin circumstances =>
        \A s, u \in Live : s \in ahead[u] => \E t \in Live : drain[t] # "draining" /\ Target(t) = s

Lined(ahead, stuck) ==
    /\ Linear(ahead) /\ Queued(ahead, stuck) /\ Stuck(ahead, stuck) /\ Slots(ahead, stuck)
    /\ Awaited(ahead)

(***************************************************************************)
(* While turns succeed or are aborted: they run in the order of the queue, *)
(* and so do their events, each turn's up to the one that closes it.  A    *)
(* drain reads up to that one.                                             *)
(***************************************************************************)

\* The kinds of the events that end a plain turn.
Closing == {"complete", "aborted"}
IsOf(k, r) == events[k].turn = r /\ events[k].kind # "notice"

\* The live turn is the one that runs; a turn begins when those ahead are
\* over, and the session's line keeps the order of the queue.
TurnsInOrder(ahead) ==
    /\ live = {r \in Req : Running(r)}
    /\ \A r \in Req : turn[r] # None => r \in Live \/ turn[r] = "over"
    /\ \A u, v \in Live : u \in ahead[v] /\ turn[v] # None => turn[u] = "over"
    /\ \A r \in Req : r \in Live /\ turn[r] = None <=> \E k \in 1..Len(line) : line[k] = r
    /\ \A k, l \in 1..Len(line) : k < l /\ line[k] \in Req /\ line[l] \in Req =>
        line[k] \in ahead[line[l]]

\* An event is of a turn that began and whose drain still reads.  Events
\* come in the order of the queue, each turn's closing one as its last.
EventsInOrder(ahead) ==
    /\ \A k \in 1..Len(events) :
        /\ events[k].kind \in {"progress", "final", "notice"} \cup Closing
        /\ events[k].kind # "notice" =>
            /\ events[k].turn \in Live /\ turn[events[k].turn] # None
            /\ events[k].kind # "progress" => turn[events[k].turn] = "over"
    /\ \A k, l \in 1..Len(events), u, v \in Live :
        k < l /\ IsOf(k, u) /\ IsOf(l, v) =>
            \/ u = v /\ events[k].kind \notin Closing
            \/ u \in ahead[v]
    /\ \A r \in Live : turn[r] = "over" =>
        \E k \in 1..Len(events) : events[k].turn = r /\ events[k].kind \in Closing

\* What settles a request is its own turn.
BySelf == \A r \in Req : settled[r] # None => by[r] = r

InTurn(ahead) == TurnsInOrder(ahead) /\ EventsInOrder(ahead) /\ BySelf

(***************************************************************************)
(* The inductive invariant.                                                *)
(***************************************************************************)

\* Nobody takes the lock behind a drain's back; turns succeed or are aborted.
Calm == circumstances \cap {"overlap", "job"} = {}
Plain == circumstances \subseteq {"rush"}

\* What the handler, the turn and the emitter say of a drain.
Known ==
    /\ \A r \in Req : phase[r] \in {"new", "rejected"} <=> drain[r] = None
    /\ \A r \in Req : phase[r] \in {"new", "accepted", "rejected"}
    /\ Plain => \A r \in Req : turn[r] # None => drain[r] # None
    /\ "stale" \notin circumstances => \A r \in Req : drain[r] \notin {"cancelled", "killed"}
    /\ "stale" \notin circumstances => \A r \in Req : drain[r] = "draining" => emitter = r

\* There is a queue, with the turns in its order when they are plain.
Ordered ==
    \E ahead \in [Req -> SUBSET Req], stuck \in SUBSET Req :
        Lined(ahead, stuck) /\ (Plain => InTurn(ahead))

IInv == TypeOK /\ (Calm => Known /\ Ordered)

-----------------------------------------------------------------------------
(* The queue of drains                                                     *)

\* The queue depends on the drains and the slots only.
LEMMA KeepLined ==
    ASSUME NEW ahead, NEW stuck, Lined(ahead, stuck),
           UNCHANGED <<drain, awaited, lock, released, circumstances>>
    PROVE  Lined(ahead, stuck)'
<1>1. /\ Live' = Live /\ \A s : Target(s)' = Target(s) /\ First(ahead, s)' = First(ahead, s)
      /\ Busy(lock)' = Busy(lock) /\ Busy(released)' = Busy(released)
      /\ \A s : Busy(Target(s))' = Busy(Target(s))
  BY DEF Live, Target, First, Busy
<1>2. Unlocked' = Unlocked
  BY <1>1 DEF Unlocked
<1>3. Linear(ahead)' /\ Queued(ahead, stuck)'
  BY <1>1 DEF Lined, Linear, Queued
<1>4. Stuck(ahead, stuck)' /\ Slots(ahead, stuck)' /\ Awaited(ahead)'
  BY <1>1, <1>2 DEF Lined, Stuck, Slots, Awaited
<1>5. QED  BY <1>3, <1>4 DEF Lined

\* Nobody is both before and after another.
LEMMA Asymmetric ==
    ASSUME NEW ahead, Linear(ahead), NEW u \in Live, NEW v \in Live, u \in ahead[v]
    PROVE  v \notin ahead[u]
BY DEF Linear

\* A drain that finds nobody to wait for begins to read: it is the first.
LEMMA ReadingLined ==
    ASSUME NEW ahead, NEW stuck, Lined(ahead, stuck), TypeOK, NEW r \in Req,
           drain[r] \in {"ready", "waiting"}, ~Busy(Target(r)),
           drain' = [drain EXCEPT ![r] = "draining"],
           \A s \in Req \ {r} : awaited'[s] = awaited[s],
           UNCHANGED <<lock, released, circumstances>>
    PROVE  Lined(ahead, stuck)'
<1>1. /\ drain'[r] = "draining" /\ \A s \in Req \ {r} : drain'[s] = drain[s]
      /\ \A s \in Req \ {r} : Target(s)' = Target(s)
  BY DEF TypeOK, Target
<1>2. Live' = Live /\ r \in Live
  BY <1>1 DEF Live
<1>3. \A x : Busy(x)' <=> Busy(x)
  BY DEF Busy, TypeOK
<1>4. Unlocked' = Unlocked
  BY <1>2, <1>3 DEF Unlocked
<1>5. \A x \in Live : Busy(x)
  BY RequestsAreNot DEF Live, Busy
<1>6. r \notin stuck
  BY <1>5 DEF Lined, Stuck
<1>7. First(ahead, r)
  BY <1>2, <1>5, <1>6 DEF Lined, Queued
<1>8. \A s : First(ahead, s)' <=> First(ahead, s)
  BY <1>2 DEF First
<1>9. Linear(ahead)'
  BY <1>2 DEF Lined, Linear
<1>10. Queued(ahead, stuck)'
  <2> SUFFICES ASSUME NEW s \in Live, s \notin stuck
      PROVE  /\ First(ahead, s) => drain'[s] = "draining" \/ ~Busy(Target(s))'
             /\ ~First(ahead, s) =>
                 /\ drain'[s] # "draining"
                 /\ Target(s)' \in Live \ stuck /\ Target(s)' \in ahead[s]
                 /\ \A u \in Live : u \in ahead[s] => u = Target(s)' \/ u \in ahead[Target(s)']
             /\ drain'[s] = "ready" => Busy(lock)' /\ s = lock'
    BY <1>2, <1>8 DEF Queued
  <2>1. CASE s = r
    BY <1>1, <1>7, <2>1
  <2>2. CASE s # r
    <3>1. s \in Req \ {r} /\ drain'[s] = drain[s] /\ Target(s)' = Target(s)
      BY <1>1, <2>2 DEF Live
    <3>2. Busy(Target(s))' <=> Busy(Target(s))
      BY <3>1 DEF Busy, TypeOK
    <3>3. QED  BY <1>3, <3>1, <3>2 DEF Lined, Queued
  <2>3. QED  BY <2>1, <2>2
<1>11. Stuck(ahead, stuck)'
  <2>1. \A s \in stuck : s \in Req \ {r}
    BY <1>6 DEF Lined, Stuck, Live
  <2>2. QED  BY <1>1, <1>2, <1>4, <2>1 DEF Lined, Stuck
<1>12. Slots(ahead, stuck)'
  BY <1>2, <1>3, <1>4 DEF Lined, Slots
<1>13. Awaited(ahead)'
  <2>1. \A t \in Live : drain[t] # "draining" /\ Target(t) \in Live =>
            drain'[t] # "draining" /\ Target(t)' = Target(t)
    BY <1>1, <1>5 DEF Live
  <2>2. QED  BY <1>2, <2>1 DEF Lined, Awaited
<1>14. QED  BY <1>9, <1>10, <1>11, <1>12, <1>13 DEF Lined

\* A drain that has a predecessor notes it: it waits for the same one.
LEMMA WaitingLined ==
    ASSUME NEW ahead, NEW stuck, Lined(ahead, stuck), TypeOK, NEW r \in Req,
           drain[r] = "ready", Busy(released),
           drain' = [drain EXCEPT ![r] = "waiting"], awaited' = [awaited EXCEPT ![r] = released],
           UNCHANGED <<lock, released, circumstances>>
    PROVE  Lined(ahead, stuck)'
<1>1. /\ \A s \in Req : Target(s)' = Target(s)
      /\ \A s \in Req : drain'[s] = "draining" <=> drain[s] = "draining"
      /\ \A s \in Req : drain'[s] = "ready" => drain[s] = "ready"
  BY DEF TypeOK, Target
<1>2. Live' = Live /\ Live \subseteq Req
  BY DEF Live, TypeOK
<1>3. \A x : Busy(x)' <=> Busy(x)
  BY DEF Busy, TypeOK
<1>4. Unlocked' = Unlocked
  BY <1>2, <1>3 DEF Unlocked
<1>5. \A s \in Req : Busy(Target(s))' <=> Busy(Target(s))
  BY <1>1 DEF Busy, TypeOK
<1>6. \A s : First(ahead, s)' <=> First(ahead, s)
  BY <1>2 DEF First
<1>7. Linear(ahead)'
  BY <1>2 DEF Lined, Linear
<1>8. Queued(ahead, stuck)'
  BY <1>1, <1>2, <1>3, <1>5, <1>6 DEF Lined, Queued
<1>9. Stuck(ahead, stuck)'
  <2>1. \A s \in stuck : s \in Req
    BY <1>2 DEF Lined, Stuck
  <2>2. QED  BY <1>1, <1>2, <1>4, <2>1 DEF Lined, Stuck
<1>10. Slots(ahead, stuck)'
  BY <1>2, <1>3, <1>4 DEF Lined, Slots
<1>11. Awaited(ahead)'
  BY <1>1, <1>2 DEF Lined, Awaited
<1>12. QED  BY <1>7, <1>8, <1>9, <1>10, <1>11 DEF Lined

\* The drain that read leaves: the next of the queue, if there is one, finds
\* nobody to wait for any more.
LEMMA ReaderLeavesLined ==
    ASSUME NEW ahead, NEW stuck, Lined(ahead, stuck), TypeOK, NEW r \in Req,
           drain[r] = "draining", Leave(r)
    PROVE  Lined(ahead, stuck)'
<1>1. /\ drain'[r] = "done" /\ \A s \in Req \ {r} : drain'[s] = drain[s]
      /\ awaited' = awaited /\ circumstances' = circumstances
      /\ lock' = (IF lock = r THEN NoReq ELSE lock)
      /\ released' = (IF released = r THEN NoReq ELSE released)
  BY DEF TypeOK, Leave, userVars
<1>2. Live' = Live \ {r} /\ r \in Live /\ Live \subseteq Req
  BY <1>1 DEF Live
<1>3. /\ \A x \in Req : x # r => (Busy(x)' <=> Busy(x))
      /\ ~Busy(r)' /\ ~Busy(NoReq)' /\ ~Busy(NoReq) /\ Busy(r) /\ r # NoReq
  BY <1>1, RequestsAreNot DEF Busy
<1>4. lock \in Req \cup {NoReq} /\ released \in Req \cup {NoReq}
  BY DEF TypeOK
<1>5. r \notin stuck /\ stuck \subseteq Live
  BY DEF Lined, Stuck
<1>6. First(ahead, r) /\ \A u \in Live : u = r \/ r \in ahead[u]
  BY <1>2, <1>5 DEF Lined, Queued, Linear, First
<1>7. Busy(lock)' => lock' = lock /\ Busy(lock) /\ lock # r
  BY <1>1, <1>3, <1>4 DEF Busy
<1>8. lock # r => lock' = lock /\ (Busy(lock)' <=> Busy(lock))
  BY <1>1, <1>3, <1>4 DEF Busy
<1>9. Unlocked' = Unlocked \ {r}
  BY <1>1, <1>2, <1>3, <1>7, <1>8 DEF Unlocked
<1>10. \A s \in Live \ {r} : Target(s) # r => Target(s)' = Target(s)
  BY <1>1, <1>2 DEF Target
<1>11. \A s \in Live \ {r} : Target(s) = r => ~Busy(Target(s))'
  <2> TAKE s \in Live \ {r}
  <2> HAVE Target(s) = r
  <2>1. Target(s)' \in {r, NoReq}
    BY <1>1, <1>2 DEF Target
  <2>2. QED  BY <1>3, <2>1
<1>12. Linear(ahead)'
  BY <1>2 DEF Lined, Linear
<1>13. Queued(ahead, stuck)'
  <2> SUFFICES ASSUME NEW s \in Live, s # r, s \notin stuck
      PROVE  /\ First(ahead, s)' => drain'[s] = "draining" \/ ~Busy(Target(s))'
             /\ ~First(ahead, s)' =>
                 /\ drain'[s] # "draining"
                 /\ Target(s)' \in Live' \ stuck /\ Target(s)' \in ahead[s]
                 /\ \A u \in Live' : u \in ahead[s] => u = Target(s)' \/ u \in ahead[Target(s)']
             /\ drain'[s] = "ready" => Busy(lock)' /\ s = lock'
    BY <1>2 DEF Queued
  <2>1. drain'[s] = drain[s]
    BY <1>1, <1>2
  <2>2. drain'[s] = "ready" => Busy(lock)' /\ s = lock'
    BY <1>8, <2>1 DEF Lined, Queued
  <2>3. ~First(ahead, s)
    BY <1>2, <1>6 DEF First
  <2>4. /\ drain[s] # "draining" /\ Target(s) \in Live \ stuck /\ Target(s) \in ahead[s]
        /\ \A u \in Live : u \in ahead[s] => u = Target(s) \/ u \in ahead[Target(s)]
    BY <2>3 DEF Lined, Queued
  <2>5. CASE Target(s) = r
    <3>1. First(ahead, s)'
      BY <1>2, <1>6, <2>4, <2>5 DEF First
    <3>2. ~Busy(Target(s))'
      BY <1>11, <2>5
    <3>3. QED  BY <2>2, <3>1, <3>2
  <2>6. CASE Target(s) # r
    <3>1. Target(s)' = Target(s) /\ Target(s) \in Live'
      BY <1>2, <1>10, <2>4, <2>6
    <3>2. ~First(ahead, s)'
      BY <2>4, <3>1 DEF First
    <3>3. QED  BY <1>2, <2>1, <2>2, <2>4, <3>1, <3>2
  <2>7. QED  BY <2>5, <2>6
<1>14. Stuck(ahead, stuck)'
  <2>1. \A s \in stuck : s \in Live \ {r} /\ drain'[s] = drain[s] /\ Target(s) \in stuck
                         /\ Target(s) # r /\ Target(s)' = Target(s)
    BY <1>1, <1>2, <1>5, <1>10 DEF Lined, Stuck
  <2>2. QED  BY <1>1, <1>2, <1>5, <1>9, <2>1 DEF Lined, Stuck
<1>15. Slots(ahead, stuck)'
  <2>1. Busy(lock)' => lock' \in Live' /\ \A u \in Live' : u = lock' \/ u \in ahead[lock']
    BY <1>2, <1>7 DEF Lined, Slots
  <2>2. stuck # {} => released' \in stuck /\ released' \in Unlocked'
    BY <1>1, <1>5, <1>9 DEF Lined, Slots
  <2>3. ASSUME stuck = {}, Unlocked' = {} PROVE ~Busy(released)'
    <3>1. CASE Unlocked = {}
      <4>1. ~Busy(released)
        BY <2>3, <3>1 DEF Lined, Slots
      <4>2. QED  BY <1>1, <1>3, <1>4, <4>1
    <3>2. CASE Unlocked # {}
      <4>1. released = r
        BY <1>9, <2>3, <3>2 DEF Lined, Slots
      <4>2. QED  BY <1>1, <1>3, <4>1
    <3>3. QED  BY <3>1, <3>2
  <2>4. ASSUME stuck = {}, Unlocked' # {}
        PROVE  released' \in Unlocked' /\ \A u \in Unlocked' : u = released' \/ u \in ahead[released']
    <3>1. released \in Unlocked /\ \A u \in Unlocked : u = released \/ u \in ahead[released]
      BY <1>9, <2>4 DEF Lined, Slots
    <3>2. released # r
      <4>1. PICK u \in Unlocked : u # r
        BY <1>9, <2>4
      <4>2. u \in Live
        BY <4>1 DEF Unlocked
      <4>3. QED  BY <1>6, <3>1, <4>1, <4>2 DEF First
    <3>3. QED  BY <1>1, <1>9, <3>1, <3>2
  <2>5. QED  BY <2>1, <2>2, <2>3, <2>4 DEF Slots
<1>16. Awaited(ahead)'
  <2>1. \A t \in Live : drain[t] # "draining" /\ Target(t) # r =>
            t # r /\ drain'[t] # "draining" /\ Target(t)' = Target(t)
    BY <1>1, <1>2, <1>10
  <2>2. QED  BY <1>1, <1>2, <2>1 DEF Lined, Awaited
<1>17. QED  BY <1>12, <1>13, <1>14, <1>15, <1>16 DEF Lined

\* A drain that was cancelled by force is in nobody's way: none waits for it.
LEMMA ForcedLeavesLined ==
    ASSUME NEW ahead, NEW stuck, Lined(ahead, stuck), TypeOK, NEW r \in Req,
           drain[r] \in {"cancelled", "killed"}, Leave(r)
    PROVE  Lined(ahead, stuck)'
<1>1. /\ drain'[r] = "done" /\ \A s \in Req \ {r} : drain'[s] = drain[s]
      /\ awaited' = awaited /\ circumstances' = circumstances
      /\ lock' = (IF lock = r THEN NoReq ELSE lock)
      /\ released' = (IF released = r THEN NoReq ELSE released)
  BY DEF TypeOK, Leave, userVars
<1>2. Live' = Live /\ r \notin Live /\ Live \subseteq Req
  BY <1>1 DEF Live
<1>3. Busy(r) /\ \A x \in Req \cup {NoReq} : Busy(x)' => Busy(x)
  BY <1>1, RequestsAreNot DEF Busy
<1>4. lock # r /\ released # r
  <2>1. lock # r
    BY <1>2, <1>3 DEF Lined, Slots
  <2>2. Unlocked \subseteq Live
    BY DEF Unlocked
  <2>3. released # r
    BY <1>2, <1>3, <2>2 DEF Lined, Slots
  <2>4. QED  BY <2>1, <2>3
<1>5. UNCHANGED <<lock, released>>
  BY <1>1, <1>4
<1>6. \A s \in Live : drain'[s] = drain[s] /\ Target(s)' = Target(s)
  BY <1>1, <1>2, <1>5 DEF Target
<1>7. /\ Busy(lock)' <=> Busy(lock)
      /\ ~Busy(released) => ~Busy(released)'
      /\ \A s \in Live : ~Busy(Target(s)) => ~Busy(Target(s))'
  <2>1. lock \in Req \cup {NoReq} /\ released \in Req \cup {NoReq}
    BY DEF TypeOK
  <2>2. Busy(lock)' <=> Busy(lock)
    BY <1>1, <1>4, <1>5, <2>1 DEF Busy
  <2>3. \A s \in Live : Target(s) \in Req \cup {NoReq}
    BY <1>2 DEF Target, TypeOK
  <2>4. \A s \in Live : ~Busy(Target(s)) => ~Busy(Target(s))'
    <3> TAKE s \in Live
    <3>1. Target(s)' = Target(s) /\ Target(s) \in Req \cup {NoReq}
      BY <1>6, <2>3
    <3>2. Target(s)' # r => (Busy(Target(s))' <=> Busy(Target(s)))
      BY <1>1, <3>1 DEF Busy
    <3>3. Target(s)' = r => ~Busy(Target(s))'
      BY <1>1 DEF Busy
    <3>4. QED  BY <3>2, <3>3
  <2>5. QED  BY <1>3, <1>5, <2>1, <2>2, <2>4 DEF Busy
<1>8. Unlocked' = Unlocked
  BY <1>2, <1>5, <1>7 DEF Unlocked
<1>9. Linear(ahead)' /\ \A s : First(ahead, s)' <=> First(ahead, s)
  BY <1>2 DEF Lined, Linear, First
<1>10. Queued(ahead, stuck)'
  BY <1>2, <1>5, <1>6, <1>7, <1>9 DEF Lined, Queued
<1>11. Stuck(ahead, stuck)'
  <2>1. \A s \in stuck : s \in Live
    BY DEF Lined, Stuck
  <2>2. QED  BY <1>1, <1>2, <1>6, <1>8, <2>1 DEF Lined, Stuck
<1>12. Slots(ahead, stuck)'
  BY <1>2, <1>5, <1>7, <1>8 DEF Lined, Slots
<1>13. Awaited(ahead)'
  BY <1>1, <1>2, <1>6 DEF Lined, Awaited
<1>14. QED  BY <1>9, <1>10, <1>11, <1>12, <1>13 DEF Lined

\* chat.abort releases the lock: the drain released is the last of the queue.
\* If it has not taken its first step, it is stuck from now on.
LEMMA AbortLined ==
    ASSUME NEW ahead, NEW stuck, Lined(ahead, stuck), TypeOK, Abort
    PROVE  \E also \in SUBSET Req : Lined(ahead, also)'
<1>1. /\ UNCHANGED <<drain, awaited, circumstances>> /\ lock' = NoReq
      /\ released' = (IF Busy(lock) THEN lock ELSE released)
      /\ Busy(lock) /\ drain[lock] = "ready" => "rush" \in circumstances
  BY DEF Abort, drainVars
<1>2. Live' = Live /\ Live \subseteq Req /\ \A x : (x # NoReq /\ drain'[x] # "done") <=> Busy(x)
  BY <1>1 DEF Live, Busy
<1>3. ~Busy(lock)' /\ Unlocked' = Live
  BY <1>1, <1>2 DEF Busy, Unlocked
<1>4. Linear(ahead)' /\ \A s : First(ahead, s)' <=> First(ahead, s)
  BY <1>2 DEF Lined, Linear, First
<1>5. \A s \in Live : drain[s] # "ready" => Target(s)' = Target(s)
  BY <1>1 DEF Target
<1>6. \A s \in Live : drain[s] = "ready" => Target(s)' = released'
  BY <1>1 DEF Target
<1>7. \A s \in Live : Target(s)' = Target(s) => (Busy(Target(s))' <=> Busy(Target(s)))
  BY <1>1 DEF Busy
<1>8. Awaited(ahead)'
  <2> SUFFICES ASSUME "rush" \notin circumstances PROVE Awaited(ahead)'
    BY <1>1 DEF Awaited
  <2>1. \A t \in Live : Target(t)' = Target(t)
    <3>1. \A t \in Live : drain[t] = "ready" => Busy(lock) /\ t = lock
      BY DEF Lined, Queued, Stuck
    <3>2. QED  BY <1>1, <1>5, <3>1
  <2>2. QED  BY <1>1, <1>2, <2>1 DEF Lined, Awaited
<1>9. CASE ~Busy(lock)
  <2>1. released' = released /\ Unlocked = Live /\ \A s \in Live : Target(s)' = Target(s)
    BY <1>1, <1>5, <1>6, <1>9 DEF Unlocked, Target
  <2>2. Queued(ahead, stuck)'
    BY <1>1, <1>2, <1>3, <1>4, <1>7, <1>9, <2>1 DEF Lined, Queued
  <2>3. Stuck(ahead, stuck)' /\ stuck \in SUBSET Req
    <3>1. \A s \in stuck : s \in Live
      BY DEF Lined, Stuck
    <3>2. QED  BY <1>1, <1>2, <1>3, <2>1, <3>1 DEF Lined, Stuck
  <2>4. Slots(ahead, stuck)'
    BY <1>1, <1>2, <1>3, <2>1 DEF Lined, Slots, Busy
  <2>5. QED  BY <1>4, <1>8, <2>2, <2>3, <2>4 DEF Lined
<1>10. CASE Busy(lock)
  <2>1. /\ released' = lock /\ lock \in Live
        /\ \A u \in Live : u = lock \/ u \in ahead[lock]
    BY <1>1, <1>10 DEF Lined, Slots
  <2>2. CASE lock \in stuck
    <3>1. \A s \in Live \ stuck : drain[s] # "ready" /\ Target(s)' = Target(s)
      BY <1>5, <2>2 DEF Lined, Queued
    <3>2. Queued(ahead, stuck)'
      BY <1>1, <1>2, <1>4, <1>7, <3>1 DEF Lined, Queued
    <3>3. \A s \in stuck : s \in Live /\ Target(s)' \in stuck
      BY <1>5, <1>6, <2>1, <2>2 DEF Lined, Stuck
    <3>4. Stuck(ahead, stuck)' /\ stuck \in SUBSET Req
      BY <1>1, <1>2, <1>3, <3>3 DEF Lined, Stuck
    <3>5. Slots(ahead, stuck)'
      BY <1>3, <2>1, <2>2 DEF Slots
    <3>6. QED  BY <1>4, <1>8, <3>2, <3>4, <3>5 DEF Lined
  <2>3. CASE lock \notin stuck
    <3>1. stuck = {}
      BY <2>1, <2>3 DEF Lined, Stuck
    <3>2. CASE drain[lock] = "ready"
      <4>0. PICK l \in Req : l = lock
        BY <1>2, <2>1
      <4>1. \A s \in Live \ {l} : drain[s] # "ready" /\ Target(s)' = Target(s)
        BY <1>5, <3>1, <4>0 DEF Lined, Queued
      <4>2. \A s \in Live \ {l} : l \notin ahead[s]
        BY <2>1, <4>0, Asymmetric DEF Lined
      <4>3. Queued(ahead, {l})'
        BY <1>1, <1>2, <1>4, <1>7, <3>1, <4>1, <4>2 DEF Lined, Queued
      <4>4. Target(l)' = l
        BY <1>6, <2>1, <3>2, <4>0
      <4>5. Stuck(ahead, {l})' /\ {l} \in SUBSET Req
        <5>1. drain'[l] # "draining" /\ "rush" \in circumstances'
          BY <1>1, <1>10, <3>2, <4>0
        <5>2. \A u \in Live : l \in ahead[u] => u \in {l}
          BY <4>2
        <5>3. QED  BY <1>2, <1>3, <2>1, <4>0, <4>4, <5>1, <5>2 DEF Stuck
      <4>6. Slots(ahead, {l})'
        BY <1>3, <2>1, <4>0 DEF Slots
      <4>7. QED  BY <1>4, <1>8, <4>3, <4>5, <4>6 DEF Lined
    <3>3. CASE drain[lock] # "ready"
      <4>1. \A s \in Live : drain[s] # "ready" /\ Target(s)' = Target(s)
        BY <1>5, <3>1, <3>3 DEF Lined, Queued
      <4>2. Queued(ahead, {})'
        BY <1>1, <1>2, <1>4, <1>7, <3>1, <4>1 DEF Lined, Queued
      <4>3. Stuck(ahead, {})' /\ Slots(ahead, {})'
        BY <1>3, <2>1 DEF Stuck, Slots
      <4>4. QED  BY <1>4, <1>8, <4>2, <4>3 DEF Lined
    <3>4. QED  BY <3>2, <3>3
  <2>4. QED  BY <2>2, <2>3
<1>11. QED  BY <1>9, <1>10

\* A new drain takes the lock and goes to the end; the one it pushes out of
\* the lock, if there is one, is none of the queue any more.
LEMMA RegisterLined ==
    ASSUME NEW ahead, NEW stuck, Lined(ahead, stuck), TypeOK, NEW r \in Req, r \notin Live,
           drain'[r] = "ready", lock' = r, UNCHANGED <<awaited, released, circumstances>>,
           Live' = Unlocked \cup {r}, \A s \in Unlocked : drain'[s] = drain[s],
           \A x \in Req \cup {NoReq} : (x # NoReq /\ drain'[x] # "done") <=> Busy(x),
           NEW after, \A v \in Req : after[v] = IF v = r THEN Live ELSE ahead[v] \ {r}
    PROVE  \E also \in SUBSET Req : Lined(after, also)'
<1>1. /\ Unlocked \subseteq Live /\ Live \subseteq Req
      /\ Busy(lock) => lock \in Live /\ lock \notin Unlocked /\ \A u \in Live : u = lock \/ u \in ahead[lock]
  BY DEF Unlocked, Live, Lined, Slots
<1>2. /\ \A u \in Live, v \in Live : u \in after[v] <=> u \in ahead[v]
      /\ \A u \in Live : u \in after[r] /\ r \notin after[u]
      /\ r \notin after[r]
  BY <1>1
<1>3. Busy(lock)' /\ Unlocked' = Unlocked
  BY <1>1, RequestsAreNot DEF Unlocked, Busy
<1>4. /\ \A u \in Live : u \in Unlocked \/ (Busy(lock) /\ u = lock)
      /\ \A u \in Unlocked : lock \in ahead[u] => ~Busy(lock)
  <2>1. \A u \in Live : u \in Unlocked \/ (Busy(lock) /\ u = lock)
    BY DEF Unlocked
  <2>2. ASSUME NEW u \in Unlocked, lock \in ahead[u], Busy(lock) PROVE FALSE
    <3>1. lock \in Live /\ u \in Live /\ u # lock /\ u \in ahead[lock]
      BY <1>1, <2>2
    <3>2. QED  BY <2>2, <3>1, Asymmetric DEF Lined
  <2>3. QED  BY <2>1, <2>2
<1>5. \A u \in Unlocked : First(after, u)' <=> First(ahead, u)
  BY <1>1, <1>2, <1>4 DEF First
<1>6. \A s \in Unlocked : s \notin stuck => drain[s] # "ready"
  BY <1>1 DEF Lined, Queued
<1>7. \A s \in Unlocked : Target(s)' = Target(s) /\ drain'[s] = drain[s]
  BY <1>1 DEF Target
<1>8. Target(r)' = released /\ drain'[r] # "draining"
  BY DEF Target
<1>9. \A x \in Req \cup {NoReq} : ~Busy(x) => ~(x # NoReq /\ drain'[x] # "done")
  OBVIOUS
<1>10. /\ \A s \in Live : Target(s) \in Req \cup {NoReq}
       /\ released \in Req \cup {NoReq}
  BY <1>1 DEF TypeOK, Target
<1>11. Linear(after)'
  <2>1. \A u, v, w \in Live : u \in ahead[v] /\ v \in ahead[w] => u \in ahead[w]
    BY DEF Lined, Linear
  <2>2. \A u, v \in Live : u = v \/ u \in ahead[v] \/ v \in ahead[u]
    BY DEF Lined, Linear
  <2>3. \A u \in Live : u \notin ahead[u]
    BY DEF Lined, Linear
  <2>4. \A u \in Live' : u \notin after[u]
    BY <1>1, <1>2, <2>3
  <2>5. \A u, v \in Live' : u = v \/ u \in after[v] \/ v \in after[u]
    BY <1>1, <1>2, <2>2
  <2>6. \A u, v, w \in Live' : u \in after[v] /\ v \in after[w] => u \in after[w]
    BY <1>1, <1>2, <2>1
  <2>7. QED  BY <2>4, <2>5, <2>6 DEF Linear
<1>12. \A s \in Unlocked \ stuck :
        /\ First(after, s)' => drain'[s] = "draining" \/ ~Busy(Target(s))'
        /\ ~First(after, s)' =>
            /\ drain'[s] # "draining"
            /\ Target(s)' \in Unlocked \ stuck /\ Target(s)' \in after[s]
            /\ \A u \in Live' : u \in after[s] => u = Target(s)' \/ u \in after[Target(s)']
        /\ drain'[s] # "ready"
  <2> TAKE s \in Unlocked \ stuck
  <2>1. /\ First(ahead, s) => drain[s] = "draining" \/ ~Busy(Target(s))
        /\ ~First(ahead, s) =>
            /\ drain[s] # "draining"
            /\ Target(s) \in Live \ stuck /\ Target(s) \in ahead[s]
            /\ \A u \in Live : u \in ahead[s] => u = Target(s) \/ u \in ahead[Target(s)]
    BY <1>1 DEF Lined, Queued
  <2>2. ~Busy(Target(s)) => ~Busy(Target(s))'
    BY <1>1, <1>7, <1>9, <1>10 DEF Busy
  <2>3. ~First(ahead, s) => Target(s) \in Unlocked
    BY <1>4, <2>1
  <2>4. ~First(ahead, s) =>
            /\ Target(s) \in after[s]
            /\ \A u \in Live' : u \in after[s] => u = Target(s) \/ u \in after[Target(s)]
    BY <1>1, <1>2, <2>1, <2>3
  <2>5. QED  BY <1>5, <1>6, <1>7, <2>1, <2>2, <2>3, <2>4
<1>13. Awaited(after)'
  <2> SUFFICES ASSUME "rush" \notin circumstances, NEW s \in Unlocked
      PROVE  \E t \in Live' : drain'[t] # "draining" /\ Target(t)' = s
    BY <1>1, <1>2 DEF Awaited
  <2>1. stuck = {}
    BY DEF Lined, Stuck
  <2>2. released \in Unlocked /\ (s = released \/ s \in ahead[released])
    BY <2>1 DEF Lined, Slots
  <2>3. CASE s = released
    BY <1>8, <2>3
  <2>4. CASE s # released
    <3>1. s \in ahead[released] /\ s \in Live /\ released \in Live /\ released \notin ahead[s]
      BY <1>1, <2>2, <2>4, Asymmetric DEF Lined
    <3>2. PICK t \in Live : drain[t] # "draining" /\ Target(t) = s
      BY <3>1 DEF Lined, Awaited
    <3>3. t \in Unlocked
      <4> SUFFICES ASSUME Busy(lock), t = lock PROVE FALSE
        BY <1>4
      <4>1. released \in ahead[lock] /\ s \in ahead[lock]
        BY <1>1, <2>2, <3>1
      <4>2. ~First(ahead, lock) /\ lock \in Live \ stuck
        BY <1>1, <2>1, <3>1, <4>1 DEF First
      <4>3. \A u \in Live : u \in ahead[lock] => u = s \/ u \in ahead[s]
        BY <3>2, <4>2 DEF Lined, Queued
      <4>4. QED  BY <2>4, <3>1, <4>1, <4>3
    <3>4. QED  BY <1>7, <3>2, <3>3
  <2>5. QED  BY <2>3, <2>4
<1>14. CASE stuck = {}
  <2>1. Queued(after, {})'
    <3>1. ASSUME First(after, r)' PROVE ~Busy(Target(r))'
      <4>1. Unlocked = {}
        BY <1>1, <1>2, <3>1 DEF First
      <4>2. ~Busy(released)
        BY <1>14, <4>1 DEF Lined, Slots
      <4>3. QED  BY <1>8, <1>9, <1>10, <4>2 DEF Busy
    <3>2. ASSUME ~First(after, r)'
          PROVE  /\ released \in Unlocked /\ released \in after[r]
                 /\ \A u \in Live' : u \in after[r] => u = released \/ u \in after[released]
      <4>1. Unlocked # {}
        BY <1>2, <3>2 DEF First
      <4>2. released \in Unlocked /\ \A u \in Unlocked : u = released \/ u \in ahead[released]
        BY <1>14, <4>1 DEF Lined, Slots
      <4>3. QED  BY <1>1, <1>2, <4>2
    <3>3. \A s \in Unlocked \ stuck : s \in Unlocked /\ s # r
      BY <1>1
    <3>4. QED  BY <1>3, <1>8, <1>12, <1>14, <3>1, <3>2, <3>3 DEF Queued
  <2>2. Stuck(after, {})'
    BY DEF Stuck
  <2>3. Slots(after, {})'
    <3>1. \A u \in Live' : u = r \/ u \in after[r]
      BY <1>1, <1>2
    <3>2. Unlocked = {} => ~Busy(released)'
      BY <1>9, <1>10, <1>14 DEF Lined, Slots, Busy
    <3>3. Unlocked # {} => released \in Unlocked /\ \A u \in Unlocked : u = released \/ u \in after[released]
      BY <1>1, <1>2, <1>14 DEF Lined, Slots
    <3>4. QED  BY <1>3, <3>1, <3>2, <3>3 DEF Slots
  <2>4. QED  BY <1>11, <1>13, <2>1, <2>2, <2>3 DEF Lined
<1>15. CASE stuck # {}
  <2>1. released \in stuck /\ released \in Unlocked
    BY <1>15 DEF Lined, Slots
  <2>2. Busy(lock) => lock \in stuck
    BY <1>1, <2>1 DEF Lined, Stuck
  <2>3. PICK also \in SUBSET Req : also = (stuck \cap Unlocked) \cup {r}
    BY <1>1
  <2>4. \A s \in Live' \ also : s \in Unlocked \ stuck
    BY <2>3
  <2>5. \A s \in Unlocked \ stuck : s \in Live' \ also
    BY <1>1, <2>3
  <2>6. Queued(after, also)'
    BY <1>12, <2>4, <2>5 DEF Queued
  <2>7. Stuck(after, also)'
    <3>1. \A s \in stuck : Target(s) \in stuck /\ Target(s) \in Unlocked /\ drain[s] # "draining"
      BY DEF Lined, Stuck
    <3>2. \A s \in also : drain'[s] # "draining" /\ Target(s)' \in also /\ Target(s)' \in Unlocked
      BY <1>7, <1>8, <2>1, <2>3, <3>1
    <3>3. \A s \in also, u \in Live' : s \in after[u] => u \in also
      <4> TAKE s \in also, u \in Live'
      <4> HAVE s \in after[u]
      <4>1. CASE u = r
        BY <2>3, <4>1
      <4>2. CASE u # r
        <5>1. u \in Unlocked /\ s # r
          BY <1>1, <1>2, <4>2
        <5>2. s \in stuck /\ s \in Live /\ u \in Live /\ s \in ahead[u]
          BY <1>1, <1>2, <2>3, <5>1
        <5>3. u \in stuck
          BY <5>2 DEF Lined, Stuck
        <5>4. QED  BY <2>3, <5>1, <5>3
      <4>3. QED  BY <4>1, <4>2
    <3>4. "rush" \in circumstances
      BY <1>15 DEF Lined, Stuck
    <3>5. QED  BY <1>3, <2>3, <3>2, <3>3, <3>4 DEF Stuck
  <2>8. Slots(after, also)'
    <3>1. \A u \in Live' : u = r \/ u \in after[r]
      BY <1>1, <1>2
    <3>2. also # {} /\ released \in also
      BY <2>1, <2>3
    <3>3. QED  BY <1>3, <2>1, <3>1, <3>2 DEF Slots
  <2>9. QED  BY <1>11, <1>13, <2>6, <2>7, <2>8 DEF Lined
<1>16. QED  BY <1>14, <1>15

-----------------------------------------------------------------------------
(* The turns and their events, in the order of the queue                   *)

\* What TurnsInOrder says of turns is a matter of which began and are over.
SameStage(r) == (turn'[r] = None <=> turn[r] = None) /\ (turn'[r] = "over" <=> turn[r] = "over")

\* Events that the turn of r adds: all its own, the closing one the last.
LEMMA TurnAddsEvents ==
    ASSUME NEW ahead, Linear(ahead), TurnsInOrder(ahead), EventsInOrder(ahead), TypeOK,
           Live' = Live, NEW r \in Live, turn[r] # "over", turn'[r] # None,
           \A u \in Req \ {r} : SameStage(u),
           NEW n \in Nat, Len(events') = Len(events) + n,
           \A k \in 1..Len(events) : events'[k] = events[k],
           \A k \in (Len(events) + 1)..(Len(events) + n) :
                /\ events'[k].turn = r /\ events'[k].kind \in {"progress", "final"} \cup Closing
                /\ events'[k].kind # "progress" => turn'[r] = "over"
                /\ events'[k].kind \in Closing => k = Len(events) + n,
           turn'[r] = "over" => n > 0 /\ events'[Len(events) + n].kind \in Closing
    PROVE  EventsInOrder(ahead)'
<1> USE DEF SameStage
<1> DEFINE old == 1..Len(events)
           new == (Len(events) + 1)..(Len(events) + n)
<1>1. /\ Len(events) \in Nat /\ Live \subseteq Req
      /\ \A k \in 1..Len(events') : k \in old \/ k \in new
      /\ \A k \in old, l \in new : k < l
      /\ \A k \in old \cup new : k \in 1..Len(events')
      /\ \A k \in new, l \in old : ~(k < l)
      /\ \A k \in new : k <= Len(events) + n
      /\ \A k \in new, l \in new : k < l => k # Len(events) + n
  BY DEF TypeOK, Live
<1>2. \A k \in old : events'[k] = events[k] /\ (IsOf(k, r)' <=> IsOf(k, r))
  BY DEF IsOf
<1>3. \A k \in old :
        events[k].kind # "notice" => events[k].turn \in Live /\ turn[events[k].turn] # None
  BY DEF EventsInOrder
<1>4. ASSUME NEW k \in old, events[k].kind # "notice" PROVE events[k].turn = r \/ events[k].turn \in ahead[r]
  <2>1. events[k].turn \in Live /\ turn[events[k].turn] # None
    BY <1>3, <1>4
  <2>2. r \notin ahead[events[k].turn]
    BY <2>1 DEF TurnsInOrder
  <2>3. QED  BY <2>1, <2>2 DEF Linear
<1>5. ASSUME NEW k \in old, events[k].kind \in Closing PROVE events[k].turn # r
  BY <1>5 DEF EventsInOrder, Closing
<1>6. \A k \in 1..Len(events') :
        /\ events'[k].kind \in {"progress", "final", "notice"} \cup Closing
        /\ events'[k].kind # "notice" =>
            /\ events'[k].turn \in Live' /\ turn'[events'[k].turn] # None
            /\ events'[k].kind # "progress" => turn'[events'[k].turn] = "over"
  <2> TAKE k \in 1..Len(events')
  <2>1. CASE k \in old
    <3>1. /\ events[k].kind \in {"progress", "final", "notice"} \cup Closing
          /\ events[k].kind # "notice" =>
              /\ events[k].turn \in Live /\ turn[events[k].turn] # None
              /\ events[k].kind # "progress" => turn[events[k].turn] = "over"
      BY <2>1 DEF EventsInOrder
    <3>2. events[k].kind # "notice" =>
            /\ events[k].turn \in Live' /\ turn'[events[k].turn] # None
            /\ events[k].kind # "progress" => turn'[events[k].turn] = "over"
      BY <1>1, <3>1
    <3>3. events'[k] = events[k]
      BY <1>2, <2>1
    <3>4. QED  BY <3>1, <3>2, <3>3
  <2>2. CASE k \in new
    BY <2>2 DEF Closing
  <2>3. QED  BY <1>1, <2>1, <2>2
<1>7. ASSUME NEW k \in 1..Len(events'), NEW l \in 1..Len(events'), NEW u \in Live, NEW v \in Live,
             k < l, IsOf(k, u)', IsOf(l, v)'
      PROVE  (u = v /\ events'[k].kind \notin Closing) \/ u \in ahead[v]
  <2>1. CASE l \in old
    <3>1. k \in old /\ IsOf(k, u) /\ IsOf(l, v) /\ events'[k] = events[k]
      BY <1>1, <1>2, <1>7, <2>1 DEF IsOf
    <3>2. QED  BY <1>7, <2>1, <3>1 DEF EventsInOrder
  <2>2. CASE l \in new /\ k \in old
    <3>1. v = r /\ events[k].turn = u /\ events[k].kind # "notice" /\ events'[k] = events[k]
      BY <1>2, <1>7, <2>2 DEF IsOf
    <3>2. QED  BY <1>4, <1>5, <2>2, <3>1
  <2>3. CASE l \in new /\ k \in new
    <3>1. u = r /\ v = r /\ k # Len(events) + n
      BY <1>1, <1>7, <2>3 DEF IsOf
    <3>2. QED  BY <2>3, <3>1
  <2>4. QED  BY <1>1, <1>7, <2>1, <2>2, <2>3
<1>8. ASSUME NEW u \in Live, turn'[u] = "over"
      PROVE  \E k \in 1..Len(events') : events'[k].turn = u /\ events'[k].kind \in Closing
  <2>1. CASE u = r
    <3>1. Len(events) + n \in new /\ events'[Len(events) + n].kind \in Closing
      BY <1>1, <1>8, <2>1
    <3>2. QED  BY <1>1, <2>1, <3>1
  <2>2. CASE u # r
    <3>1. turn[u] = "over"
      BY <1>1, <1>8, <2>2
    <3>2. PICK k \in old : events[k].turn = u /\ events[k].kind \in Closing
      BY <3>1 DEF EventsInOrder
    <3>3. QED  BY <1>1, <1>2, <3>2
  <2>3. QED  BY <2>1, <2>2
<1>9. QED  BY <1>6, <1>7, <1>8 DEF EventsInOrder

\* A step that neither begins nor ends a turn, and at most adds a notice.
LEMMA NoticeAdded ==
    ASSUME NEW ahead, EventsInOrder(ahead), TypeOK, Live' = Live, \A u \in Req : SameStage(u),
           \/ events' = events
           \/ events' = Append(events, Event(NoReq, "notice"))
    PROVE  EventsInOrder(ahead)'
<1> USE DEF SameStage
<1>0. Live \subseteq Req /\ \A u \in Live : (turn'[u] = None <=> turn[u] = None) /\ (turn'[u] = "over" <=> turn[u] = "over")
  BY DEF Live
<1>1. CASE events' = events
  <2>1. \A k, u : IsOf(k, u)' <=> IsOf(k, u)
    BY <1>1 DEF IsOf
  <2>2. QED  BY <1>0, <1>1, <2>1 DEF EventsInOrder
<1>2. CASE events' = Append(events, Event(NoReq, "notice"))
  <2>1. /\ Len(events) \in Nat /\ Len(events') = Len(events) + 1
        /\ \A k \in 1..Len(events) : events'[k] = events[k]
        /\ events'[Len(events) + 1] = Event(NoReq, "notice")
    <3> DEFINE E == [turn : Req \cup {NoReq}, kind : Kinds]
    <3>1. events \in Seq(E) /\ Event(NoReq, "notice") \in E
      BY DEF TypeOK, Event, Kinds
    <3> HIDE DEF E
    <3>2. QED  BY <1>2, <3>1, AppendProperties
  <2>2. /\ \A k \in 1..Len(events') : k \in 1..Len(events) \/ k = Len(events) + 1
        /\ \A k \in 1..Len(events) : k \in 1..Len(events')
    BY <2>1
  <2>3. events'[Len(events) + 1].kind = "notice"
    BY <2>1 DEF Event
  <2>4. /\ \A k \in 1..Len(events'), u \in Live : IsOf(k, u)' => k \in 1..Len(events) /\ IsOf(k, u)
    BY <2>1, <2>2, <2>3 DEF IsOf
  <2>5. \A k \in 1..Len(events') :
        /\ events'[k].kind \in {"progress", "final", "notice"} \cup Closing
        /\ events'[k].kind # "notice" =>
            /\ events'[k].turn \in Live' /\ turn'[events'[k].turn] # None
            /\ events'[k].kind # "progress" => turn'[events'[k].turn] = "over"
    <3>1. \A k \in 1..Len(events) :
        /\ events[k].kind \in {"progress", "final", "notice"} \cup Closing
        /\ events[k].kind # "notice" =>
            /\ events[k].turn \in Live /\ turn[events[k].turn] # None
            /\ events[k].kind # "progress" => turn[events[k].turn] = "over"
      BY DEF EventsInOrder
    <3>2. QED  BY <1>0, <2>1, <2>2, <2>3, <3>1
  <2>6. \A k, l \in 1..Len(events'), u, v \in Live :
        k < l /\ IsOf(k, u)' /\ IsOf(l, v)' => (u = v /\ events'[k].kind \notin Closing) \/ u \in ahead[v]
    <3>1. \A k, l \in 1..Len(events), u, v \in Live :
        k < l /\ IsOf(k, u) /\ IsOf(l, v) => (u = v /\ events[k].kind \notin Closing) \/ u \in ahead[v]
      BY DEF EventsInOrder
    <3>2. QED  BY <2>1, <2>4, <3>1
  <2>7. \A u \in Live : turn'[u] = "over" =>
            \E k \in 1..Len(events') : events'[k].turn = u /\ events'[k].kind \in Closing
    <3>1. \A u \in Live : turn[u] = "over" =>
            \E k \in 1..Len(events) : events[k].turn = u /\ events[k].kind \in Closing
      BY DEF EventsInOrder
    <3>2. QED  BY <1>0, <2>1, <2>2, <3>1
  <2>8. QED  BY <2>5, <2>6, <2>7 DEF EventsInOrder
<1>3. QED  BY <1>1, <1>2

\* Any list that grows at its end or loses its head.
LEMMA AppendFacts ==
    ASSUME NEW S, NEW s \in Seq(S), NEW x \in S
    PROVE  /\ Append(s, x) \in Seq(S) /\ Len(Append(s, x)) = Len(s) + 1 /\ Len(s) \in Nat
           /\ \A k \in 1..Len(s) : Append(s, x)[k] = s[k]
           /\ Append(s, x)[Len(s) + 1] = x
BY AppendProperties

\* A list that loses its head.
LEMMA TailFacts ==
    ASSUME NEW S, NEW s \in Seq(S), s # <<>>
    PROVE  /\ Tail(s) \in Seq(S) /\ Len(Tail(s)) = Len(s) - 1 /\ Len(s) \in Nat \ {0}
           /\ \A k \in 1..(Len(s) - 1) : Tail(s)[k] = s[k + 1]
           /\ Head(s) = s[1] /\ s[1] \in S
BY HeadTailProperties

\* A list that grows by several elements.
LEMMA ConcatFacts ==
    ASSUME NEW S, NEW s \in Seq(S), NEW t \in Seq(S)
    PROVE  /\ Len(s \o t) = Len(s) + Len(t) /\ Len(s) \in Nat /\ Len(t) \in Nat
           /\ \A k \in 1..Len(s) : (s \o t)[k] = s[k]
           /\ \A k \in 1..Len(t) : (s \o t)[Len(s) + k] = t[k]
<1>1. /\ Len(s \o t) = Len(s) + Len(t)
      /\ \A k \in 1..(Len(s) + Len(t)) : (s \o t)[k] = IF k <= Len(s) THEN s[k] ELSE t[k - Len(s)]
  BY ConcatProperties
<1>2. Len(s) \in Nat /\ Len(t) \in Nat
  OBVIOUS
<1>3. QED  BY <1>1, <1>2

\* The event queue after one more event.
LEMMA EventAppended ==
    ASSUME TypeOK, NEW r \in Req \cup {NoReq}, NEW kind \in Kinds,
           events' = Append(events, Event(r, kind))
    PROVE  /\ Len(events') = Len(events) + 1 /\ Len(events) \in Nat
           /\ \A k \in 1..Len(events) : events'[k] = events[k]
           /\ events'[Len(events) + 1] = Event(r, kind)
<1> DEFINE E == [turn : Req \cup {NoReq}, kind : Kinds]
<1>1. events \in Seq(E) /\ Event(r, kind) \in E
  BY DEF TypeOK, Event
<1> HIDE DEF E
<1>2. QED  BY <1>1, AppendFacts

\* Steps that begin and end no turn of the queue, and take no request from
\* the session's line.
LEMMA StagesKept ==
    ASSUME NEW ahead, TurnsInOrder(ahead), Live' = Live, \A u \in Req : SameStage(u),
           live' = {u \in Req : Running(u)'},
           \A u \in Req : (\E k \in 1..Len(line') : line'[k] = u) <=> \E k \in 1..Len(line) : line[k] = u,
           \A k, l \in 1..Len(line') : k < l /\ line'[k] \in Req /\ line'[l] \in Req =>
                line'[k] \in ahead[line'[l]]
    PROVE  TurnsInOrder(ahead)'
<1> USE DEF SameStage
<1>1. Live \subseteq Req
  BY DEF Live
<1>2. \A u \in Req : turn'[u] # None => u \in Live' \/ turn'[u] = "over"
  BY DEF TurnsInOrder
<1>3. \A u, v \in Live' : u \in ahead[v] /\ turn'[v] # None => turn'[u] = "over"
  BY <1>1 DEF TurnsInOrder
<1>4. \A u \in Req : (u \in Live' /\ turn'[u] = None) <=> \E k \in 1..Len(line') : line'[k] = u
  BY DEF TurnsInOrder
<1>5. QED  BY <1>2, <1>3, <1>4 DEF TurnsInOrder

\* The order of turns depends on the drains, the line and the turns only.
LEMMA TurnsKept ==
    ASSUME NEW ahead, TurnsInOrder(ahead), Live' = Live, UNCHANGED <<line, live, turn>>
    PROVE  TurnsInOrder(ahead)' /\ \A u \in Req : SameStage(u)
BY DEF TurnsInOrder, SameStage, Running

\* A new request goes to the end of the line, as its drain does.
LEMMA SendInTurn ==
    ASSUME NEW ahead, TurnsInOrder(ahead), EventsInOrder(ahead), TypeOK,
           NEW r \in Req, r \notin Live, turn[r] = None,
           Live' = Live \cup {r}, line' = Append(line, r), UNCHANGED <<live, turn, events>>,
           NEW after, \A v \in Req : after[v] = IF v = r THEN Live ELSE ahead[v] \ {r}
    PROVE  TurnsInOrder(after)' /\ EventsInOrder(after)'
<1>1. /\ Live \subseteq Req /\ r \notin after[r]
      /\ \A u \in Live, v \in Live : u \in after[v] <=> u \in ahead[v]
      /\ \A u \in Live : u \in after[r] /\ r \notin after[u] /\ u # r
  BY DEF Live
<1>2. /\ Len(line') = Len(line) + 1 /\ Len(line) \in Nat
      /\ \A k \in 1..Len(line) : line'[k] = line[k]
      /\ line'[Len(line) + 1] = r
  BY AppendFacts DEF TypeOK
<1>3. /\ \A k \in 1..Len(line') : k \in 1..Len(line) \/ k = Len(line) + 1
      /\ \A k \in 1..Len(line) : k \in 1..Len(line')
      /\ Len(line) + 1 \in 1..Len(line')
      /\ \A k, l \in 1..Len(line') : k < l => k \in 1..Len(line)
  BY <1>2
<1>4. \A k \in 1..Len(line) : line[k] \in Req => line[k] \in Live
  BY DEF TurnsInOrder
<1>5. live' = {u \in Req : Running(u)'}
  BY DEF TurnsInOrder, Running
<1>6. \A u \in Req : turn'[u] # None => u \in Live' \/ turn'[u] = "over"
  BY DEF TurnsInOrder
<1>7. \A u, v \in Live' : u \in after[v] /\ turn'[v] # None => turn'[u] = "over"
  BY <1>1 DEF TurnsInOrder
<1>8. \A u \in Req : (u \in Live' /\ turn'[u] = None) <=> \E k \in 1..Len(line') : line'[k] = u
  <2> TAKE u \in Req
  <2>1. CASE u = r
    BY <1>2, <1>3, <2>1
  <2>2. CASE u # r
    <3>1. (u \in Live /\ turn[u] = None) <=> \E k \in 1..Len(line) : line[k] = u
      BY DEF TurnsInOrder
    <3>2. (\E k \in 1..Len(line') : line'[k] = u) <=> \E k \in 1..Len(line) : line[k] = u
      BY <1>2, <1>3, <2>2
    <3>3. QED  BY <2>2, <3>1, <3>2
  <2>3. QED  BY <2>1, <2>2
<1>9. \A k, l \in 1..Len(line') : k < l /\ line'[k] \in Req /\ line'[l] \in Req =>
        line'[k] \in after[line'[l]]
  <2> TAKE k, l \in 1..Len(line')
  <2> HAVE k < l /\ line'[k] \in Req /\ line'[l] \in Req
  <2>1. k \in 1..Len(line) /\ line'[k] = line[k] /\ line[k] \in Live
    BY <1>2, <1>3, <1>4
  <2>2. CASE l \in 1..Len(line)
    <3>1. line'[l] = line[l] /\ line[l] \in Live
      BY <1>2, <1>4, <2>2
    <3>2. line[k] \in ahead[line[l]]
      BY <1>1, <2>1, <2>2, <3>1 DEF TurnsInOrder
    <3>3. QED  BY <1>1, <2>1, <3>1, <3>2
  <2>3. CASE l = Len(line) + 1
    BY <1>1, <1>2, <2>1, <2>3
  <2>4. QED  BY <1>3, <2>2, <2>3
<1>10. TurnsInOrder(after)'
  BY <1>5, <1>6, <1>7, <1>8, <1>9 DEF TurnsInOrder
<1>11. EventsInOrder(after)'
  <2>1. \A k \in 1..Len(events) :
        /\ events[k].kind \in {"progress", "final", "notice"} \cup Closing
        /\ events[k].kind # "notice" =>
            /\ events[k].turn \in Live /\ turn[events[k].turn] # None
            /\ events[k].kind # "progress" => turn[events[k].turn] = "over"
    BY DEF EventsInOrder
  <2>2. \A k \in 1..Len(events), u \in Live' : IsOf(k, u) => u \in Live
    BY <2>1 DEF IsOf
  <2>3. \A k, u : IsOf(k, u)' <=> IsOf(k, u)
    BY DEF IsOf
  <2>4. \A k, l \in 1..Len(events), u, v \in Live :
        k < l /\ IsOf(k, u) /\ IsOf(l, v) => (u = v /\ events[k].kind \notin Closing) \/ u \in ahead[v]
    BY DEF EventsInOrder
  <2>5. \A k, l \in 1..Len(events), u, v \in Live' :
        k < l /\ IsOf(k, u)' /\ IsOf(l, v)' => (u = v /\ events'[k].kind \notin Closing) \/ u \in after[v]
    BY <1>1, <2>2, <2>3, <2>4
  <2>6. \A u \in Live' : turn[u] = "over" =>
            \E k \in 1..Len(events) : events[k].turn = u /\ events[k].kind \in Closing
    BY DEF EventsInOrder, None
  <2>7. QED  BY <2>1, <2>5, <2>6 DEF EventsInOrder
<1>12. QED  BY <1>10, <1>11

\* The events that the reader finds are those of its own turn.
LEMMA HeadIsOwn ==
    ASSUME NEW ahead, NEW stuck, Lined(ahead, stuck), TypeOK,
           TurnsInOrder(ahead), EventsInOrder(ahead),
           NEW r \in Req, drain[r] = "draining", events # <<>>, Head(events).kind # "notice"
    PROVE  Head(events).turn = r
<1>1. r \in Live /\ r \notin stuck
  BY DEF Live, Lined, Stuck
<1>2. \A u \in Live : u \notin ahead[r] /\ (u = r \/ r \in ahead[u])
  BY <1>1 DEF Lined, Queued, First, Linear
<1>3. Len(events) \in Nat \ {0} /\ 1 \in 1..Len(events) /\ Head(events) = events[1]
  BY TailFacts DEF TypeOK
<1>4. PICK u \in Live : u = events[1].turn /\ turn[u] # None /\ IsOf(1, u)
  BY <1>3 DEF EventsInOrder, IsOf
<1>5. ASSUME u # r PROVE FALSE
  <2>1. turn[r] = "over"
    BY <1>1, <1>2, <1>4, <1>5 DEF TurnsInOrder
  <2>2. PICK k \in 1..Len(events) : events[k].turn = r /\ events[k].kind \in Closing
    BY <1>1, <2>1 DEF EventsInOrder
  <2>3. IsOf(k, r) /\ k # 1 /\ 1 < k
    BY <1>3, <1>4, <1>5, <2>2 DEF IsOf, Closing
  <2>4. QED  BY <1>1, <1>2, <1>3, <1>4, <1>5, <2>3 DEF EventsInOrder
<1>6. QED  BY <1>3, <1>4, <1>5

\* An event is read; with the one that closes its turn the reader goes.
LEMMA EventRead ==
    ASSUME NEW ahead, Linear(ahead), TypeOK, EventsInOrder(ahead),
           events # <<>>, events' = Tail(events), turn' = turn,
           \/ Head(events).kind \notin Closing /\ Live' = Live
           \/ Head(events).kind \in Closing /\ Live' = Live \ {Head(events).turn}
    PROVE  EventsInOrder(ahead)'
<1>1. /\ Len(events') = Len(events) - 1 /\ Len(events) \in Nat \ {0}
      /\ \A k \in 1..(Len(events) - 1) : events'[k] = events[k + 1]
      /\ Head(events) = events[1]
  BY TailFacts DEF TypeOK
<1>2. /\ \A k \in 1..Len(events') : k + 1 \in 1..Len(events) /\ events'[k] = events[k + 1] /\ 1 < k + 1
      /\ \A k, l \in 1..Len(events') : k < l => k + 1 < l + 1
      /\ \A k \in 1..Len(events) : k # 1 => k - 1 \in 1..Len(events') /\ events'[k - 1] = events[k]
      /\ 1 \in 1..Len(events)
  BY <1>1
<1>3. Live' \subseteq Live
  OBVIOUS
<1>4. \A k \in 1..Len(events) :
        /\ events[k].kind \in {"progress", "final", "notice"} \cup Closing
        /\ events[k].kind # "notice" =>
            /\ events[k].turn \in Live /\ turn[events[k].turn] # None
            /\ events[k].kind # "progress" => turn[events[k].turn] = "over"
  BY DEF EventsInOrder
<1>5. \A k, l \in 1..Len(events), u, v \in Live :
        k < l /\ IsOf(k, u) /\ IsOf(l, v) => (u = v /\ events[k].kind \notin Closing) \/ u \in ahead[v]
  BY DEF EventsInOrder
<1>6. ASSUME NEW k \in 1..Len(events), 1 < k, events[k].kind # "notice" PROVE events[k].turn \in Live'
  <2>1. CASE Head(events).kind \notin Closing
    BY <1>4, <1>6, <2>1
  <2>2. CASE Head(events).kind \in Closing
    <3> DEFINE u == events[1].turn
    <3>1. u \in Live /\ IsOf(1, u) /\ events[1].kind \in Closing
      BY <1>1, <1>2, <1>4, <2>2 DEF IsOf, Closing
    <3>2. events[k].turn \in Live /\ IsOf(k, events[k].turn)
      BY <1>4, <1>6 DEF IsOf
    <3>3. events[k].turn # u
      BY <1>2, <1>5, <1>6, <3>1, <3>2 DEF Linear
    <3>4. QED  BY <1>1, <2>2, <3>2, <3>3
  <2>3. QED  BY <2>1, <2>2
<1>7. \A k \in 1..Len(events') :
        /\ events'[k].kind \in {"progress", "final", "notice"} \cup Closing
        /\ events'[k].kind # "notice" =>
            /\ events'[k].turn \in Live' /\ turn'[events'[k].turn] # None
            /\ events'[k].kind # "progress" => turn'[events'[k].turn] = "over"
  BY <1>2, <1>4, <1>6
<1>8. \A k \in 1..Len(events') : \A u : IsOf(k, u)' <=> IsOf(k + 1, u)
  BY <1>2 DEF IsOf
<1>9. \A k, l \in 1..Len(events'), u, v \in Live' :
        k < l /\ IsOf(k, u)' /\ IsOf(l, v)' => (u = v /\ events'[k].kind \notin Closing) \/ u \in ahead[v]
  <2> TAKE k, l \in 1..Len(events'), u, v \in Live'
  <2> HAVE k < l /\ IsOf(k, u)' /\ IsOf(l, v)'
  <2>1. IsOf(k + 1, u) /\ IsOf(l + 1, v) /\ k + 1 < l + 1 /\ u \in Live /\ v \in Live
    BY <1>2, <1>3, <1>8
  <2>2. QED  BY <1>2, <1>5, <2>1
<1>10. ASSUME NEW u \in Live', turn'[u] = "over"
       PROVE  \E k \in 1..Len(events') : events'[k].turn = u /\ events'[k].kind \in Closing
  <2>1. PICK k \in 1..Len(events) : events[k].turn = u /\ events[k].kind \in Closing
    BY <1>3, <1>10 DEF EventsInOrder
  <2>2. k # 1
    BY <1>1, <1>10, <2>1
  <2>3. QED  BY <1>2, <2>1, <2>2
<1>11. QED  BY <1>7, <1>9, <1>10 DEF EventsInOrder

\* The session takes the first message of the line: everything ahead of it
\* is over.
LEMMA BeginInTurn ==
    ASSUME NEW ahead, Linear(ahead), TypeOK, TurnsInOrder(ahead), EventsInOrder(ahead),
           NEW r \in Req, Begin(r), "warning" \notin circumstances, Live' = Live
    PROVE  TurnsInOrder(ahead)' /\ EventsInOrder(ahead)'
<1>1. /\ line # <<>> /\ Head(line) = r /\ live = {} /\ line' = Tail(line) /\ live' = {r}
      /\ turn' = [turn EXCEPT ![r] = "running"]
      /\ events' = Append(events, Event(r, "progress"))
  BY DEF Begin, Session!Serve
<1>2. /\ turn'[r] = "running" /\ \A u \in Req \ {r} : turn'[u] = turn[u]
      /\ \A u \in Req : turn[u] \in {None, "running", "cancelling", "over"}
  BY <1>1 DEF TypeOK
<1>3. /\ Len(line') = Len(line) - 1 /\ Len(line) \in Nat \ {0}
      /\ \A k \in 1..(Len(line) - 1) : line'[k] = line[k + 1]
      /\ line[1] = r
  BY <1>1, TailFacts DEF TypeOK
<1>4. /\ \A k \in 1..Len(line') : k + 1 \in 1..Len(line) /\ line'[k] = line[k + 1] /\ 1 < k + 1
      /\ \A k, l \in 1..Len(line') : k < l => k + 1 < l + 1
      /\ \A k \in 1..Len(line) : k # 1 => k - 1 \in 1..Len(line') /\ line'[k - 1] = line[k] /\ 1 < k
      /\ 1 \in 1..Len(line)
  BY <1>3
<1>5. \A k, l \in 1..Len(line) : k < l /\ line[k] \in Req /\ line[l] \in Req => line[k] \in ahead[line[l]]
  BY DEF TurnsInOrder
<1>6. \A u \in Req : (u \in Live /\ turn[u] = None) <=> \E k \in 1..Len(line) : line[k] = u
  BY DEF TurnsInOrder
<1>7. r \in Live /\ turn[r] = None
  BY <1>3, <1>4, <1>6
<1>8. \A u \in Req : ~Running(u)
  BY <1>1 DEF TurnsInOrder
<1>9. \A k \in 1..Len(line) : 1 < k /\ line[k] \in Req => r \in ahead[line[k]] /\ line[k] \in Live
  BY <1>3, <1>4, <1>5, <1>6
<1>10. \A u \in Live : u \in ahead[r] => turn[u] = "over"
  <2> TAKE u \in Live
  <2> HAVE u \in ahead[r]
  <2>1. u # r /\ u \in Req /\ r \notin ahead[u]
    BY <1>7, Asymmetric DEF Linear, Live
  <2>2. turn[u] # None
    BY <1>3, <1>4, <1>6, <1>9, <2>1
  <2>3. QED  BY <1>2, <1>8, <2>1, <2>2 DEF Running
<1>11. TurnsInOrder(ahead)'
  <2>1. live' = {u \in Req : Running(u)'}
    BY <1>1, <1>2, <1>8 DEF Running
  <2>2. \A u \in Req : turn'[u] # None => u \in Live' \/ turn'[u] = "over"
    BY <1>2, <1>7 DEF TurnsInOrder
  <2>3. \A u, v \in Live' : u \in ahead[v] /\ turn'[v] # None => turn'[u] = "over"
    <3> TAKE u, v \in Live'
    <3> HAVE u \in ahead[v] /\ turn'[v] # None
    <3>1. u \in Live /\ v \in Live /\ u \in Req /\ v \in Req
      BY DEF Live
    <3>2. turn[u] = "over"
      BY <1>2, <1>10, <3>1 DEF TurnsInOrder
    <3>3. QED  BY <1>2, <1>7, <3>1, <3>2 DEF None
  <2>4. \A u \in Req : (u \in Live' /\ turn'[u] = None) <=> \E k \in 1..Len(line') : line'[k] = u
    <3> TAKE u \in Req
    <3>1. CASE u = r
      <4>1. turn'[u] # None
        BY <1>2, <3>1 DEF None
      <4>2. \A k \in 1..Len(line') : line'[k] # r
        BY <1>4, <1>7, <1>9 DEF Linear
      <4>3. QED  BY <3>1, <4>1, <4>2
    <3>2. CASE u # r
      <4>1. (\E k \in 1..Len(line') : line'[k] = u) <=> \E k \in 1..Len(line) : line[k] = u
        BY <1>3, <1>4, <3>2
      <4>2. QED  BY <1>2, <1>6, <3>2, <4>1
    <3>3. QED  BY <3>1, <3>2
  <2>5. \A k, l \in 1..Len(line') : k < l /\ line'[k] \in Req /\ line'[l] \in Req =>
        line'[k] \in ahead[line'[l]]
    BY <1>4, <1>5
  <2>6. QED  BY <2>1, <2>2, <2>3, <2>4, <2>5 DEF TurnsInOrder
<1>12. EventsInOrder(ahead)'
  <2>1. /\ Len(events') = Len(events) + 1 /\ Len(events) \in Nat
        /\ \A k \in 1..Len(events) : events'[k] = events[k]
        /\ events'[Len(events) + 1] = Event(r, "progress")
    BY <1>1, EventAppended DEF Kinds
  <2>2. \A u \in Req \ {r} : SameStage(u)
    BY <1>2 DEF SameStage
  <2>3. turn[r] # "over" /\ turn'[r] # None /\ turn'[r] # "over"
    BY <1>2, <1>7 DEF None
  <2>4. \A k \in (Len(events) + 1)..(Len(events) + 1) :
                /\ events'[k].turn = r /\ events'[k].kind \in {"progress", "final"} \cup Closing
                /\ events'[k].kind # "progress" => turn'[r] = "over"
                /\ events'[k].kind \in Closing => k = Len(events) + 1
    BY <2>1 DEF Event
  <2>5. QED  BY <1>7, <2>1, <2>2, <2>3, <2>4, TurnAddsEvents
<1>13. QED  BY <1>11, <1>12

\* Who runs has events to add; who does is the only one that runs.
LEMMA ProgressInTurn ==
    ASSUME NEW ahead, Linear(ahead), TypeOK, TurnsInOrder(ahead), EventsInOrder(ahead),
           NEW r \in Req, Progress(r), Live' = Live
    PROVE  TurnsInOrder(ahead)' /\ EventsInOrder(ahead)'
<1>1. UNCHANGED <<line, live, turn>> /\ events' = Append(events, Event(r, "progress")) /\ Running(r)
  BY DEF Progress, serviceVars
<1>2. TurnsInOrder(ahead)' /\ \A u \in Req : SameStage(u)
  BY <1>1, TurnsKept
<1>3. r \in Live /\ turn[r] # "over" /\ turn'[r] # None /\ turn'[r] # "over"
  BY <1>1 DEF TurnsInOrder, Running, None
<1>4. /\ Len(events') = Len(events) + 1 /\ Len(events) \in Nat
      /\ \A k \in 1..Len(events) : events'[k] = events[k]
      /\ events'[Len(events) + 1] = Event(r, "progress")
  BY <1>1, EventAppended DEF Kinds
<1>5. \A k \in (Len(events) + 1)..(Len(events) + 1) :
            /\ events'[k].turn = r /\ events'[k].kind \in {"progress", "final"} \cup Closing
            /\ events'[k].kind # "progress" => turn'[r] = "over"
            /\ events'[k].kind \in Closing => k = Len(events) + 1
  BY <1>4 DEF Event
<1>6. QED  BY <1>2, <1>3, <1>4, <1>5, TurnAddsEvents

\* The live turn ends: its last event closes it, and everything ahead of it
\* is over.
LEMMA EndInTurn ==
    ASSUME NEW ahead, Linear(ahead), TypeOK, TurnsInOrder(ahead), EventsInOrder(ahead),
           NEW r \in Req, Running(r), NEW closing, End(r, closing), Live' = Live,
           \/ closing = <<Event(r, "final"), Event(r, "complete")>>
           \/ closing = <<Event(r, "aborted")>>
    PROVE  TurnsInOrder(ahead)' /\ EventsInOrder(ahead)'
<1>1. /\ live' = {} /\ line' = line /\ turn' = [turn EXCEPT ![r] = "over"]
      /\ events' = events \o closing
  BY DEF End, Session!Finish
<1>2. turn'[r] = "over" /\ \A u \in Req \ {r} : turn'[u] = turn[u] /\ SameStage(u)
  BY <1>1 DEF TypeOK, SameStage
<1>3. r \in Live /\ turn[r] # None /\ turn[r] # "over" /\ Live \subseteq Req
  BY DEF TurnsInOrder, Running, None, Live
<1>4. \A u \in Req : Running(u) => u = r
  <2> TAKE u \in Req
  <2> HAVE Running(u)
  <2>1. u \in Live /\ turn[u] # None /\ turn[u] # "over"
    BY DEF TurnsInOrder, Running, None
  <2>2. u \notin ahead[r] /\ r \notin ahead[u]
    BY <1>3, <2>1 DEF TurnsInOrder
  <2>3. QED  BY <1>3, <2>1, <2>2 DEF Linear
<1>5. TurnsInOrder(ahead)'
  <2>1. live' = {u \in Req : Running(u)'}
    BY <1>1, <1>2, <1>4 DEF Running
  <2>2. \A u \in Req : turn'[u] # None => u \in Live' \/ turn'[u] = "over"
    BY <1>2 DEF TurnsInOrder
  <2>3. \A u, v \in Live' : u \in ahead[v] /\ turn'[v] # None => turn'[u] = "over"
    <3> TAKE u, v \in Live'
    <3> HAVE u \in ahead[v] /\ turn'[v] # None
    <3>1. turn[v] # None
      BY <1>2, <1>3
    <3>2. turn[u] = "over"
      BY <3>1 DEF TurnsInOrder
    <3>3. QED  BY <1>2, <1>3, <3>2
  <2>4. \A u \in Req : (u \in Live' /\ turn'[u] = None) <=> \E k \in 1..Len(line') : line'[k] = u
    <3>1. \A u \in Req : turn'[u] = None <=> turn[u] = None
      BY <1>2, <1>3 DEF None
    <3>2. QED  BY <1>1, <3>1 DEF TurnsInOrder
  <2>5. \A k, l \in 1..Len(line') : k < l /\ line'[k] \in Req /\ line'[l] \in Req =>
        line'[k] \in ahead[line'[l]]
    BY <1>1 DEF TurnsInOrder
  <2>6. QED  BY <2>1, <2>2, <2>3, <2>4, <2>5 DEF TurnsInOrder
<1>6. PICK n \in Nat : /\ n > 0 /\ Len(events') = Len(events) + n /\ Len(events) \in Nat
                       /\ \A k \in 1..Len(events) : events'[k] = events[k]
                       /\ \A k \in (Len(events) + 1)..(Len(events) + n) :
                            /\ events'[k].turn = r /\ events'[k].kind \in {"final"} \cup Closing
                            /\ events'[k].kind \in Closing => k = Len(events) + n
                       /\ events'[Len(events) + n].kind \in Closing
  <2> DEFINE E == [turn : Req \cup {NoReq}, kind : Kinds]
             m == Len(events)
  <2>1. events \in Seq(E) /\ \A kind \in Kinds : Event(r, kind) \in E
    BY DEF TypeOK, Event
  <2>2. /\ \A kind : Event(r, kind).turn = r /\ Event(r, kind).kind = kind
        /\ {"final", "complete", "aborted"} \subseteq Kinds
    BY DEF Event, Kinds
  <2> HIDE DEF E
  <2>3. \A t \in Seq(E) :
            /\ Len(events \o t) = Len(events) + Len(t) /\ Len(events) \in Nat
            /\ \A k \in 1..Len(events) : (events \o t)[k] = events[k]
            /\ \A k \in 1..Len(t) : (events \o t)[Len(events) + k] = t[k]
    <3> TAKE t \in Seq(E)
    <3>1. events \in Seq(E)
      BY <2>1
    <3>2. QED  BY <3>1, ConcatFacts
  <2>4. CASE closing = <<Event(r, "aborted")>>
    <3>1. closing \in Seq(E) /\ Len(closing) = 1 /\ closing[1] = Event(r, "aborted")
      BY <2>1, <2>2, <2>4
    <3>2. /\ Len(events') = m + 1 /\ m \in Nat
          /\ \A k \in 1..m : events'[k] = events[k]
          /\ events'[m + 1] = closing[1]
      <4>1. /\ Len(events \o closing) = Len(events) + Len(closing) /\ Len(events) \in Nat
            /\ \A k \in 1..Len(events) : (events \o closing)[k] = events[k]
            /\ \A k \in 1..Len(closing) : (events \o closing)[Len(events) + k] = closing[k]
        BY <2>3, <3>1
      <4>2. QED  BY <1>1, <3>1, <4>1
    <3>3. \A k \in 1..m : events'[k] = events[k]
      BY <3>2
    <3>4. events'[m + 1] = Event(r, "aborted")
      BY <3>1, <3>2
    <3>5. \A k \in (m + 1)..(m + 1) : k = m + 1
      BY <3>2
    <3>6. QED  BY <2>2, <3>2, <3>3, <3>4, <3>5 DEF Closing
  <2>5. CASE closing = <<Event(r, "final"), Event(r, "complete")>>
    <3>1. /\ closing \in Seq(E) /\ Len(closing) = 2
          /\ closing[1] = Event(r, "final") /\ closing[2] = Event(r, "complete")
      BY <2>1, <2>2, <2>5
    <3>2. /\ Len(events') = m + 2 /\ m \in Nat
          /\ \A k \in 1..m : events'[k] = events[k]
          /\ events'[m + 1] = closing[1] /\ events'[m + 2] = closing[2]
      <4>1. /\ Len(events \o closing) = Len(events) + Len(closing) /\ Len(events) \in Nat
            /\ \A k \in 1..Len(events) : (events \o closing)[k] = events[k]
            /\ \A k \in 1..Len(closing) : (events \o closing)[Len(events) + k] = closing[k]
        BY <2>3, <3>1
      <4>2. QED  BY <1>1, <3>1, <4>1
    <3>3. \A k \in 1..m : events'[k] = events[k]
      BY <3>2
    <3>4. events'[m + 1] = Event(r, "final") /\ events'[m + 2] = Event(r, "complete")
      BY <3>1, <3>2
    <3>5. \A k \in (m + 1)..(m + 2) : k = m + 1 \/ k = m + 2
      BY <3>2
    <3>6. QED  BY <2>2, <3>2, <3>3, <3>4, <3>5 DEF Closing
  <2>6. QED  BY <2>4, <2>5
<1>7. EventsInOrder(ahead)'
  BY <1>2, <1>3, <1>6, TurnAddsEvents DEF None
<1>8. QED  BY <1>5, <1>7

\* AbortTurn joins the line, or leaves it, and cancels what runs.
LEMMA AbortInTurn ==
    ASSUME NEW ahead, TypeOK, TurnsInOrder(ahead), EventsInOrder(ahead), Live' = Live,
           Abort \/ TakeAborts
    PROVE  TurnsInOrder(ahead)' /\ EventsInOrder(ahead)'
<1>0. Len(line) \in Nat
  BY DEF TypeOK
<1>1. CASE Abort
  <2>1. line' = Append(line, AbortTurn) /\ UNCHANGED <<live, turn, events>>
    BY <1>1 DEF Abort, Session!Accept, turnVars
  <2>2. /\ Len(line') = Len(line) + 1 /\ \A k \in 1..Len(line) : line'[k] = line[k]
        /\ line'[Len(line) + 1] = AbortTurn
    BY <2>1, AppendFacts DEF TypeOK
  <2>3. /\ \A k \in 1..Len(line') : k \in 1..Len(line) \/ k = Len(line) + 1
        /\ \A k \in 1..Len(line) : k \in 1..Len(line')
    BY <1>0, <2>2
  <2>4. \A k \in 1..Len(line') : line'[k] \in Req => k \in 1..Len(line)
    BY <2>2, <2>3, RequestsAreNot
  <2>5. \A u \in Req : SameStage(u)
    BY <2>1 DEF SameStage
  <2>6. live' = {u \in Req : Running(u)'}
    BY <2>1 DEF TurnsInOrder, Running
  <2>7. \A u \in Req : (\E k \in 1..Len(line') : line'[k] = u) <=> \E k \in 1..Len(line) : line[k] = u
    BY <2>2, <2>3, <2>4
  <2>8. \A k, l \in 1..Len(line') : k < l /\ line'[k] \in Req /\ line'[l] \in Req =>
            line'[k] \in ahead[line'[l]]
    BY <2>2, <2>4 DEF TurnsInOrder
  <2>9. QED  BY <2>1, <2>5, <2>6, <2>7, <2>8, StagesKept, NoticeAdded
<1>2. ASSUME NEW j \in DOMAIN line, TakeAbort(j) PROVE TurnsInOrder(ahead)' /\ EventsInOrder(ahead)'
  <2>1. /\ line[j] = AbortTurn /\ live' = live /\ j \in 1..Len(line)
        /\ line' = [i \in 1..(Len(line) - 1) |-> IF i < j THEN line[i] ELSE line[i + 1]]
    BY <1>2 DEF TakeAbort, Session!Aside, Session!Without, TypeOK
  <2>2. /\ Len(line') = Len(line) - 1
        /\ \A i \in 1..(Len(line) - 1) : line'[i] = IF i < j THEN line[i] ELSE line[i + 1]
    BY <1>0, <2>1
  <2> DEFINE was(i) == IF i < j THEN i ELSE i + 1
  <2>3. /\ \A i \in 1..Len(line') : was(i) \in 1..Len(line) /\ line'[i] = line[was(i)]
        /\ \A i, k \in 1..Len(line') : i < k => was(i) < was(k)
    BY <1>0, <2>1, <2>2
  <2>4. \A i \in 1..Len(line) : line[i] \in Req => \E k \in 1..Len(line') : line'[k] = line[i]
    <3> TAKE i \in 1..Len(line)
    <3> HAVE line[i] \in Req
    <3>1. i # j
      BY <2>1, RequestsAreNot
    <3>2. CASE i < j
      <4>1. i \in 1..Len(line') /\ line'[i] = line[i]
        BY <1>0, <2>1, <2>2, <3>2
      <4>2. QED  BY <4>1
    <3>3. CASE ~(i < j)
      <4>1. i - 1 \in 1..Len(line') /\ line'[i - 1] = line[i]
        BY <1>0, <2>1, <2>2, <3>1, <3>3
      <4>2. QED  BY <4>1
    <3>4. QED  BY <3>2, <3>3
  <2> HIDE DEF was
  <2>5. \A u \in Req : (\E k \in 1..Len(line') : line'[k] = u) <=> \E k \in 1..Len(line) : line[k] = u
    BY <2>3, <2>4
  <2>6. \A k, l \in 1..Len(line') : k < l /\ line'[k] \in Req /\ line'[l] \in Req =>
            line'[k] \in ahead[line'[l]]
    BY <2>3 DEF TurnsInOrder
  <2>7. /\ \/ events' = events
           \/ events' = Append(events, Event(NoReq, "notice"))
        /\ \A u \in Req : turn'[u] = turn[u] \/ (u \in live /\ turn'[u] = "cancelling")
    BY <1>2 DEF TakeAbort
  <2>8. \A u \in Req : SameStage(u) /\ (Running(u)' <=> Running(u))
    BY <2>7 DEF SameStage, Running, TurnsInOrder, None
  <2>9. live' = {u \in Req : Running(u)'}
    BY <2>1, <2>8 DEF TurnsInOrder
  <2>10. QED  BY <2>5, <2>6, <2>7, <2>8, <2>9, StagesKept, NoticeAdded
<1>3. QED  BY <1>1, <1>2 DEF TakeAborts

-----------------------------------------------------------------------------
(* Every step keeps the types, and what is known of a request              *)

\* TypeOK in three parts: the session, its drains, what requests are told.
TypesOfTurns ==
    /\ line \in Seq(Req \cup {AbortTurn}) /\ served \subseteq Req /\ live \subseteq Req
    /\ turn \in [Req -> {None, "running", "cancelling", "over"}]
    /\ events \in Seq([turn : Req \cup {NoReq}, kind : Kinds])

TypesOfDrains ==
    /\ phase \in [Req -> {"new", "checked", "accepted", "rejected", "job"}]
    /\ drain \in [Req -> {None, "ready", "waiting", "draining", "cancelled", "killed", "done"}]
    /\ awaited \in [Req -> Req \cup {NoReq}]
    /\ lock \in Req \cup {NoReq} /\ released \in Req \cup {NoReq} /\ emitter \in Req \cup {NoReq}

TypesOfAnswers ==
    /\ aborts \in 0..MaxAborts /\ circumstances \in Courses
    /\ settled \in [Req -> Terminals \cup {None, "muted"}]
    /\ by \in [Req -> Req \cup {NoReq}]

\* The three parts are the type invariant.
LEMMA TypeParts == TypeOK <=> TypesOfTurns /\ TypesOfDrains /\ TypesOfAnswers
BY DEF TypeOK, TypesOfTurns, TypesOfDrains, TypesOfAnswers

\* The session's line, turns and events stay of their types.
LEMMA StepTypesOfTurns == TypeOK /\ Next => TypesOfTurns'
<1> SUFFICES ASSUME TypeOK, Next PROVE TypesOfTurns'
  OBVIOUS
<1> DEFINE E == [turn : Req \cup {NoReq}, kind : Kinds]
           J == Req \cup {AbortTurn}
<1>0. /\ line \in Seq(J) /\ events \in Seq(E) /\ served \subseteq Req /\ live \subseteq Req
      /\ turn \in [Req -> {None, "running", "cancelling", "over"}]
  BY DEF TypeOK
<1>1. \A r \in Req \cup {NoReq}, kind \in Kinds : Event(r, kind) \in E
  BY DEF Event
<1>2. {"progress", "warning", "final", "complete", "error", "aborted", "notice"} \subseteq Kinds
  BY DEF Kinds
<1>3. Req \subseteq J /\ AbortTurn \in J
  OBVIOUS
<1> USE DEF TypesOfTurns
<1>4. ASSUME NEW r \in Req, TurnStep(r) PROVE TypesOfTurns'
  <2>1. \A closing \in Seq(E) : End(r, closing) => TypesOfTurns'
    <3> TAKE closing \in Seq(E)
    <3> HAVE End(r, closing)
    <3>1. line' = line /\ served' = served /\ live' = {} /\ turn' = [turn EXCEPT ![r] = "over"]
      BY DEF End, Session!Finish
    <3> HIDE DEF E
    <3>2. events' \in Seq(E)
      BY <1>0, ConcatProperties DEF End
    <3>3. QED  BY <1>0, <3>1, <3>2 DEF E
  <2>2. CASE Begin(r)
    <3> HIDE DEF E, J
    <3>1. Head(line) = r /\ line' \in Seq(J) /\ served' \subseteq Req /\ live' \subseteq Req
      BY <1>0, <2>2, TailFacts DEF Begin, Session!Serve
    <3>2. turn' = [turn EXCEPT ![r] = "running"]
      BY <2>2 DEF Begin
    <3>3. events' \in Seq(E)
      <4>1. Event(r, "progress") \in E /\ Event(r, "warning") \in E
        BY <1>1, <1>2
      <4>2. <<Event(r, "warning"), Event(r, "progress")>> \in Seq(E)
        BY <4>1
      <4>3. Append(events, Event(r, "progress")) \in Seq(E)
        BY <1>0, <4>1
      <4>4. events \o <<Event(r, "warning"), Event(r, "progress")>> \in Seq(E)
        BY <1>0, <4>2, ConcatProperties
      <4>5. QED  BY <2>2, <4>3, <4>4 DEF Begin
    <3>4. QED  BY <1>0, <3>1, <3>2, <3>3 DEF E, J
  <2>3. CASE Progress(r)
    <3> HIDE DEF E
    <3>1. events' \in Seq(E)
      <4>1. Event(r, "progress") \in E
        BY <1>1, <1>2
      <4>2. QED  BY <1>0, <2>3, <4>1 DEF Progress
    <3>2. QED  BY <1>0, <2>3, <3>1 DEF Progress, serviceVars, E
  <2>4. CASE Succeed(r) \/ FailTurn(r) \/ EndAborted(r)
    <3>1. \E closing \in {<<Event(r, "final"), Event(r, "complete")>>,
                          <<Event(r, "error"), Event(r, "complete")>>,
                          <<Event(r, "error")>>, <<Event(r, "aborted")>>, <<>>} : End(r, closing)
      BY <2>4 DEF Succeed, FailTurn, EndAborted
    <3> HIDE DEF E
    <3>2. \A kind, last \in {"final", "complete", "error", "aborted"} :
            <<Event(r, kind)>> \in Seq(E) /\ <<Event(r, kind), Event(r, last)>> \in Seq(E)
      BY <1>1, <1>2
    <3>3. <<>> \in Seq(E)
      OBVIOUS
    <3>4. \E closing \in Seq(E) : End(r, closing)
      BY <3>1, <3>2, <3>3
    <3>5. QED  BY <2>1, <3>4
  <2>5. CASE EndJob(r)
    BY <1>0, <2>5 DEF EndJob, serviceVars
  <2>6. QED  BY <1>4, <2>2, <2>3, <2>4, <2>5 DEF TurnStep
<1>5. ASSUME NEW r \in Req, SendStep(r) PROVE TypesOfTurns'
  <2>1. \A drains : Register(r, drains) => TypesOfTurns'
    <3> TAKE drains
    <3> HAVE Register(r, drains)
    <3>1. line' = Append(line, r) /\ UNCHANGED <<served, live, turn, events>>
      BY DEF Register, Session!Accept, turnVars
    <3> HIDE DEF J
    <3>2. line' \in Seq(J)
      BY <1>0, <1>3, <3>1
    <3>3. QED  BY <1>0, <3>1, <3>2 DEF J
  <2>2. CASE Reject(r) \/ Check(r) \/ StartJob(r)
    BY <1>0, <2>2 DEF Reject, Check, StartJob, serviceVars, turnVars
  <2>3. QED  BY <1>5, <2>1, <2>2 DEF SendStep, Send, SendOverStale, SendChecked
<1>6. ASSUME NEW r \in Req, DrainStep(r) PROVE TypesOfTurns'
  <2>1. UNCHANGED <<line, served, live, turn>>
    BY <1>6 DEF DrainStep, StartDrain, PredecessorOver, ReadOn, ReadFinal, ReadLast, HearNothing,
        EndCancelled, EndKilled, Leave, serviceVars, turnVars
  <2>2. events' = events \/ (events # <<>> /\ events' = Tail(events))
    BY <1>6 DEF DrainStep, StartDrain, PredecessorOver, ReadOn, ReadFinal, ReadLast, HearNothing,
        EndCancelled, EndKilled, Take, turnVars
  <2> HIDE DEF E
  <2>3. events' \in Seq(E)
    BY <1>0, <2>2
  <2>4. QED  BY <1>0, <2>1, <2>3 DEF E
<1>7. CASE Abort
  <2>1. line' = Append(line, AbortTurn) /\ UNCHANGED <<served, live, turn, events>>
    BY <1>7 DEF Abort, Session!Accept, turnVars
  <2> HIDE DEF J
  <2>2. line' \in Seq(J)
    BY <1>0, <1>3, <2>1
  <2>3. QED  BY <1>0, <2>1, <2>2 DEF J
<1>8. ASSUME NEW j \in DOMAIN line, TakeAbort(j) PROVE TypesOfTurns'
  <2>1. /\ live' = live /\ served' = served /\ j \in 1..Len(line) /\ Len(line) \in Nat
        /\ line' = [i \in 1..(Len(line) - 1) |-> IF i < j THEN line[i] ELSE line[i + 1]]
    BY <1>0, <1>8 DEF TakeAbort, Session!Aside, Session!Without
  <2> HIDE DEF J
  <2>2. \A i \in 1..Len(line) : line[i] \in J
    BY <1>0
  <2>3. \A i \in 1..(Len(line) - 1) : (IF i < j THEN line[i] ELSE line[i + 1]) \in J
    BY <2>1, <2>2
  <2>4. line' \in Seq(J)
    BY <2>1, <2>3
  <2> HIDE DEF E
  <2>5. events' \in Seq(E)
    <3>1. Event(NoReq, "notice") \in E
      BY <1>1, <1>2
    <3>2. QED  BY <1>0, <1>8, <3>1 DEF TakeAbort
  <2>6. turn' \in [Req -> {None, "running", "cancelling", "over"}]
    BY <1>0, <1>8 DEF TakeAbort
  <2>7. QED  BY <1>0, <2>1, <2>4, <2>5, <2>6 DEF E, J
<1>9. QED  BY <1>4, <1>5, <1>6, <1>7, <1>8 DEF Next, TakeAborts

\* So do the handlers, the drains and the slots.
LEMMA StepTypesOfDrains == TypeOK /\ Next => TypesOfDrains'
<1> SUFFICES ASSUME TypeOK, Next PROVE TypesOfDrains'
  OBVIOUS
<1>0. TypesOfDrains
  BY TypeParts
<1> USE DEF TypesOfDrains
<1>1. CASE Abort
  BY <1>0, <1>1 DEF Abort, drainVars
<1>2. CASE TakeAborts
  BY <1>0, <1>2 DEF TakeAborts, TakeAbort, drainVars, bridgeVars
<1>3. ASSUME NEW r \in Req, TurnStep(r) PROVE TypesOfDrains'
  <2>1. UNCHANGED <<bridgeVars, drainVars>>
    BY <1>3 DEF TurnStep, Begin, Progress, Succeed, FailTurn, EndAborted, EndJob, End
  <2>2. QED  BY <1>0, <2>1 DEF bridgeVars, drainVars
<1>4. ASSUME NEW r \in Req, SendStep(r) PROVE TypesOfDrains'
  <2>1. Busy(lock) => Forced \in [Req -> {None, "ready", "waiting", "draining", "cancelled", "killed", "done"}]
    BY <1>0 DEF Forced, Busy
  <2>2. ASSUME NEW drains \in [Req -> {None, "ready", "waiting", "draining", "cancelled", "killed", "done"}],
               Register(r, drains)
        PROVE  TypesOfDrains'
    BY <1>0, <2>2 DEF Register
  <2>3. CASE Send(r) \/ SendChecked(r)
    BY <1>0, <2>2, <2>3 DEF Send, SendChecked
  <2>4. CASE SendOverStale(r)
    BY <2>1, <2>2, <2>4 DEF SendOverStale, Stale
  <2>5. CASE Check(r)
    BY <1>0, <2>1, <2>5 DEF Check, Stale
  <2>6. CASE Reject(r)
    BY <1>0, <2>6 DEF Reject, drainVars
  <2>7. CASE StartJob(r)
    BY <1>0, <2>7 DEF StartJob
  <2>8. QED  BY <1>4, <2>3, <2>4, <2>5, <2>6, <2>7 DEF SendStep
<1>5. ASSUME NEW r \in Req, DrainStep(r) PROVE TypesOfDrains'
  <2>1. Wired(r) \in Req \cup {NoReq} /\ Unwired(r) \in Req \cup {NoReq}
    BY <1>0 DEF Wired, Unwired
  <2>2. CASE StartDrain(r)
    BY <1>0, <2>1, <2>2 DEF StartDrain, bridgeVars
  <2>3. CASE PredecessorOver(r)
    BY <1>0, <2>1, <2>3 DEF PredecessorOver, bridgeVars
  <2>4. CASE ReadOn(r)
    BY <1>0, <2>4 DEF ReadOn, bridgeVars, drainVars
  <2>5. CASE ReadFinal(r)
    BY <1>0, <2>5 DEF ReadFinal, bridgeVars
  <2>6. CASE ReadLast(r) \/ HearNothing(r) \/ EndCancelled(r) \/ EndKilled(r)
    <3>1. Leave(r) /\ emitter' \in {emitter, Unwired(r)}
      BY <2>6 DEF ReadLast, HearNothing, EndCancelled, EndKilled
    <3>2. QED  BY <1>0, <2>1, <3>1 DEF Leave
  <2>7. QED  BY <1>5, <2>2, <2>3, <2>4, <2>5, <2>6 DEF DrainStep
<1>6. QED  BY <1>1, <1>2, <1>3, <1>4, <1>5 DEF Next

\* So do the answers and the history.
LEMMA StepTypesOfAnswers == TypeOK /\ Next => TypesOfAnswers'
<1> SUFFICES ASSUME TypeOK, Next PROVE TypesOfAnswers'
  OBVIOUS
<1>0. TypesOfAnswers
  BY TypeParts
<1> USE DEF TypesOfAnswers
<1>1. CASE Abort
  BY <1>0, <1>1, Bounds DEF Abort, drainVars
<1>2. CASE TakeAborts
  BY <1>0, <1>2 DEF TakeAborts, TakeAbort, drainVars, userVars
<1>3. ASSUME NEW r \in Req, TurnStep(r) PROVE TypesOfAnswers'
  <2>1. UNCHANGED <<drainVars, userVars>>
    BY <1>3 DEF TurnStep, Begin, Progress, Succeed, FailTurn, EndAborted, EndJob, End
  <2>2. QED  BY <1>0, <2>1 DEF drainVars, userVars
<1>4. ASSUME NEW r \in Req, SendStep(r) PROVE TypesOfAnswers'
  <2>1. \A drains : Register(r, drains) => UNCHANGED <<settled, by, userVars>>
    BY DEF Register
  <2>2. CASE Send(r) \/ SendChecked(r) \/ SendOverStale(r)
    BY <1>0, <2>1, <2>2 DEF Send, SendChecked, SendOverStale, userVars
  <2>3. CASE Check(r) \/ Reject(r)
    BY <1>0, <2>3 DEF Check, Reject, drainVars, userVars
  <2>4. CASE StartJob(r)
    BY <1>0, <2>4 DEF StartJob, userVars
  <2>5. QED  BY <1>4, <2>2, <2>3, <2>4 DEF SendStep
<1>5. ASSUME NEW r \in Req, DrainStep(r) PROVE TypesOfAnswers'
  <2>1. UNCHANGED userVars
    BY <1>5 DEF DrainStep, StartDrain, PredecessorOver, ReadOn, ReadFinal, ReadLast, HearNothing,
        EndCancelled, EndKilled, Leave
  <2>2. \A terminal \in Terminals, t \in Req \cup {NoReq} : Settle(r, terminal, t) =>
            /\ settled' \in [Req -> Terminals \cup {None, "muted"}] /\ by' \in [Req -> Req \cup {NoReq}]
    BY <1>0 DEF Settle
  <2>3. {"final", "error", "aborted"} \subseteq Terminals /\ r \in Req \cup {NoReq}
    BY DEF Terminals
  <2>4. events # <<>> => Head(events).turn \in Req \cup {NoReq}
    <3> DEFINE E == [turn : Req \cup {NoReq}, kind : Kinds]
    <3>1. events \in Seq(E) /\ \A e \in E : e.turn \in Req \cup {NoReq}
      BY DEF TypeOK
    <3> HIDE DEF E
    <3>2. QED  BY <3>1
  <2>5. CASE ReadFinal(r)
    BY <1>0, <2>1, <2>2, <2>3, <2>4, <2>5 DEF ReadFinal, Take, userVars
  <2>6. CASE ReadLast(r)
    <3>1. \E terminal \in Terminals : Settle(r, terminal, Head(events).turn)
      BY <2>3, <2>6 DEF ReadLast
    <3>2. QED  BY <1>0, <2>1, <2>2, <2>4, <2>6, <3>1 DEF ReadLast, Take, userVars
  <2>7. CASE HearNothing(r) \/ EndCancelled(r)
    BY <1>0, <2>1, <2>2, <2>3, <2>7 DEF HearNothing, EndCancelled, userVars
  <2>8. CASE StartDrain(r) \/ PredecessorOver(r) \/ ReadOn(r) \/ EndKilled(r)
    BY <1>0, <2>1, <2>8 DEF StartDrain, PredecessorOver, ReadOn, EndKilled, drainVars, userVars
  <2>9. QED  BY <1>5, <2>5, <2>6, <2>7, <2>8 DEF DrainStep
<1>6. QED  BY <1>1, <1>2, <1>3, <1>4, <1>5 DEF Next

\* Every step keeps the type invariant.
LEMMA StepTypes == TypeOK /\ Next => TypeOK'
<1>1. TypesOfTurns' /\ TypesOfDrains' /\ TypesOfAnswers' => TypeOK'
  BY DEF TypeOK, TypesOfTurns, TypesOfDrains, TypesOfAnswers
<1>2. QED  BY <1>1, StepTypesOfTurns, StepTypesOfDrains, StepTypesOfAnswers

-----------------------------------------------------------------------------
(* Every step keeps the order                                              *)

\* The one that reads is the first of the queue.
LEMMA OnlyTheFirstReads ==
    ASSUME Ordered, NEW r \in Req, NEW s \in Req, drain[r] = "draining", drain[s] = "draining"
    PROVE  r = s
<1>1. PICK ahead \in [Req -> SUBSET Req], stuck \in SUBSET Req : Lined(ahead, stuck)
  BY DEF Ordered
<1>2. /\ r \in Live /\ r \notin stuck /\ First(ahead, r)
      /\ s \in Live /\ s \notin stuck /\ First(ahead, s)
  BY <1>1 DEF Live, Lined, Stuck, Queued
<1>3. QED  BY <1>1, <1>2 DEF Lined, Linear, First

\* Every step keeps what is known of a drain.
LEMMA StepKnown == TypeOK /\ Calm /\ Known /\ Ordered /\ Next => Known'
<1> SUFFICES ASSUME TypeOK, Calm, Known, Ordered, Next PROVE Known'
  OBVIOUS
<1>0. /\ TypesOfDrains /\ turn \in [Req -> {None, "running", "cancelling", "over"}]
      /\ circumstances \cap {"overlap", "job"} = {}
  BY DEF TypeOK, TypesOfDrains, Calm
<1>1. /\ \A r \in Req : phase[r] \in {"new", "rejected"} <=> drain[r] = None
      /\ \A r \in Req : phase[r] \in {"new", "accepted", "rejected"}
      /\ Plain => \A r \in Req : turn[r] # None => drain[r] # None
      /\ "stale" \notin circumstances => \A r \in Req : drain[r] \notin {"cancelled", "killed"}
      /\ "stale" \notin circumstances => \A r \in Req : drain[r] = "draining" => emitter = r
  BY DEF Known
<1>2. circumstances' = circumstances
  BY DEF Next, Abort, TakeAborts, TakeAbort, TurnStep, Begin, Progress, Succeed, FailTurn,
     EndAborted,
      EndJob, End, SendStep, Send, Reject, Check, SendChecked, SendOverStale, StartJob, Register,
      DrainStep, StartDrain, PredecessorOver, ReadOn, ReadFinal, ReadLast, HearNothing,
      EndCancelled,
      EndKilled, Leave, userVars
<1>3. Plain' = Plain
  BY <1>2 DEF Plain
<1>4. ASSUME UNCHANGED <<phase, drain, emitter>>,
             \A r \in Req : turn'[r] # None => turn[r] # None \/ (Plain => drain[r] # None)
      PROVE  Known'
  BY <1>1, <1>2, <1>3, <1>4 DEF Known
<1>5. CASE Abort
  BY <1>4, <1>5 DEF Abort, turnVars, drainVars
<1>6. CASE TakeAborts
  <2>1. \A r \in Req : turn'[r] # None => turn[r] # None \/ r \in live
    BY <1>6 DEF TakeAborts, TakeAbort
  <2>2. Plain => \A r \in live : drain[r] # None
    <3> SUFFICES ASSUME Plain, NEW r \in live PROVE drain[r] # None
      OBVIOUS
    <3>1. turn[r] # None /\ r \in Req
      BY <1>0 DEF Ordered, InTurn, TurnsInOrder, Running, None, TypeOK
    <3>2. QED  BY <1>1, <3>1
  <2>3. UNCHANGED <<phase, drain, emitter>>
    BY <1>6 DEF TakeAborts, TakeAbort, bridgeVars, drainVars
  <2>4. QED  BY <1>4, <2>1, <2>2, <2>3
<1>7. ASSUME NEW r \in Req, TurnStep(r) PROVE Known'
  <2>1. UNCHANGED <<phase, drain, emitter>>
    BY <1>7 DEF TurnStep, Begin, Progress, Succeed, FailTurn, EndAborted, EndJob, End,
        bridgeVars, drainVars
  <2>2. \A s \in Req \ {r} : turn'[s] = turn[s]
    BY <1>0, <1>7 DEF TurnStep, Begin, Progress, Succeed, FailTurn, EndAborted, EndJob, End
  <2>3. CASE Begin(r)
    <3>1. Plain => drain[r] # None
      <4> SUFFICES ASSUME Plain PROVE drain[r] # None
        OBVIOUS
      <4>1. line # <<>> /\ Head(line) = r
        BY <2>3 DEF Begin
      <4>2. 1 \in 1..Len(line) /\ line[1] = r
        BY <4>1, TailFacts DEF TypeOK
      <4>3. r \in Live
        BY <4>2 DEF Ordered, InTurn, TurnsInOrder
      <4>4. QED  BY <4>3 DEF Live, None
    <3>2. QED  BY <1>4, <2>1, <2>2, <3>1
  <2>4. CASE ~Begin(r)
    <3>1. turn[r] # None
      <4>1. Running(r) \/ turn[r] = "cancelling"
        BY <1>7, <2>4 DEF TurnStep, Progress, Succeed, FailTurn, EndAborted, EndJob
      <4>2. QED  BY <4>1 DEF Running, None
    <3>2. QED  BY <1>4, <2>1, <2>2, <3>1
  <2>5. QED  BY <2>3, <2>4
<1>8. ASSUME NEW r \in Req, SendStep(r) PROVE Known'
  <2>1. ~Check(r) /\ ~SendChecked(r) /\ ~StartJob(r)
    BY <1>0, <1>1 DEF Check, SendChecked, StartJob
  <2>2. CASE Reject(r)
    <3>1. /\ phase'[r] = "rejected" /\ phase[r] = "new" /\ \A s \in Req \ {r} : phase'[s] = phase[s]
          /\ UNCHANGED <<drain, emitter, turn>>
      BY <1>0, <2>2 DEF Reject, drainVars, turnVars, TypesOfDrains
    <3>2. QED  BY <1>1, <1>2, <1>3, <3>1 DEF Known
  <2>3. CASE Send(r) \/ SendOverStale(r)
    <3>1. /\ phase[r] = "new" /\ phase' = [phase EXCEPT ![r] = "accepted"]
          /\ UNCHANGED <<emitter, turn>>
      BY <2>3 DEF Send, SendOverStale, Register, turnVars
    <3>2. phase'[r] = "accepted" /\ \A s \in Req \ {r} : phase'[s] = phase[s]
      BY <1>0, <3>1 DEF TypesOfDrains
    <3>3. drain[r] = None
      BY <1>1, <3>1
    <3>4. drain'[r] = "ready"
      BY <1>0, <2>3 DEF Send, SendOverStale, Register, Forced, TypesOfDrains
    <3>5. \A s \in Req \ {r} :
            \/ drain'[s] = drain[s]
            \/ /\ drain[s] # None /\ drain'[s] \in {"cancelled", "killed"} /\ "stale" \in circumstances
      <4>1. CASE Send(r)
        BY <1>0, <4>1 DEF Send, Register, TypesOfDrains
      <4>2. CASE SendOverStale(r)
        <5>1. "stale" \in circumstances /\ Busy(lock) /\ (drain[lock] = "draining" \/ Busy(awaited[lock]))
          BY <4>2 DEF SendOverStale, Stale
        <5>2. lock \in Req /\ drain[lock] # None
          <6>1. PICK ahead \in [Req -> SUBSET Req], stuck \in SUBSET Req : Lined(ahead, stuck)
            BY DEF Ordered
          <6>2. lock \in Live
            BY <5>1, <6>1 DEF Lined, Slots
          <6>3. QED  BY <6>2 DEF Live, None
        <5>3. \A s \in Req \ {r} : s # lock => drain'[s] = drain[s]
          BY <1>0, <4>2 DEF SendOverStale, Register, Forced, TypesOfDrains
        <5>4. lock # r => drain'[lock] \in {"cancelled", "killed"}
          BY <1>0, <4>2, <5>2 DEF SendOverStale, Register, Forced, TypesOfDrains
        <5>5. QED  BY <5>1, <5>2, <5>3, <5>4
      <4>3. QED  BY <2>3, <4>1, <4>2
    <3>6. QED  BY <1>1, <1>2, <1>3, <3>1, <3>2, <3>3, <3>4, <3>5 DEF Known, None
  <2>4. QED  BY <1>8, <2>1, <2>2, <2>3 DEF SendStep
<1>9. ASSUME NEW r \in Req, DrainStep(r) PROVE Known'
  <2>1. UNCHANGED <<phase, turn>> /\ \A s \in Req \ {r} : drain'[s] = drain[s]
    BY <1>0, <1>9
       DEF DrainStep, StartDrain, PredecessorOver, ReadOn, ReadFinal, ReadLast, HearNothing,
        EndCancelled, EndKilled, Leave, turnVars, bridgeVars, drainVars, TypesOfDrains
  <2>2. CASE StartDrain(r) \/ PredecessorOver(r)
    <3>1. Wired(r) = r /\ drain[r] \in {"ready", "waiting"}
      BY <1>1, <2>2 DEF Wired, StartDrain, PredecessorOver
    <3>2. \/ drain'[r] = "draining" /\ emitter' = r
          \/ drain'[r] = "waiting" /\ emitter' = emitter
      BY <1>0, <2>2, <3>1 DEF StartDrain, PredecessorOver, TypesOfDrains
    <3>3. ASSUME drain'[r] = "draining" PROVE \A s \in Req \ {r} : drain[s] # "draining"
      <4>1. ~Busy(Target(r))
        BY <1>0, <2>2, <3>3 DEF StartDrain, PredecessorOver, Target, TypesOfDrains
      <4>2. PICK ahead \in [Req -> SUBSET Req], stuck \in SUBSET Req : Lined(ahead, stuck)
        BY DEF Ordered
      <4>3. \A s \in Live : Busy(s)
        BY RequestsAreNot DEF Live, Busy
      <4>4. r \in Live /\ r \notin stuck
        BY <3>1, <4>1, <4>2, <4>3 DEF Live, Lined, Stuck
      <4>5. First(ahead, r)
        BY <4>1, <4>2, <4>3, <4>4 DEF Lined, Queued
      <4>6. ASSUME NEW s \in Req \ {r}, drain[s] = "draining" PROVE FALSE
        <5>1. s \in Live /\ s \notin stuck /\ First(ahead, s)
          BY <4>2, <4>6 DEF Live, Lined, Stuck, Queued
        <5>2. QED  BY <4>2, <4>4, <4>5, <4>6, <5>1 DEF Lined, Linear, First
      <4>7. QED  BY <4>6
    <3>4. QED  BY <1>1, <1>2, <1>3, <2>1, <3>1, <3>2, <3>3 DEF Known, None
  <2>3. CASE ReadOn(r) \/ ReadFinal(r)
    <3>1. UNCHANGED <<drain, emitter>>
      BY <2>3 DEF ReadOn, ReadFinal, drainVars
    <3>2. QED  BY <1>1, <1>2, <1>3, <2>1, <3>1 DEF Known
  <2>4. CASE ReadLast(r) \/ HearNothing(r) \/ EndCancelled(r) \/ EndKilled(r)
    <3>1. drain'[r] = "done" /\ drain[r] \in {"draining", "cancelled", "killed"}
      BY <1>0, <2>4 DEF ReadLast, Take, HearNothing, EndCancelled, EndKilled, Leave, TypesOfDrains
    <3>2. "stale" \notin circumstances => \A s \in Req \ {r} : drain[s] # "draining"
      BY <1>1, <3>1, OnlyTheFirstReads
    <3>3. QED  BY <1>1, <1>2, <1>3, <2>1, <3>1, <3>2 DEF Known, None
  <2>5. QED  BY <1>9, <2>2, <2>3, <2>4 DEF DrainStep
<1>10. QED  BY <1>5, <1>6, <1>7, <1>8, <1>9 DEF Next

\* The queue that a state has, if it has one, shows that the state is ordered.
LEMMA OrderShown ==
    ASSUME NEW ahead \in [Req -> SUBSET Req], NEW stuck \in SUBSET Req, Lined(ahead, stuck)',
           circumstances' = circumstances, Plain => InTurn(ahead)'
    PROVE  Ordered'
<1>1. Plain' => InTurn(ahead)'
  BY DEF Plain
<1>2. QED  BY <1>1 DEF Ordered

\* The session's own steps change no drain.
LEMMA TurnStepOrdered ==
    ASSUME TypeOK, Calm, Known, NEW ahead \in [Req -> SUBSET Req], NEW stuck \in SUBSET Req,
           Lined(ahead, stuck), Plain => InTurn(ahead), NEW r \in Req, TurnStep(r)
    PROVE  Ordered'
<1>1. UNCHANGED <<phase, lock, released, drain, awaited, emitter, settled, by, circumstances>>
  BY DEF TurnStep, Begin, Progress, Succeed, FailTurn, EndAborted, EndJob, End,
      bridgeVars, drainVars, userVars
<1>2. Lined(ahead, stuck)' /\ Live' = Live
  BY <1>1, KeepLined DEF Live
<1>3. ASSUME Plain PROVE InTurn(ahead)'
  <2>1. Linear(ahead) /\ TurnsInOrder(ahead) /\ EventsInOrder(ahead) /\ BySelf
    BY <1>3 DEF InTurn, Lined
  <2>2. /\ "warning" \notin circumstances /\ "error" \notin circumstances
        /\ "mute" \notin circumstances
    BY <1>3 DEF Plain
  <2>3. phase[r] # "job"
    BY DEF Known
  <2>4. BySelf'
    BY <1>1, <2>1 DEF BySelf
  <2>5. CASE Begin(r)
    BY <1>2, <2>1, <2>2, <2>4, <2>5, BeginInTurn DEF InTurn
  <2>6. CASE Progress(r)
    BY <1>2, <2>1, <2>4, <2>6, ProgressInTurn DEF InTurn
  <2>7. CASE Succeed(r)
    <3>1. Running(r) /\ End(r, <<Event(r, "final"), Event(r, "complete")>>)
      BY <2>7 DEF Succeed
    <3>2. QED  BY <1>2, <2>1, <2>4, <3>1, EndInTurn DEF InTurn
  <2>8. CASE EndAborted(r)
    <3>1. Running(r) /\ End(r, <<Event(r, "aborted")>>)
      BY <2>2, <2>8 DEF EndAborted, Running
    <3>2. QED  BY <1>2, <2>1, <2>4, <3>1, EndInTurn DEF InTurn
  <2>9. QED  BY <2>2, <2>3, <2>5, <2>6, <2>7, <2>8 DEF TurnStep, FailTurn, EndJob
<1>4. QED  BY <1>1, <1>2, <1>3, OrderShown

\* Neither does the session when it takes an AbortTurn; chat.abort releases
\* the lock.
LEMMA AbortOrdered ==
    ASSUME TypeOK, NEW ahead \in [Req -> SUBSET Req], NEW stuck \in SUBSET Req,
           Lined(ahead, stuck), Plain => InTurn(ahead), Abort \/ TakeAborts
    PROVE  Ordered'
<1>1. UNCHANGED <<drain, awaited, settled, by, circumstances>>
  BY DEF Abort, TakeAborts, TakeAbort, drainVars, userVars
<1>2. Live' = Live
  BY <1>1 DEF Live
<1>3. ASSUME Plain PROVE InTurn(ahead)'
  <2>1. BySelf'
    BY <1>1, <1>3 DEF InTurn, BySelf
  <2>2. QED  BY <1>2, <1>3, <2>1, AbortInTurn DEF InTurn
<1>4. \E also \in SUBSET Req : Lined(ahead, also)'
  <2>1. CASE Abort
    BY <2>1, AbortLined
  <2>2. CASE TakeAborts
    <3>1. UNCHANGED <<lock, released>>
      BY <2>2 DEF TakeAborts, TakeAbort, bridgeVars
    <3>2. QED  BY <1>1, <3>1, KeepLined
  <2>3. QED  BY <2>1, <2>2
<1>5. QED  BY <1>1, <1>3, <1>4, OrderShown

\* A new drain goes to the end of the queue.
LEMMA SendStepOrdered ==
    ASSUME TypeOK, Calm, Known, NEW ahead \in [Req -> SUBSET Req], NEW stuck \in SUBSET Req,
           Lined(ahead, stuck), Plain => InTurn(ahead), NEW r \in Req, SendStep(r)
    PROVE  Ordered'
<1>0. drain \in [Req -> {None, "ready", "waiting", "draining", "cancelled", "killed", "done"}]
  BY DEF TypeOK
<1>1. ~Check(r) /\ ~SendChecked(r) /\ ~StartJob(r)
  BY DEF Check, SendChecked, StartJob, Calm, Known
<1>2. CASE Reject(r)
  <2>1. /\ UNCHANGED <<line, live, turn, events, lock, released, drain, awaited, settled, by>>
        /\ UNCHANGED circumstances
    BY <1>2 DEF Reject, serviceVars, turnVars, drainVars, userVars
  <2>2. Lined(ahead, stuck)' /\ Live' = Live
    BY <2>1, KeepLined DEF Live
  <2>3. ASSUME Plain PROVE InTurn(ahead)'
    <3>1. TurnsInOrder(ahead)' /\ \A u \in Req : SameStage(u)
      BY <2>1, <2>2, <2>3, TurnsKept DEF InTurn
    <3>2. EventsInOrder(ahead)'
      BY <2>1, <2>2, <2>3, <3>1, NoticeAdded DEF InTurn
    <3>3. QED  BY <2>1, <2>3, <3>1, <3>2 DEF InTurn, BySelf
  <2>4. QED  BY <2>1, <2>2, <2>3, OrderShown
<1>3. CASE Send(r) \/ SendOverStale(r)
  <2>1. /\ line' = Append(line, r) /\ UNCHANGED <<live, turn, events>>
        /\ UNCHANGED <<awaited, released, circumstances, settled, by>> /\ lock' = r
        /\ phase[r] = "new"
    BY <1>3 DEF Send, SendOverStale, Register, Session!Accept, turnVars, userVars
  <2>2. drain[r] = None /\ r \notin Live
    BY <2>1 DEF Known, Live, None
  <2>3. drain'[r] = "ready"
    BY <1>0, <1>3 DEF Send, SendOverStale, Register, Forced
  <2>4. Busy(lock) => lock \in Live /\ lock # r /\ lock \in Req
    BY <2>2 DEF Lined, Slots, Live
  <2>5. \A s \in Req \ {r} : s # lock => drain'[s] = drain[s]
    BY <1>0, <1>3 DEF Send, SendOverStale, Register, Forced
  <2>6. CASE Busy(lock)
    <3>1. "stale" \in circumstances /\ drain'[lock] \in {"cancelled", "killed"}
      BY <1>0, <1>3, <2>4, <2>6 DEF Send, SendOverStale, Stale, Register, Forced
    <3>2. Unlocked = Live \ {lock}
      BY <2>6 DEF Unlocked
    <3>3. Live' = Unlocked \cup {r} /\ \A s \in Unlocked : drain'[s] = drain[s]
      BY <2>2, <2>3, <2>4, <2>5, <2>6, <3>1, <3>2 DEF Live
    <3>4. \A x \in Req \cup {NoReq} : (x # NoReq /\ drain'[x] # "done") <=> Busy(x)
      BY <2>2, <2>3, <2>4, <2>5, <2>6, <3>1 DEF Busy, None
    <3>5. ~Plain
      BY <3>1 DEF Plain
    <3>6. PICK after \in [Req -> SUBSET Req] :
            \A v \in Req : after[v] = IF v = r THEN Live ELSE ahead[v] \ {r}
      <4> DEFINE next == [v \in Req |-> IF v = r THEN Live ELSE ahead[v] \ {r}]
      <4>1. next \in [Req -> SUBSET Req]
        BY DEF Live
      <4>2. QED  BY <4>1
    <3>7. \E also \in SUBSET Req : Lined(after, also)'
      BY <2>1, <2>2, <2>3, <3>3, <3>4, <3>6, RegisterLined
    <3>8. QED  BY <2>1, <3>5, <3>7, OrderShown
  <2>7. CASE ~Busy(lock)
    <3>1. drain' = [drain EXCEPT ![r] = "ready"]
      BY <1>3, <2>7 DEF Send, SendOverStale, Stale, Register
    <3>2. Unlocked = Live
      BY <2>7 DEF Unlocked
    <3>3. Live' = Live \cup {r} /\ \A s \in Unlocked : drain'[s] = drain[s]
      BY <1>0, <2>2, <3>1, <3>2 DEF Live
    <3>4. \A x \in Req \cup {NoReq} : (x # NoReq /\ drain'[x] # "done") <=> Busy(x)
      BY <1>0, <2>2, <3>1, RequestsAreNot DEF Busy, None
    <3>5. PICK after \in [Req -> SUBSET Req] :
            \A v \in Req : after[v] = IF v = r THEN Live ELSE ahead[v] \ {r}
      <4> DEFINE next == [v \in Req |-> IF v = r THEN Live ELSE ahead[v] \ {r}]
      <4>1. next \in [Req -> SUBSET Req]
        BY DEF Live
      <4>2. QED  BY <4>1
    <3>6. \E also \in SUBSET Req : Lined(after, also)'
      BY <2>1, <2>2, <2>3, <3>2, <3>3, <3>4, <3>5, RegisterLined
    <3>7. ASSUME Plain PROVE InTurn(after)'
      <4>1. turn[r] = None
        BY <2>2, <3>7 DEF Known
      <4>2. TurnsInOrder(after)' /\ EventsInOrder(after)'
        BY <2>1, <2>2, <3>3, <3>5, <3>7, <4>1, SendInTurn DEF InTurn
      <4>3. BySelf'
        BY <2>1, <3>7 DEF InTurn, BySelf
      <4>4. QED  BY <4>2, <4>3 DEF InTurn
    <3>8. QED  BY <2>1, <3>6, <3>7, OrderShown
  <2>8. QED  BY <2>6, <2>7
<1>4. QED  BY <1>1, <1>2, <1>3 DEF SendStep

\* A drain that begins to read, or to wait, settles nothing.
LEMMA StartOrdered ==
    ASSUME TypeOK, NEW ahead \in [Req -> SUBSET Req], NEW stuck \in SUBSET Req,
           Lined(ahead, stuck), Plain => InTurn(ahead),
           NEW r \in Req, StartDrain(r) \/ PredecessorOver(r)
    PROVE  Ordered'
<1>0. /\ drain \in [Req -> {None, "ready", "waiting", "draining", "cancelled", "killed", "done"}]
      /\ awaited \in [Req -> Req \cup {NoReq}]
  BY DEF TypeOK
<1>1. UNCHANGED <<line, live, turn, events, lock, released, settled, by, circumstances>>
  BY DEF StartDrain, PredecessorOver, serviceVars, turnVars, bridgeVars, userVars
<1>2. /\ drain[r] \in {"ready", "waiting"}
      /\ drain' = [drain EXCEPT ![r] = "draining"] \/ drain' = [drain EXCEPT ![r] = "waiting"]
  BY DEF StartDrain, PredecessorOver
<1>3. Live' = Live
  BY <1>0, <1>2 DEF Live
<1>4. Lined(ahead, stuck)'
  <2>1. CASE StartDrain(r) /\ Busy(released)
    BY <1>1, <2>1, WaitingLined DEF StartDrain
  <2>2. CASE ~(StartDrain(r) /\ Busy(released))
    <3>1. /\ drain' = [drain EXCEPT ![r] = "draining"] /\ ~Busy(Target(r))
          /\ \A s \in Req \ {r} : awaited'[s] = awaited[s]
      BY <1>0, <2>2 DEF StartDrain, PredecessorOver, Target
    <3>2. QED  BY <1>1, <1>2, <3>1, ReadingLined
  <2>3. QED  BY <2>1, <2>2
<1>5. ASSUME Plain PROVE InTurn(ahead)'
  <2>1. TurnsInOrder(ahead)' /\ \A u \in Req : SameStage(u)
    BY <1>1, <1>3, <1>5, TurnsKept DEF InTurn
  <2>2. EventsInOrder(ahead)'
    BY <1>1, <1>3, <1>5, <2>1, NoticeAdded DEF InTurn
  <2>3. QED  BY <1>1, <1>5, <2>1, <2>2 DEF InTurn, BySelf
<1>6. QED  BY <1>1, <1>4, <1>5, OrderShown

\* What the reader settles, it settles by its own turn's event.
LEMMA ReadOrdered ==
    ASSUME TypeOK, NEW ahead \in [Req -> SUBSET Req], NEW stuck \in SUBSET Req,
           Lined(ahead, stuck), Plain => InTurn(ahead),
           NEW r \in Req, ReadOn(r) \/ ReadFinal(r) \/ ReadLast(r)
    PROVE  Ordered'
<1>0. /\ drain \in [Req -> {None, "ready", "waiting", "draining", "cancelled", "killed", "done"}]
      /\ settled \in [Req -> Terminals \cup {None, "muted"}] /\ by \in [Req -> Req \cup {NoReq}]
  BY DEF TypeOK
<1>1. /\ drain[r] = "draining" /\ events # <<>> /\ events' = Tail(events)
      /\ UNCHANGED <<line, live, turn, awaited, circumstances>>
  BY DEF ReadOn, ReadFinal, ReadLast, Take, Leave, serviceVars, drainVars, userVars
<1>2. CASE ReadOn(r) \/ ReadFinal(r)
  <2>1. UNCHANGED <<lock, released, drain>> /\ Head(events).kind \in {"progress", "notice", "final"}
    BY <1>2 DEF ReadOn, ReadFinal, bridgeVars, drainVars
  <2>2. Lined(ahead, stuck)' /\ Live' = Live
    BY <1>1, <2>1, KeepLined DEF Live
  <2>3. ASSUME Plain PROVE InTurn(ahead)'
    <3>1. TurnsInOrder(ahead) /\ EventsInOrder(ahead) /\ BySelf /\ Linear(ahead)
      BY <2>3 DEF InTurn, Lined
    <3>2. TurnsInOrder(ahead)'
      BY <1>1, <2>2, <3>1, TurnsKept
    <3>3. Head(events).kind \notin Closing
      BY <2>1 DEF Closing
    <3>4. EventsInOrder(ahead)'
      BY <1>1, <2>2, <3>1, <3>3, EventRead
    <3>5. BySelf'
      <4>1. CASE ReadOn(r)
        BY <3>1, <4>1 DEF ReadOn, drainVars, BySelf
      <4>2. CASE ReadFinal(r)
        <5>1. Head(events).turn = r
          BY <1>1, <3>1, <4>2, HeadIsOwn DEF ReadFinal
        <5>2. Settle(r, "final", r)
          BY <4>2, <5>1 DEF ReadFinal
        <5>3. QED  BY <1>0, <3>1, <5>2 DEF Settle, BySelf
      <4>3. QED  BY <1>2, <4>1, <4>2
    <3>6. QED  BY <3>2, <3>4, <3>5 DEF InTurn
  <2>4. QED  BY <1>1, <2>2, <2>3, OrderShown
<1>3. CASE ReadLast(r)
  <2>1. Leave(r)
    BY <1>3 DEF ReadLast
  <2>2. Lined(ahead, stuck)'
    BY <1>1, <2>1, ReaderLeavesLined
  <2>3. Live' = Live \ {r} /\ r \in Live
    BY <1>0, <1>1, <2>1 DEF Live, Leave
  <2>4. ASSUME Plain PROVE InTurn(ahead)'
    <3>1. TurnsInOrder(ahead) /\ EventsInOrder(ahead) /\ BySelf /\ Linear(ahead)
      BY <2>4 DEF InTurn, Lined
    <3>2. Head(events).kind # "notice" /\ Head(events).kind # "progress" /\ Head(events).kind # "final"
      BY <1>3 DEF ReadLast
    <3>3. Head(events).turn = r
      BY <1>1, <3>1, <3>2, HeadIsOwn
    <3>4. Head(events).kind \in Closing /\ turn[r] = "over"
      <4>1. 1 \in 1..Len(events) /\ Head(events) = events[1]
        BY <1>1, TailFacts DEF TypeOK
      <4>2. QED  BY <3>1, <3>2, <3>3, <4>1 DEF EventsInOrder
    <3>5. EventsInOrder(ahead)'
      BY <1>1, <2>3, <3>1, <3>3, <3>4, EventRead
    <3>6. TurnsInOrder(ahead)'
      <4>1. live' = {q \in Req : Running(q)'}
        BY <1>1, <3>1 DEF TurnsInOrder, Running
      <4>2. \A q \in Req : turn[q] # None => q \in Live' \/ turn[q] = "over"
        BY <2>3, <3>1, <3>4 DEF TurnsInOrder
      <4>3. \A u, v \in Live' : u \in ahead[v] /\ turn[v] # None => turn[u] = "over"
        BY <2>3, <3>1 DEF TurnsInOrder
      <4>4. \A q \in Req : q \in Live' /\ turn[q] = None <=> \E k \in 1..Len(line) : line[k] = q
        <5>1. turn[r] # None
          BY <3>4 DEF None
        <5>2. \A q \in Req : q \in Live /\ turn[q] = None <=> q \in Live' /\ turn[q] = None
          BY <2>3, <5>1
        <5>3. \A q \in Req : q \in Live /\ turn[q] = None <=> \E k \in 1..Len(line) : line[k] = q
          BY <3>1 DEF TurnsInOrder
        <5>4. QED  BY <5>2, <5>3
      <4>5. \A k, l \in 1..Len(line) : k < l /\ line[k] \in Req /\ line[l] \in Req =>
                line[k] \in ahead[line[l]]
        BY <3>1 DEF TurnsInOrder
      <4>6. QED  BY <1>1, <4>1, <4>2, <4>3, <4>4, <4>5 DEF TurnsInOrder
    <3>7. BySelf'
      <4>1. \E terminal \in Terminals : Settle(r, terminal, r)
        BY <1>3, <3>3 DEF ReadLast, Terminals
      <4>2. QED  BY <1>0, <3>1, <4>1 DEF Settle, BySelf
    <3>8. QED  BY <3>5, <3>6, <3>7 DEF InTurn
  <2>5. QED  BY <1>1, <2>2, <2>4, OrderShown
<1>4. QED  BY <1>2, <1>3

\* A drain that gives up, or was cancelled, is not found when turns only
\* succeed or are aborted.
LEMMA GivesUpOrdered ==
    ASSUME TypeOK, Known, NEW ahead \in [Req -> SUBSET Req], NEW stuck \in SUBSET Req,
           Lined(ahead, stuck), NEW r \in Req, HearNothing(r) \/ EndCancelled(r) \/ EndKilled(r)
    PROVE  Ordered'
<1>1. Leave(r) /\ circumstances' = circumstances
  BY DEF HearNothing, EndCancelled, EndKilled, Leave, userVars
<1>2. Lined(ahead, stuck)'
  <2>1. CASE HearNothing(r)
    BY <1>1, <2>1, ReaderLeavesLined DEF HearNothing
  <2>2. CASE EndCancelled(r) \/ EndKilled(r)
    <3>1. drain[r] \in {"cancelled", "killed"}
      BY <2>2 DEF EndCancelled, EndKilled
    <3>2. QED  BY <1>1, <3>1, ForcedLeavesLined
  <2>3. QED  BY <2>1, <2>2
<1>3. ~Plain
  <2>1. "silence" \in circumstances \/ "stale" \in circumstances
    BY DEF HearNothing, EndCancelled, EndKilled, Known
  <2>2. QED  BY <2>1 DEF Plain
<1>4. QED  BY <1>1, <1>2, <1>3, OrderShown

\* Every step keeps a queue.
LEMMA StepOrdered == TypeOK /\ Calm /\ Known /\ Ordered /\ Next => Ordered'
<1> SUFFICES ASSUME TypeOK, Calm, Known, Ordered, Next PROVE Ordered'
  OBVIOUS
<1>1. PICK ahead \in [Req -> SUBSET Req], stuck \in SUBSET Req :
        Lined(ahead, stuck) /\ (Plain => InTurn(ahead))
  BY DEF Ordered
<1>2. CASE Abort \/ TakeAborts
  BY <1>1, <1>2, AbortOrdered
<1>3. ASSUME NEW r \in Req, TurnStep(r) PROVE Ordered'
  BY <1>1, <1>3, TurnStepOrdered
<1>4. ASSUME NEW r \in Req, SendStep(r) PROVE Ordered'
  BY <1>1, <1>4, SendStepOrdered
<1>5. ASSUME NEW r \in Req, DrainStep(r) PROVE Ordered'
  BY <1>1, <1>5, StartOrdered, ReadOrdered, GivesUpOrdered DEF DrainStep
<1>6. QED  BY <1>2, <1>3, <1>4, <1>5 DEF Next

-----------------------------------------------------------------------------
(* The theorems                                                            *)

\* The circumstances of a behaviour do not change.
LEMMA SameCircumstances == Next => circumstances' = circumstances
BY DEF Next, Abort, TakeAborts, TakeAbort, TurnStep, Begin, Progress, Succeed, FailTurn,
   EndAborted,
    EndJob, End, SendStep, Send, Reject, Check, SendChecked, SendOverStale, StartJob, Register,
    DrainStep, StartDrain, PredecessorOver, ReadOn, ReadFinal, ReadLast, HearNothing,
    EndCancelled,
    EndKilled, Leave, drainVars, userVars

\* At the start nobody is in the queue.
LEMMA InitOrdered == Init => IInv
<1> SUFFICES ASSUME Init PROVE IInv
  OBVIOUS
<1>1. /\ line = <<>> /\ served = {} /\ live = {} /\ events = <<>>
      /\ turn = [r \in Req |-> None] /\ phase = [r \in Req |-> "new"]
      /\ drain = [r \in Req |-> None] /\ awaited = [r \in Req |-> NoReq]
      /\ lock = NoReq /\ released = NoReq /\ emitter = NoReq
      /\ aborts = 0 /\ circumstances \in Courses
      /\ settled = [r \in Req |-> None] /\ by = [r \in Req |-> NoReq]
  BY DEF Init, Session!Init
<1>2. TypeOK
  BY <1>1, Bounds DEF TypeOK, Terminals
<1>3. Known
  BY <1>1 DEF Known, None
<1>4. Live = {} /\ Unlocked = {} /\ ~Busy(lock) /\ ~Busy(released) /\ Len(line) = 0 /\ Len(events) = 0
  BY <1>1 DEF Live, Unlocked, Busy, None
<1>5. PICK ahead \in [Req -> SUBSET Req] : ahead = [r \in Req |-> {}]
  OBVIOUS
<1>6. Lined(ahead, {})
  BY <1>4 DEF Lined, Linear, Queued, Stuck, Slots, Awaited
<1>7. TurnsInOrder(ahead)
  BY <1>1, <1>4 DEF TurnsInOrder, Running, None
<1>8. EventsInOrder(ahead)
  BY <1>4 DEF EventsInOrder
<1>9. BySelf
  BY <1>1 DEF BySelf
<1>10. Ordered
  BY <1>5, <1>6, <1>7, <1>8, <1>9 DEF Ordered, InTurn
<1>11. QED  BY <1>2, <1>3, <1>10 DEF IInv

\* The types, and the queue of the drains with what its members do, hold in
\* every state.
THEOREM Invariance == Spec => []IInv
<1>1. Init => IInv
  BY InitOrdered
<1>2. IInv /\ [Next]_vars => IInv'
  <2> SUFFICES ASSUME IInv, [Next]_vars PROVE IInv'
    OBVIOUS
  <2>1. CASE Next
    <3>1. TypeOK'
      BY <2>1, StepTypes DEF IInv
    <3>2. Calm' => Calm
      BY <2>1, SameCircumstances DEF Calm
    <3>3. Calm => Known' /\ Ordered'
      BY <2>1, StepKnown, StepOrdered DEF IInv
    <3>4. QED  BY <3>1, <3>2, <3>3 DEF IInv
  <2>2. CASE UNCHANGED vars
    <3>1. /\ UNCHANGED <<line, served, live, turn, events, phase, drain, awaited, lock, released>>
          /\ UNCHANGED <<emitter, aborts, circumstances, settled, by>>
      BY <2>2 DEF vars, serviceVars, turnVars, bridgeVars, drainVars, userVars
    <3>2. TypeOK' /\ Calm' = Calm
      BY <3>1 DEF IInv, TypeOK, Calm
    <3>3. ASSUME Calm PROVE Known' /\ Ordered'
      <4>1. Known'
        BY <3>1, <3>3 DEF IInv, Known, Plain
      <4>2. PICK ahead \in [Req -> SUBSET Req], stuck \in SUBSET Req :
                Lined(ahead, stuck) /\ (Plain => InTurn(ahead))
        BY <3>3 DEF IInv, Ordered
      <4>3. Lined(ahead, stuck)' /\ Live' = Live
        BY <3>1, <4>2, KeepLined DEF Live
      <4>4. ASSUME Plain PROVE InTurn(ahead)'
        <5>1. TurnsInOrder(ahead)' /\ \A u \in Req : SameStage(u)
          BY <3>1, <4>2, <4>3, <4>4, TurnsKept DEF InTurn
        <5>2. EventsInOrder(ahead)'
          BY <3>1, <4>2, <4>3, <4>4, <5>1, NoticeAdded DEF InTurn, IInv
        <5>3. QED  BY <3>1, <4>2, <4>4, <5>1, <5>2 DEF InTurn, BySelf
      <4>5. Ordered'
        BY <3>1, <4>3, <4>4, OrderShown
      <4>6. QED  BY <4>1, <4>5
    <3>4. QED  BY <3>2, <3>3 DEF IInv
  <2>3. QED  BY <2>1, <2>2
<1>3. QED  BY <1>1, <1>2, PTL DEF Spec

\* While no drain can be stuck, the last of the queue is the lock or the
\* released drain, and any other has one that waits for it.
LEMMA AllReachable ==
    ASSUME TypeOK, Ordered, "rush" \notin circumstances,
           NEW r \in Req, drain[r] \in {"ready", "waiting", "draining"}
    PROVE  Reachable(r)
<1>1. PICK ahead \in [Req -> SUBSET Req], stuck \in SUBSET Req : Lined(ahead, stuck)
  BY DEF Ordered
<1>2. stuck = {} /\ r \in Live
  BY <1>1 DEF Lined, Stuck, Live
<1>3. CASE r \in {lock, released}
  BY <1>3 DEF Reachable
<1>4. CASE r \notin {lock, released}
  <2>1. \E s \in Live : r \in ahead[s]
    <3>1. r \in Unlocked
      BY <1>2, <1>4 DEF Unlocked
    <3>2. released \in Unlocked /\ r \in ahead[released]
      BY <1>1, <1>2, <1>4, <3>1 DEF Lined, Slots
    <3>3. QED  BY <3>2 DEF Unlocked
  <2>2. PICK t \in Live : drain[t] # "draining" /\ Target(t) = r
    BY <1>1, <1>2, <2>1 DEF Lined, Awaited
  <2>3. awaited[t] = r
    BY <1>4, <2>2 DEF Target
  <2>4. QED  BY <2>2, <2>3 DEF Reachable, Live
<1>5. QED  BY <1>3, <1>4

\* The queue of events has one reader, that reader has the emitter, and no
\* drain is left where an abort cannot find it.
THEOREM ChatConsistent == Spec => []Consistent
<1>1. IInv => Consistent
  <2> SUFFICES ASSUME IInv PROVE Consistent
    OBVIOUS
  <2>1. OneReader
    BY OnlyTheFirstReads DEF IInv, OneReader, Calm
  <2>2. ReaderIsWired
    BY DEF IInv, ReaderIsWired, Calm, Known
  <2>3. NoForgottenDrain
    <3> SUFFICES ASSUME circumstances \cap {"overlap", "rush", "job"} = {},
                        NEW r \in Req, drain[r] \in {"ready", "waiting", "draining"}
        PROVE  Reachable(r)
      BY DEF NoForgottenDrain
    <3>1. Calm /\ "rush" \notin circumstances
      BY DEF Calm
    <3>2. QED  BY <3>1, AllReachable DEF IInv
  <2>4. QED  BY <2>1, <2>2, <2>3 DEF Consistent, IInv
<1>2. QED  BY <1>1, Invariance, PTL

\* When turns succeed or are aborted, a request is settled by an event of
\* its own turn and by none that an earlier turn left in the queue.
THEOREM SettledByOwnTurnHolds == Spec => []SettledByOwnTurn
<1>1. IInv => SettledByOwnTurn
  <2> SUFFICES ASSUME IInv, circumstances \subseteq {"rush"}, NEW r \in Req, settled[r] # None
      PROVE  by[r] = r
    BY DEF SettledByOwnTurn
  <2>1. Plain /\ Calm
    BY DEF Plain, Calm
  <2>2. QED  BY <2>1 DEF IInv, Ordered, InTurn, BySelf
<1>2. QED  BY <1>1, Invariance, PTL
=============================================================================
