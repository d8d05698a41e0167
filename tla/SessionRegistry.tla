--------------------------- MODULE SessionRegistry ---------------------------
(***************************************************************************)
(* ClientSessionRegistry of miqi/runtime/app_server.py, which keeps the    *)
(* runtimes of the sessions, and the requests and the eviction that share  *)
(* it.  The cache is keyed by session, not by login account, and another   *)
(* process may change the account at any time.                             *)
(*                                                                         *)
(* A request wants a runtime (chat.send: get_session, else create_session) *)
(* or stops one (sessions.delete: get_session, then stop_session).  Only   *)
(* creating and retiring take the lock; stop_session and the first half of *)
(* get_session do not.  Steps end where the code awaits.                   *)
(***************************************************************************)
EXTENDS Naturals, FiniteSets, Functions

CONSTANTS
    Request,        \* requests; a request also names the runtime it builds
    Session,        \* session ids
    Account,        \* account roots
    Unknown,        \* the account root could not be determined
    NoOne,          \* no runtime, no request, no session
    MaxSwitches     \* bound: how often the account in use changes

Root == Account \cup {Unknown}

ASSUME Distinct ==
    NoOne \notin Request \cup Session \cup Root /\ Unknown \notin Account
ASSUME SwitchesBounded == MaxSwitches \in Nat

VARIABLES
    current,    \* _current_account_root()
    switches,   \* history: changes of the account so far
    cached,     \* _sessions: the runtime of each session
    recorded,   \* _session_account
    authorized, \* sessions with an entry in _session_clients
    listed,     \* sessions in the _client_sessions of their client
    activity,   \* _last_activity: no entry, recent, or older than the time-out
    lock,       \* the request that holds _lock
    pc,         \* where each request is
    wants,      \* the session of each request
    closing,    \* requests that stop their session
    root,       \* account_root, sampled by each creating request
    victim,     \* the runtime whose stop() a request awaits
    got,        \* the runtime a request was answered with
    life,       \* each runtime
    home,       \* the account each runtime was built for
    due,        \* sessions an eviction still has to stop
    evicting,   \* the session whose stop() the eviction awaits
    evicted,    \* its runtime
    overtaken   \* history: sessions registered while an older stop_session
                \* was under way, which then removed their records

recordVars == <<recorded, authorized, listed, activity>>
accountVars == <<current, switches>>
sweepVars == <<due, evicting, evicted>>
runtimeVars == <<life, home>>
vars == <<accountVars, cached, recordVars, lock, pc, wants, closing, root, victim,
          got, runtimeVars, sweepVars, overtaken>>

Init ==
    /\ current \in Account /\ switches = 0
    /\ cached = [s \in Session |-> NoOne]
    /\ recorded = [s \in Session |-> NoOne]
    /\ authorized = {} /\ listed = {}
    /\ activity = [s \in Session |-> "none"]
    /\ lock = NoOne
    /\ pc = [p \in Request |-> "new"] /\ wants = [p \in Request |-> NoOne]
    /\ closing = {}
    /\ root = [p \in Request |-> NoOne] /\ victim = [p \in Request |-> NoOne]
    /\ got = [p \in Request |-> NoOne]
    /\ life = [r \in Request |-> "none"] /\ home = [r \in Request |-> NoOne]
    /\ due = {} /\ evicting = NoOne /\ evicted = NoOne
    /\ overtaken = {}

\* The eviction does not await between its snapshot and its first stop().
Yielded == due = {} \/ evicting # NoOne

Goto(p, place) == pc' = [pc EXCEPT ![p] = place]
StopRuntime(r) == life' = [life EXCEPT ![r] = "stopping"]
Stopped(r) == life' = [life EXCEPT ![r] = "down"]

MatchesUnknown(s) ==  \* mutant: an unreadable account matches every record
    recorded[s] = NoOne \/ current = Unknown \/ recorded[s] = current

\* _account_matches: no record is no reason to refuse.
Matches(s) == recorded[s] = NoOne \/ (current # Unknown /\ recorded[s] = current)

-----------------------------------------------------------------------------
(* The records                                                             *)

Authorize(s) ==
    /\ authorized' = authorized \cup {s}
    /\ listed' = listed \cup {s}
    /\ activity' = [activity EXCEPT ![s] = "recent"]

ForgetAllButAccount(s) ==  \* mutant: the account record stays
    /\ authorized' = authorized \ {s}
    /\ listed' = listed \ {s}
    /\ activity' = [activity EXCEPT ![s] = "none"]
    /\ UNCHANGED recorded

ForgetRecords(s) ==
    /\ recorded' = [recorded EXCEPT ![s] = NoOne]
    /\ authorized' = authorized \ {s}
    /\ listed' = listed \ {s}
    /\ activity' = [activity EXCEPT ![s] = "none"]

\* _discard_session after its stop(): the cache entry goes with the records.
Discard(s) ==
    /\ cached' = [cached EXCEPT ![s] = NoOne]
    /\ overtaken' = overtaken \ {s}
    /\ ForgetRecords(s)

StaysCached(s) == UNCHANGED <<cached, overtaken>>  \* mutant: get instead of pop

\* stop_session before its stop(): only the cache entry goes.
Uncache(s) ==
    /\ cached' = [cached EXCEPT ![s] = NoOne]
    /\ overtaken' = overtaken \ {s}

\* stop_session after its stop(), whatever the cache holds by now.
Forget(s) ==
    /\ ForgetRecords(s)
    /\ overtaken' = IF cached[s] # NoOne THEN overtaken \cup {s} ELSE overtaken
    /\ UNCHANGED cached

-----------------------------------------------------------------------------
(* The environment                                                         *)

\* Another process logs in, logs out, or makes the account unreadable.
SwitchAccount ==
    /\ Yielded /\ switches < MaxSwitches
    /\ switches' = switches + 1
    /\ current' \in Root \ {current}
    /\ UNCHANGED <<cached, recordVars, lock, pc, wants, closing, root, victim, got,
                   runtimeVars, sweepVars, overtaken>>

\* idle_timeout_seconds pass without a request for the session.
IdleOut(s) ==
    /\ Yielded /\ activity[s] = "recent"
    /\ activity' = [activity EXCEPT ![s] = "idle"]
    /\ UNCHANGED <<accountVars, cached, recorded, authorized, listed, lock, pc, wants,
                   closing, root, victim, got, runtimeVars, sweepVars, overtaken>>

-----------------------------------------------------------------------------
(* get_session                                                             *)

\* What the caller does without a runtime: it creates one, unless it only
\* wanted to stop it.  The account is sampled before the first await.
Miss(p, close) ==
    IF close THEN Goto(p, "done") /\ UNCHANGED root
    ELSE /\ Goto(p, "createLock")
         /\ root' = [root EXCEPT ![p] = current]

Issue(p, s) == pc[p] = "new" /\ wants' = [wants EXCEPT ![p] = s]

Hit(s) == s \in authorized /\ cached[s] # NoOne /\ Matches(s)

Get(p, s) ==
    /\ Yielded /\ Issue(p, s) /\ Hit(s)
    /\ got' = [got EXCEPT ![p] = cached[s]]
    /\ activity' = [activity EXCEPT ![s] = "recent"]
    /\ Goto(p, "done")
    /\ UNCHANGED <<accountVars, cached, recorded, authorized, listed, lock, closing,
                   root, victim, runtimeVars, sweepVars, overtaken>>

\* Nothing cached; an authorised client still refreshes the activity.
GetNothing(p, s) ==
    /\ Yielded /\ Issue(p, s)
    /\ s \notin authorized \/ cached[s] = NoOne
    /\ activity' = IF s \in authorized THEN [activity EXCEPT ![s] = "recent"] ELSE activity
    /\ \E close \in BOOLEAN :
          /\ closing' = IF close THEN closing \cup {p} ELSE closing
          /\ Miss(p, close)
    /\ UNCHANGED <<accountVars, cached, recorded, authorized, listed, lock, victim, got,
                   runtimeVars, sweepVars, overtaken>>

\* The runtime belongs to another account: retire it, under the lock.
GetForeign(p, s) ==
    /\ Yielded /\ Issue(p, s)
    /\ s \in authorized /\ cached[s] # NoOne /\ ~Matches(s)
    /\ \E close \in BOOLEAN : closing' = IF close THEN closing \cup {p} ELSE closing
    /\ Goto(p, "retireLock")
    /\ UNCHANGED <<accountVars, cached, recordVars, lock, root, victim, got,
                   runtimeVars, sweepVars, overtaken>>

\* Another request dealt with it, or the account is back.
RetireNothing(p) ==
    /\ Yielded /\ pc[p] = "retireLock" /\ lock = NoOne
    /\ cached[wants[p]] = NoOne \/ Matches(wants[p])
    /\ Miss(p, p \in closing)
    /\ UNCHANGED <<accountVars, cached, recordVars, lock, wants, closing, victim, got,
                   runtimeVars, sweepVars, overtaken>>

\* stop() the runtime, awaited under the lock.
Retiring(p, place) ==
    /\ lock' = p
    /\ victim' = [victim EXCEPT ![p] = cached[wants[p]]]
    /\ StopRuntime(cached[wants[p]])
    /\ Goto(p, place)

RetireCached(p) ==
    /\ Yielded /\ pc[p] = "retireLock" /\ lock = NoOne
    /\ cached[wants[p]] # NoOne /\ ~Matches(wants[p])
    /\ Retiring(p, "retiring")
    /\ UNCHANGED <<accountVars, cached, recordVars, wants, closing, root, got, home,
                   sweepVars, overtaken>>

RetiredKeepsLock(p) ==  \* mutant: the lock is not released
    /\ Yielded /\ pc[p] = "retiring"
    /\ Stopped(victim[p])
    /\ Discard(wants[p])
    /\ Miss(p, p \in closing)
    /\ UNCHANGED <<accountVars, lock, wants, closing, victim, got, home, sweepVars>>

Retired(p) ==
    /\ Yielded /\ pc[p] = "retiring"
    /\ Stopped(victim[p])
    /\ Discard(wants[p])
    /\ lock' = NoOne
    /\ Miss(p, p \in closing)
    /\ UNCHANGED <<accountVars, wants, closing, victim, got, home, sweepVars>>

-----------------------------------------------------------------------------
(* create_session                                                          *)

\* Someone else created it meanwhile.
CreateFinds(p) ==
    /\ Yielded /\ pc[p] = "createLock" /\ lock = NoOne
    /\ cached[wants[p]] # NoOne /\ Matches(wants[p])
    /\ Authorize(wants[p])
    /\ got' = [got EXCEPT ![p] = cached[wants[p]]]
    /\ Goto(p, "done")
    /\ UNCHANGED <<accountVars, cached, recorded, lock, wants, closing, root, victim,
                   runtimeVars, sweepVars, overtaken>>

CreateRetires(p) ==
    /\ Yielded /\ pc[p] = "createLock" /\ lock = NoOne
    /\ cached[wants[p]] # NoOne /\ ~Matches(wants[p])
    /\ Retiring(p, "replacing")
    /\ UNCHANGED <<accountVars, cached, recordVars, wants, closing, root, got, home,
                   sweepVars, overtaken>>

\* RuntimeSession.create and start(), which is awaited.
Build(p) ==
    /\ home' = [home EXCEPT ![p] = root[p]]
    /\ Goto(p, "building")

CreateUnchecked(p) ==  \* mutant: no second look at the cache under the lock
    /\ Yielded /\ pc[p] = "createLock" /\ lock = NoOne
    /\ lock' = p
    /\ life' = [life EXCEPT ![p] = "up"]
    /\ Build(p)
    /\ UNCHANGED <<accountVars, cached, recordVars, wants, closing, root, victim, got,
                   sweepVars, overtaken>>

Create(p) ==
    /\ Yielded /\ pc[p] = "createLock" /\ lock = NoOne
    /\ cached[wants[p]] = NoOne
    /\ lock' = p
    /\ life' = [life EXCEPT ![p] = "up"]
    /\ Build(p)
    /\ UNCHANGED <<accountVars, cached, recordVars, wants, closing, root, victim, got,
                   sweepVars, overtaken>>

Replace(p) ==
    /\ Yielded /\ pc[p] = "replacing"
    /\ life' = [life EXCEPT ![victim[p]] = "down", ![p] = "up"]
    /\ Discard(wants[p])
    /\ Build(p)
    /\ UNCHANGED <<accountVars, lock, wants, closing, root, victim, got, sweepVars>>

Register(p) ==
    /\ Yielded /\ pc[p] = "building" /\ current = root[p]
    /\ cached' = [cached EXCEPT ![wants[p]] = p]
    /\ recorded' = IF root[p] = Unknown THEN recorded
                   ELSE [recorded EXCEPT ![wants[p]] = root[p]]
    /\ Authorize(wants[p])
    /\ got' = [got EXCEPT ![p] = p]
    /\ lock' = NoOne
    /\ Goto(p, "done")
    /\ UNCHANGED <<accountVars, wants, closing, root, victim, runtimeVars, sweepVars,
                   overtaken>>

\* The workspace binding cannot be written, or the account has changed
\* since it was sampled: stop the new runtime and fail.
BindingFails(p) ==
    /\ Yielded /\ pc[p] = "building"
    /\ StopRuntime(p)
    /\ Goto(p, "rollback")
    /\ UNCHANGED <<accountVars, cached, recordVars, lock, wants, closing, root, victim,
                   got, home, sweepVars, overtaken>>

AccountChanged(p) ==
    /\ Yielded /\ pc[p] = "building" /\ current # root[p]
    /\ StopRuntime(p)
    /\ Goto(p, "rejecting")
    /\ UNCHANGED <<accountVars, cached, recordVars, lock, wants, closing, root, victim,
                   got, home, sweepVars, overtaken>>

CreateFails(p) ==
    /\ Yielded
    /\ \/ pc[p] = "rollback" /\ UNCHANGED <<cached, recordVars, overtaken>>
       \/ pc[p] = "rejecting" /\ Discard(wants[p])
    /\ Stopped(p)
    /\ lock' = NoOne
    /\ Goto(p, "done")
    /\ UNCHANGED <<accountVars, wants, closing, root, victim, got, home, sweepVars>>

-----------------------------------------------------------------------------
(* stop_session, by a request and by the eviction                          *)

Close(p, s) ==
    /\ Yielded /\ Issue(p, s) /\ Hit(s)
    /\ closing' = closing \cup {p}
    /\ victim' = [victim EXCEPT ![p] = cached[s]]
    /\ StopRuntime(cached[s])
    /\ activity' = [activity EXCEPT ![s] = "recent"]
    /\ Uncache(s)
    /\ Goto(p, "closing")
    /\ UNCHANGED <<accountVars, recorded, authorized, listed, lock, root, got, home,
                   sweepVars>>

Closed(p) ==
    /\ Yielded /\ pc[p] = "closing"
    /\ Stopped(victim[p])
    /\ Forget(wants[p])
    /\ Goto(p, "done")
    /\ UNCHANGED <<accountVars, lock, wants, closing, root, victim, got, home, sweepVars>>

\* evict_idle_sessions: one snapshot, then one stop_session after another.
Sweep ==
    /\ due = {} /\ evicting = NoOne
    /\ due' = {s \in Session : activity[s] = "idle"}
    /\ due' # {}
    /\ UNCHANGED <<accountVars, cached, recordVars, lock, pc, wants, closing, root, victim,
                   got, runtimeVars, evicting, evicted, overtaken>>

EvictNothing(s) ==
    /\ s \in due /\ evicting = NoOne /\ cached[s] = NoOne
    /\ due' = due \ {s}
    /\ UNCHANGED <<accountVars, cached, recordVars, lock, pc, wants, closing, root, victim,
                   got, runtimeVars, evicting, evicted, overtaken>>

Evict(s) ==
    /\ s \in due /\ evicting = NoOne /\ cached[s] # NoOne
    /\ due' = due \ {s}
    /\ evicting' = s /\ evicted' = cached[s]
    /\ StopRuntime(cached[s])
    /\ Uncache(s)
    /\ UNCHANGED <<accountVars, recordVars, lock, pc, wants, closing, root, victim, got, home>>

Evicted ==
    /\ evicting # NoOne
    /\ Stopped(evicted)
    /\ Forget(evicting)
    /\ evicting' = NoOne /\ evicted' = NoOne
    /\ UNCHANGED <<accountVars, lock, pc, wants, closing, root, victim, got, home, due>>

-----------------------------------------------------------------------------
GetSession(p) ==
    \/ \E s \in Session : Get(p, s) \/ GetNothing(p, s) \/ GetForeign(p, s)
    \/ RetireNothing(p) \/ RetireCached(p) \/ Retired(p)

CreateSession(p) ==
    \/ CreateFinds(p) \/ CreateRetires(p) \/ Create(p) \/ Replace(p)
    \/ Register(p) \/ BindingFails(p) \/ AccountChanged(p) \/ CreateFails(p)

StopSession(p) == (\E s \in Session : Close(p, s)) \/ Closed(p)

Eviction == Sweep \/ (\E s \in Session : EvictNothing(s) \/ Evict(s)) \/ Evicted

Next ==
    \/ SwitchAccount \/ (\E s \in Session : IdleOut(s))
    \/ \E p \in Request : GetSession(p) \/ CreateSession(p) \/ StopSession(p)
    \/ Eviction

Spec == Init /\ [][Next]_vars

(***************************************************************************)
(* Fairness: the event loop runs every ready task, and stop() and start()  *)
(* return (for stop(), see StopReturns of RuntimeSession).                 *)
(***************************************************************************)
Proceeds(p) == pc[p] # "new" /\ (GetSession(p) \/ CreateSession(p) \/ StopSession(p))

FairSpec == Spec /\ WF_vars(Eviction) /\ \A p \in Request : SF_vars(Proceeds(p))

-----------------------------------------------------------------------------
(* Properties                                                              *)

Places == {"new", "retireLock", "retiring", "createLock", "replacing", "building",
           "rollback", "rejecting", "closing", "done"}

\* The values every variable ranges over, and who holds the lock.
TypeOK ==
    /\ current \in Root /\ switches \in 0..MaxSwitches
    /\ cached \in [Session -> Request \cup {NoOne}]
    /\ recorded \in [Session -> Account \cup {NoOne}]
    /\ authorized \subseteq Session /\ listed \subseteq Session
    /\ activity \in [Session -> {"none", "recent", "idle"}]
    /\ lock \in Request \cup {NoOne}
    /\ pc \in [Request -> Places]
    /\ wants \in [Request -> Session \cup {NoOne}]
    /\ closing \subseteq Request
    /\ root \in [Request -> Root \cup {NoOne}]
    /\ victim \in [Request -> Request \cup {NoOne}]
    /\ got \in [Request -> Request \cup {NoOne}]
    /\ life \in [Request -> {"none", "up", "stopping", "down"}]
    /\ home \in [Request -> Root \cup {NoOne}]
    /\ due \subseteq Session /\ overtaken \subseteq Session
    /\ evicting \in Session \cup {NoOne} /\ evicted \in Request \cup {NoOne}
    /\ \A p \in Request :
          /\ pc[p] # "new" => wants[p] \in Session
          /\ (lock = p) = (pc[p] \in {"retiring", "replacing", "building", "rollback",
                                     "rejecting"})

\* What the lock protects: while a request retires a runtime the cache holds
\* that runtime or nothing for its session, while it builds one nothing, and
\* what is cached was registered by a request that is done.
LockProtects ==
    /\ \A p \in Request :
          /\ pc[p] \in {"retiring", "replacing"} =>
                /\ cached[wants[p]] \in {victim[p], NoOne}
                /\ victim[p] \in Request /\ life[victim[p]] # "up" /\ pc[victim[p]] = "done"
          /\ pc[p] \in {"building", "rejecting", "rollback"} => cached[wants[p]] = NoOne
          /\ pc[p] \in {"createLock", "replacing", "building"} => root[p] \in Root
          /\ pc[p] = "building" => home[p] = root[p]
    /\ \A s \in Session : cached[s] # NoOne =>
          pc[cached[s]] = "done" /\ home[cached[s]] \in Root

\* A runtime nobody is stopping is in the cache, or the holder of the lock
\* is building it: no session has two, and a shutdown reaches all of them.
NoLeakedRuntime ==
    \A r \in Request : life[r] = "up" =>
        (\E s \in Session : cached[s] = r) \/ (lock = r /\ pc[r] = "building")

\* A cached runtime has all its records, with the account it was built for,
\* unless an older stop_session of the same session removed them.
RecordsComplete ==
    \A s \in Session : cached[s] # NoOne /\ s \notin overtaken =>
        /\ s \in authorized \cap listed /\ activity[s] # "none"
        /\ recorded[s] = home[cached[s]] \/ home[cached[s]] = Unknown

Quiet == evicting = NoOne /\ \A p \in Request : pc[p] \in {"new", "done", "createLock"}

\* When nothing is under way, a session without a runtime has no record.
NoOrphanRecords ==
    Quiet => \A s \in Session : cached[s] = NoOne =>
        recorded[s] = NoOne /\ s \notin authorized \cup listed /\ activity[s] = "none"

\* The registry's six tables and its lock agree about every session.
Consistent == TypeOK /\ LockProtects /\ RecordsComplete /\ NoOrphanRecords

Answered(p) == got'[p] # got[p]

\* The account the answer belongs to, when both are known, is the one in
\* use, except for a session whose records an older stop_session removed.
AnsweredFromOwnAccount ==
    [][\A p \in Request : Answered(p) =>
          home[got'[p]] \in {current', Unknown} \/ wants'[p] \in overtaken]_vars

\* A request is not answered with a runtime that is being stopped, unless
\* the account came back while the runtime was being retired.
AnsweredWithLive ==
    [][\A p \in Request : Answered(p) =>
          \/ life'[got'[p]] = "up"
          \/ lock # NoOne /\ victim[lock] = got'[p]]_vars

\* Every request comes to an end, although stop() is awaited under the lock.
RequestsReturn == \A p \in Request : (pc[p] # "new") ~> (pc[p] = "done")
=============================================================================
