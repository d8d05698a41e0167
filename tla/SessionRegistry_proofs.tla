----------------------- MODULE SessionRegistry_proofs -----------------------
(***************************************************************************)
(* Proofs about SessionRegistry, for any number of requests, sessions,     *)
(* accounts and changes of account.                                        *)
(***************************************************************************)
EXTENDS SessionRegistry, TLAPS

\* The registry's variables keep their types, and a request holds the lock
\* exactly while it is at one of the awaits inside the lock.
THEOREM RegistryTypeCorrect == Spec => []TypeOK
<1>1. Init => TypeOK
  BY Distinct, SwitchesBounded DEF Init, TypeOK, Root, Places
<1>2. TypeOK /\ [Next]_vars => TypeOK'
  <2> SUFFICES ASSUME TypeOK, [Next]_vars PROVE TypeOK'
    OBVIOUS
  <2> USE Distinct, SwitchesBounded DEF TypeOK, Root, Places, accountVars, recordVars,
          runtimeVars, sweepVars
  <2>1. ASSUME SwitchAccount PROVE TypeOK'
    BY <2>1 DEF SwitchAccount
  <2>2. ASSUME NEW s \in Session, IdleOut(s) PROVE TypeOK'
    BY <2>2 DEF IdleOut
  <2>3. ASSUME NEW p \in Request, NEW s \in Session, Get(p, s) PROVE TypeOK'
    BY <2>3 DEF Get, Issue, Goto, Hit, Matches
  <2>4. ASSUME NEW p \in Request, NEW s \in Session, GetNothing(p, s) PROVE TypeOK'
    BY <2>4 DEF GetNothing, Issue, Goto, Miss
  <2>5. ASSUME NEW p \in Request, NEW s \in Session, GetForeign(p, s) PROVE TypeOK'
    BY <2>5 DEF GetForeign, Issue, Goto, Matches
  <2>6. ASSUME NEW p \in Request, RetireNothing(p) PROVE TypeOK'
    BY <2>6 DEF RetireNothing, Miss, Goto
  <2>7. ASSUME NEW p \in Request, RetireCached(p) PROVE TypeOK'
    BY <2>7 DEF RetireCached, Retiring, StopRuntime, Goto
  <2>8. ASSUME NEW p \in Request, Retired(p) PROVE TypeOK'
    <3>1. life' \in [Request -> {"none", "up", "stopping", "down"}]
      BY <2>8 DEF Retired, Stopped
    <3>2. pc' = [pc EXCEPT ![p] = pc'[p]] /\ pc'[p] \in {"done", "createLock"}
      BY <2>8 DEF Retired, Miss, Goto
    <3> QED
      BY <3>1, <3>2, <2>8 DEF Retired, Discard, ForgetRecords, Miss
  <2>9. ASSUME NEW p \in Request, CreateFinds(p) PROVE TypeOK'
    BY <2>9 DEF CreateFinds, Authorize, Goto, Matches
  <2>10. ASSUME NEW p \in Request, CreateRetires(p) PROVE TypeOK'
    BY <2>10 DEF CreateRetires, Retiring, StopRuntime, Goto
  <2>11. ASSUME NEW p \in Request, Create(p) PROVE TypeOK'
    BY <2>11 DEF Create, Build, Goto
  <2>12. ASSUME NEW p \in Request, Replace(p) PROVE TypeOK'
    BY <2>12 DEF Replace, Discard, ForgetRecords, Build, Goto
  <2>13. ASSUME NEW p \in Request, Register(p) PROVE TypeOK'
    BY <2>13 DEF Register, Authorize, Goto
  <2>14. ASSUME NEW p \in Request, BindingFails(p) PROVE TypeOK'
    BY <2>14 DEF BindingFails, StopRuntime, Goto
  <2>15. ASSUME NEW p \in Request, AccountChanged(p) PROVE TypeOK'
    BY <2>15 DEF AccountChanged, StopRuntime, Goto
  <2>16. ASSUME NEW p \in Request, CreateFails(p) PROVE TypeOK'
    BY <2>16 DEF CreateFails, Discard, ForgetRecords, Stopped, Goto
  <2>17. ASSUME NEW p \in Request, NEW s \in Session, Close(p, s) PROVE TypeOK'
    BY <2>17 DEF Close, Issue, Goto, Hit, Matches, StopRuntime, Uncache
  <2>18. ASSUME NEW p \in Request, Closed(p) PROVE TypeOK'
    <3>1. life' \in [Request -> {"none", "up", "stopping", "down"}]
      BY <2>18 DEF Closed, Stopped
    <3>2. pc' = [pc EXCEPT ![p] = pc'[p]] /\ pc'[p] = "done"
      BY <2>18 DEF Closed, Goto
    <3> QED
      BY <3>1, <3>2, <2>18 DEF Closed, Forget, ForgetRecords
  <2>19. ASSUME Sweep PROVE TypeOK'
    BY <2>19 DEF Sweep
  <2>20. ASSUME NEW s \in Session, EvictNothing(s) PROVE TypeOK'
    BY <2>20 DEF EvictNothing
  <2>21. ASSUME NEW s \in Session, Evict(s) PROVE TypeOK'
    BY <2>21 DEF Evict, StopRuntime, Uncache
  <2>22. ASSUME Evicted PROVE TypeOK'
    BY <2>22 DEF Evicted, Stopped, Forget, ForgetRecords
  <2>23. ASSUME UNCHANGED vars PROVE TypeOK'
    BY <2>23 DEF vars
  <2> QED
    BY <2>1, <2>2, <2>3, <2>4, <2>5, <2>6, <2>7, <2>8, <2>9, <2>10, <2>11, <2>12,
       <2>13, <2>14, <2>15, <2>16, <2>17, <2>18, <2>19, <2>20, <2>21, <2>22, <2>23
       DEF Next, GetSession, CreateSession, StopSession, Eviction
<1> QED
  BY <1>1, <1>2, PTL DEF Spec

\* What the lock protects against the requests and the eviction that do not
\* take it.
THEOREM LockCorrect == Spec => []LockProtects
<1>1. Init => LockProtects
  BY DEF Init, LockProtects
<1>2. TypeOK /\ LockProtects /\ [Next]_vars => LockProtects'
  <2> SUFFICES ASSUME TypeOK, LockProtects, [Next]_vars PROVE LockProtects'
    OBVIOUS
  <2> USE Distinct DEF TypeOK, LockProtects, accountVars, recordVars, runtimeVars, sweepVars
  <2>1. ASSUME SwitchAccount PROVE LockProtects'
    BY <2>1 DEF SwitchAccount
  <2>2. ASSUME NEW s \in Session, IdleOut(s) PROVE LockProtects'
    BY <2>2 DEF IdleOut
  <2>3. ASSUME NEW p \in Request, NEW s \in Session, Get(p, s) PROVE LockProtects'
    BY <2>3 DEF Get, Issue, Goto, Hit, Matches
  <2>4. ASSUME NEW p \in Request, NEW s \in Session, GetNothing(p, s) PROVE LockProtects'
    BY <2>4 DEF GetNothing, Issue, Goto, Miss
  <2>5. ASSUME NEW p \in Request, NEW s \in Session, GetForeign(p, s) PROVE LockProtects'
    BY <2>5 DEF GetForeign, Issue, Goto, Matches
  <2>6. ASSUME NEW p \in Request, RetireNothing(p) PROVE LockProtects'
    BY <2>6 DEF RetireNothing, Miss, Goto
  <2>7. ASSUME NEW p \in Request, RetireCached(p) PROVE LockProtects'
    BY <2>7 DEF RetireCached, Retiring, StopRuntime, Goto
  <2>8. ASSUME NEW p \in Request, Retired(p) PROVE LockProtects'
    BY <2>8 DEF Retired, Stopped, Discard, ForgetRecords, Miss, Goto
  <2>9. ASSUME NEW p \in Request, CreateFinds(p) PROVE LockProtects'
    BY <2>9 DEF CreateFinds, Authorize, Goto, Matches
  <2>10. ASSUME NEW p \in Request, CreateRetires(p) PROVE LockProtects'
    BY <2>10 DEF CreateRetires, Retiring, StopRuntime, Goto
  <2>11. ASSUME NEW p \in Request, Create(p) PROVE LockProtects'
    BY <2>11 DEF Create, Build, Goto
  <2>12. ASSUME NEW p \in Request, Replace(p) PROVE LockProtects'
    BY <2>12 DEF Replace, Discard, ForgetRecords, Build, Goto
  <2>13. ASSUME NEW p \in Request, Register(p) PROVE LockProtects'
    BY <2>13 DEF Register, Authorize, Goto
  <2>14. ASSUME NEW p \in Request, BindingFails(p) PROVE LockProtects'
    BY <2>14 DEF BindingFails, StopRuntime, Goto
  <2>15. ASSUME NEW p \in Request, AccountChanged(p) PROVE LockProtects'
    BY <2>15 DEF AccountChanged, StopRuntime, Goto
  <2>16. ASSUME NEW p \in Request, CreateFails(p) PROVE LockProtects'
    BY <2>16 DEF CreateFails, Discard, ForgetRecords, Stopped, Goto
  <2>17. ASSUME NEW p \in Request, NEW s \in Session, Close(p, s) PROVE LockProtects'
    BY <2>17 DEF Close, Issue, Goto, Hit, Matches, StopRuntime, Uncache
  <2>18. ASSUME NEW p \in Request, Closed(p) PROVE LockProtects'
    BY <2>18 DEF Closed, Stopped, Forget, ForgetRecords, Goto
  <2>19. ASSUME Sweep PROVE LockProtects'
    BY <2>19 DEF Sweep
  <2>20. ASSUME NEW s \in Session, EvictNothing(s) PROVE LockProtects'
    BY <2>20 DEF EvictNothing
  <2>21. ASSUME NEW s \in Session, Evict(s) PROVE LockProtects'
    BY <2>21 DEF Evict, StopRuntime, Uncache
  <2>22. ASSUME Evicted PROVE LockProtects'
    BY <2>22 DEF Evicted, Stopped, Forget, ForgetRecords
  <2>23. ASSUME UNCHANGED vars PROVE LockProtects'
    BY <2>23 DEF vars
  <2> QED
    BY <2>1, <2>2, <2>3, <2>4, <2>5, <2>6, <2>7, <2>8, <2>9, <2>10, <2>11, <2>12,
       <2>13, <2>14, <2>15, <2>16, <2>17, <2>18, <2>19, <2>20, <2>21, <2>22, <2>23
       DEF Next, GetSession, CreateSession, StopSession, Eviction
<1> QED
  BY <1>1, <1>2, RegistryTypeCorrect, PTL DEF Spec

\* A runtime that nobody stops is cached or being built by the holder of the
\* lock: none is leaked by creations, retirements and stops that overlap.
THEOREM NoRuntimeLeaks == Spec => []NoLeakedRuntime
<1>1. Init => NoLeakedRuntime
  BY DEF Init, NoLeakedRuntime
<1>2. TypeOK /\ LockProtects /\ NoLeakedRuntime /\ [Next]_vars => NoLeakedRuntime'
  <2> SUFFICES ASSUME TypeOK, LockProtects, NoLeakedRuntime, [Next]_vars
               PROVE  NoLeakedRuntime'
    OBVIOUS
  <2> USE Distinct DEF TypeOK, LockProtects, NoLeakedRuntime, accountVars, recordVars,
          runtimeVars, sweepVars
  <2>1. ASSUME SwitchAccount PROVE NoLeakedRuntime'
    BY <2>1 DEF SwitchAccount
  <2>2. ASSUME NEW s \in Session, IdleOut(s) PROVE NoLeakedRuntime'
    BY <2>2 DEF IdleOut
  <2>3. ASSUME NEW p \in Request, NEW s \in Session, Get(p, s) PROVE NoLeakedRuntime'
    BY <2>3 DEF Get, Issue, Goto, Hit, Matches
  <2>4. ASSUME NEW p \in Request, NEW s \in Session, GetNothing(p, s) PROVE NoLeakedRuntime'
    BY <2>4 DEF GetNothing, Issue, Goto, Miss
  <2>5. ASSUME NEW p \in Request, NEW s \in Session, GetForeign(p, s) PROVE NoLeakedRuntime'
    BY <2>5 DEF GetForeign, Issue, Goto, Matches
  <2>6. ASSUME NEW p \in Request, RetireNothing(p) PROVE NoLeakedRuntime'
    BY <2>6 DEF RetireNothing, Miss, Goto
  <2>7. ASSUME NEW p \in Request, RetireCached(p) PROVE NoLeakedRuntime'
    BY <2>7 DEF RetireCached, Retiring, StopRuntime, Goto
  <2>8. ASSUME NEW p \in Request, Retired(p) PROVE NoLeakedRuntime'
    BY <2>8 DEF Retired, Stopped, Discard, ForgetRecords, Miss, Goto
  <2>9. ASSUME NEW p \in Request, CreateFinds(p) PROVE NoLeakedRuntime'
    BY <2>9 DEF CreateFinds, Authorize, Goto, Matches
  <2>10. ASSUME NEW p \in Request, CreateRetires(p) PROVE NoLeakedRuntime'
    BY <2>10 DEF CreateRetires, Retiring, StopRuntime, Goto
  <2>11. ASSUME NEW p \in Request, Create(p) PROVE NoLeakedRuntime'
    BY <2>11 DEF Create, Build, Goto
  <2>12. ASSUME NEW p \in Request, Replace(p) PROVE NoLeakedRuntime'
    BY <2>12 DEF Replace, Discard, ForgetRecords, Build, Goto
  <2>13. ASSUME NEW p \in Request, Register(p) PROVE NoLeakedRuntime'
    BY <2>13 DEF Register, Authorize, Goto
  <2>14. ASSUME NEW p \in Request, BindingFails(p) PROVE NoLeakedRuntime'
    BY <2>14 DEF BindingFails, StopRuntime, Goto
  <2>15. ASSUME NEW p \in Request, AccountChanged(p) PROVE NoLeakedRuntime'
    BY <2>15 DEF AccountChanged, StopRuntime, Goto
  <2>16. ASSUME NEW p \in Request, CreateFails(p) PROVE NoLeakedRuntime'
    BY <2>16 DEF CreateFails, Discard, ForgetRecords, Stopped, Goto
  <2>17. ASSUME NEW p \in Request, NEW s \in Session, Close(p, s) PROVE NoLeakedRuntime'
    BY <2>17 DEF Close, Issue, Goto, Hit, Matches, StopRuntime, Uncache
  <2>18. ASSUME NEW p \in Request, Closed(p) PROVE NoLeakedRuntime'
    BY <2>18 DEF Closed, Stopped, Forget, ForgetRecords, Goto
  <2>19. ASSUME Sweep PROVE NoLeakedRuntime'
    BY <2>19 DEF Sweep
  <2>20. ASSUME NEW s \in Session, EvictNothing(s) PROVE NoLeakedRuntime'
    BY <2>20 DEF EvictNothing
  <2>21. ASSUME NEW s \in Session, Evict(s) PROVE NoLeakedRuntime'
    BY <2>21 DEF Evict, StopRuntime, Uncache
  <2>22. ASSUME Evicted PROVE NoLeakedRuntime'
    BY <2>22 DEF Evicted, Stopped, Forget, ForgetRecords
  <2>23. ASSUME UNCHANGED vars PROVE NoLeakedRuntime'
    BY <2>23 DEF vars
  <2> QED
    BY <2>1, <2>2, <2>3, <2>4, <2>5, <2>6, <2>7, <2>8, <2>9, <2>10, <2>11, <2>12,
       <2>13, <2>14, <2>15, <2>16, <2>17, <2>18, <2>19, <2>20, <2>21, <2>22, <2>23
       DEF Next, GetSession, CreateSession, StopSession, Eviction
<1> QED
  BY <1>1, <1>2, RegistryTypeCorrect, LockCorrect, PTL DEF Spec

\* A cached runtime has the records of its own account, but for the overlap
\* of a creation with an older stop_session.
THEOREM RecordsCorrect == Spec => []RecordsComplete
<1>1. Init => RecordsComplete
  BY DEF Init, RecordsComplete
<1>2. TypeOK /\ LockProtects /\ RecordsComplete /\ [Next]_vars => RecordsComplete'
  <2> SUFFICES ASSUME TypeOK, LockProtects, RecordsComplete, [Next]_vars
               PROVE  RecordsComplete'
    OBVIOUS
  <2> USE Distinct DEF TypeOK, LockProtects, RecordsComplete, accountVars, recordVars,
          runtimeVars, sweepVars
  <2>1. ASSUME SwitchAccount PROVE RecordsComplete'
    BY <2>1 DEF SwitchAccount
  <2>2. ASSUME NEW s \in Session, IdleOut(s) PROVE RecordsComplete'
    BY <2>2 DEF IdleOut
  <2>3. ASSUME NEW p \in Request, NEW s \in Session, Get(p, s) PROVE RecordsComplete'
    BY <2>3 DEF Get, Issue, Goto, Hit, Matches
  <2>4. ASSUME NEW p \in Request, NEW s \in Session, GetNothing(p, s) PROVE RecordsComplete'
    BY <2>4 DEF GetNothing, Issue, Goto, Miss
  <2>5. ASSUME NEW p \in Request, NEW s \in Session, GetForeign(p, s) PROVE RecordsComplete'
    BY <2>5 DEF GetForeign, Issue, Goto, Matches
  <2>6. ASSUME NEW p \in Request, RetireNothing(p) PROVE RecordsComplete'
    BY <2>6 DEF RetireNothing, Miss, Goto
  <2>7. ASSUME NEW p \in Request, RetireCached(p) PROVE RecordsComplete'
    BY <2>7 DEF RetireCached, Retiring, StopRuntime, Goto
  <2>8. ASSUME NEW p \in Request, Retired(p) PROVE RecordsComplete'
    BY <2>8 DEF Retired, Stopped, Discard, ForgetRecords, Miss, Goto
  <2>9. ASSUME NEW p \in Request, CreateFinds(p) PROVE RecordsComplete'
    BY <2>9 DEF CreateFinds, Authorize, Goto, Matches
  <2>10. ASSUME NEW p \in Request, CreateRetires(p) PROVE RecordsComplete'
    BY <2>10 DEF CreateRetires, Retiring, StopRuntime, Goto
  <2>11. ASSUME NEW p \in Request, Create(p) PROVE RecordsComplete'
    BY <2>11 DEF Create, Build, Goto
  <2>12. ASSUME NEW p \in Request, Replace(p) PROVE RecordsComplete'
    BY <2>12 DEF Replace, Discard, ForgetRecords, Build, Goto
  <2>13. ASSUME NEW p \in Request, Register(p) PROVE RecordsComplete'
    BY <2>13 DEF Register, Authorize, Goto
  <2>14. ASSUME NEW p \in Request, BindingFails(p) PROVE RecordsComplete'
    BY <2>14 DEF BindingFails, StopRuntime, Goto
  <2>15. ASSUME NEW p \in Request, AccountChanged(p) PROVE RecordsComplete'
    BY <2>15 DEF AccountChanged, StopRuntime, Goto
  <2>16. ASSUME NEW p \in Request, CreateFails(p) PROVE RecordsComplete'
    BY <2>16 DEF CreateFails, Discard, ForgetRecords, Stopped, Goto
  <2>17. ASSUME NEW p \in Request, NEW s \in Session, Close(p, s) PROVE RecordsComplete'
    BY <2>17 DEF Close, Issue, Goto, Hit, Matches, StopRuntime, Uncache
  <2>18. ASSUME NEW p \in Request, Closed(p) PROVE RecordsComplete'
    BY <2>18 DEF Closed, Stopped, Forget, ForgetRecords, Goto
  <2>19. ASSUME Sweep PROVE RecordsComplete'
    BY <2>19 DEF Sweep
  <2>20. ASSUME NEW s \in Session, EvictNothing(s) PROVE RecordsComplete'
    BY <2>20 DEF EvictNothing
  <2>21. ASSUME NEW s \in Session, Evict(s) PROVE RecordsComplete'
    BY <2>21 DEF Evict, StopRuntime, Uncache
  <2>22. ASSUME Evicted PROVE RecordsComplete'
    BY <2>22 DEF Evicted, Stopped, Forget, ForgetRecords
  <2>23. ASSUME UNCHANGED vars PROVE RecordsComplete'
    BY <2>23 DEF vars
  <2> QED
    BY <2>1, <2>2, <2>3, <2>4, <2>5, <2>6, <2>7, <2>8, <2>9, <2>10, <2>11, <2>12,
       <2>13, <2>14, <2>15, <2>16, <2>17, <2>18, <2>19, <2>20, <2>21, <2>22, <2>23
       DEF Next, GetSession, CreateSession, StopSession, Eviction
<1> QED
  BY <1>1, <1>2, RegistryTypeCorrect, LockCorrect, PTL DEF Spec

Bare(s) == recorded[s] = NoOne /\ s \notin authorized \cup listed /\ activity[s] = "none"

\* A stop_session that awaits its runtime and will forget the records of s.
Closer(s) == \E p \in Request : pc[p] = "closing" /\ wants[p] = s

\* A session without a runtime has no record, or someone will forget them.
NoOneForgotten ==
    \A s \in Session : cached[s] = NoOne => Bare(s) \/ evicting = s \/ Closer(s)

\* Whatever creations, retirements and stops overlap, each session without a
\* runtime is bare or about to be.
THEOREM ForgettersCorrect == Spec => []NoOneForgotten
<1> DEFINE Stay == \A p \in Request :
                      pc[p] = "closing" => pc'[p] = "closing" /\ wants'[p] = wants[p]
           Books == \A s \in Session : cached'[s] = NoOne =>
                      Bare(s)' \/ (cached[s] = NoOne /\ ~Bare(s) /\ evicting # s)
                      \/ evicting' = s \/ Closer(s)'
<1>1. Init => NoOneForgotten
  BY DEF Init, NoOneForgotten, Bare
<1>2. TypeOK /\ NoOneForgotten /\ [Next]_vars => NoOneForgotten'
  <2> SUFFICES ASSUME TypeOK, NoOneForgotten, [Next]_vars PROVE NoOneForgotten'
    OBVIOUS
  <2>a. ASSUME Stay, Books PROVE NoOneForgotten'
    <3>1. \A s \in Session : Closer(s) => Closer(s)'
      BY <2>a DEF Closer
    <3> QED
      BY <2>a, <3>1 DEF NoOneForgotten
  <2> USE Distinct DEF TypeOK, accountVars, recordVars, runtimeVars, sweepVars
  <2>1. ASSUME SwitchAccount PROVE NoOneForgotten'
    <3>1. Stay
      BY <2>1 DEF SwitchAccount
    <3>2. Books
      BY <2>1 DEF SwitchAccount, Bare
    <3> QED
      BY <3>1, <3>2, <2>a
  <2>2. ASSUME NEW s \in Session, IdleOut(s) PROVE NoOneForgotten'
    <3>1. Stay
      BY <2>2 DEF IdleOut
    <3>2. Books
      BY <2>2 DEF IdleOut, Bare
    <3> QED
      BY <3>1, <3>2, <2>a
  <2>3. ASSUME NEW p \in Request, NEW s \in Session, Get(p, s) PROVE NoOneForgotten'
    <3>1. Stay
      BY <2>3 DEF Get, Issue, Goto
    <3>2. Books
      BY <2>3 DEF Get, Issue, Goto, Hit, Matches, Bare
    <3> QED
      BY <3>1, <3>2, <2>a
  <2>4. ASSUME NEW p \in Request, NEW s \in Session, GetNothing(p, s) PROVE NoOneForgotten'
    <3>1. Stay
      BY <2>4 DEF GetNothing, Issue, Goto, Miss
    <3>2. Books
      BY <2>4 DEF GetNothing, Issue, Goto, Miss, Bare
    <3> QED
      BY <3>1, <3>2, <2>a
  <2>5. ASSUME NEW p \in Request, NEW s \in Session, GetForeign(p, s) PROVE NoOneForgotten'
    <3>1. Stay
      BY <2>5 DEF GetForeign, Issue, Goto
    <3>2. Books
      BY <2>5 DEF GetForeign, Issue, Goto, Matches, Bare
    <3> QED
      BY <3>1, <3>2, <2>a
  <2>6. ASSUME NEW p \in Request, RetireNothing(p) PROVE NoOneForgotten'
    <3>1. Stay
      BY <2>6 DEF RetireNothing, Miss, Goto
    <3>2. Books
      BY <2>6 DEF RetireNothing, Miss, Goto, Bare
    <3> QED
      BY <3>1, <3>2, <2>a
  <2>7. ASSUME NEW p \in Request, RetireCached(p) PROVE NoOneForgotten'
    <3>1. Stay
      BY <2>7 DEF RetireCached, Retiring, Goto
    <3>2. Books
      BY <2>7 DEF RetireCached, Retiring, StopRuntime, Goto, Bare
    <3> QED
      BY <3>1, <3>2, <2>a
  <2>8. ASSUME NEW p \in Request, Retired(p) PROVE NoOneForgotten'
    <3>1. Stay
      BY <2>8 DEF Retired, Miss, Goto
    <3>2. Books
      BY <2>8 DEF Retired, Stopped, Discard, ForgetRecords, Miss, Goto, Bare
    <3> QED
      BY <3>1, <3>2, <2>a
  <2>9. ASSUME NEW p \in Request, CreateFinds(p) PROVE NoOneForgotten'
    <3>1. Stay
      BY <2>9 DEF CreateFinds, Goto
    <3>2. Books
      BY <2>9 DEF CreateFinds, Authorize, Goto, Matches, Bare
    <3> QED
      BY <3>1, <3>2, <2>a
  <2>10. ASSUME NEW p \in Request, CreateRetires(p) PROVE NoOneForgotten'
    <3>1. Stay
      BY <2>10 DEF CreateRetires, Retiring, Goto
    <3>2. Books
      BY <2>10 DEF CreateRetires, Retiring, StopRuntime, Goto, Bare
    <3> QED
      BY <3>1, <3>2, <2>a
  <2>11. ASSUME NEW p \in Request, Create(p) PROVE NoOneForgotten'
    <3>1. Stay
      BY <2>11 DEF Create, Build, Goto
    <3>2. Books
      BY <2>11 DEF Create, Build, Goto, Bare
    <3> QED
      BY <3>1, <3>2, <2>a
  <2>12. ASSUME NEW p \in Request, Replace(p) PROVE NoOneForgotten'
    <3>1. Stay
      BY <2>12 DEF Replace, Build, Goto
    <3>2. Books
      BY <2>12 DEF Replace, Discard, ForgetRecords, Build, Goto, Bare
    <3> QED
      BY <3>1, <3>2, <2>a
  <2>13. ASSUME NEW p \in Request, Register(p) PROVE NoOneForgotten'
    <3>1. Stay
      BY <2>13 DEF Register, Goto
    <3>2. Books
      BY <2>13 DEF Register, Authorize, Goto, Bare
    <3> QED
      BY <3>1, <3>2, <2>a
  <2>14. ASSUME NEW p \in Request, BindingFails(p) PROVE NoOneForgotten'
    <3>1. Stay
      BY <2>14 DEF BindingFails, Goto
    <3>2. Books
      BY <2>14 DEF BindingFails, StopRuntime, Goto, Bare
    <3> QED
      BY <3>1, <3>2, <2>a
  <2>15. ASSUME NEW p \in Request, AccountChanged(p) PROVE NoOneForgotten'
    <3>1. Stay
      BY <2>15 DEF AccountChanged, Goto
    <3>2. Books
      BY <2>15 DEF AccountChanged, StopRuntime, Goto, Bare
    <3> QED
      BY <3>1, <3>2, <2>a
  <2>16. ASSUME NEW p \in Request, CreateFails(p) PROVE NoOneForgotten'
    <3>1. Stay
      BY <2>16 DEF CreateFails, Goto
    <3>2. Books
      BY <2>16 DEF CreateFails, Discard, ForgetRecords, Stopped, Goto, Bare
    <3> QED
      BY <3>1, <3>2, <2>a
  <2>17. ASSUME NEW p \in Request, NEW s \in Session, Close(p, s) PROVE NoOneForgotten'
    <3>1. Stay
      BY <2>17 DEF Close, Issue, Goto
    <3>2. pc'[p] = "closing" /\ wants'[p] = s /\ Closer(s)'
      BY <2>17 DEF Close, Issue, Goto, Closer
    <3>3. Books
      BY <2>17, <3>2 DEF Close, Uncache, Bare
    <3> QED
      BY <3>1, <3>3, <2>a
  <2>18. ASSUME NEW p \in Request, Closed(p) PROVE NoOneForgotten'
    <3> PICK e \in Session : e = wants[p]
      BY <2>18 DEF Closed
    <3>1. \A q \in Request : q # p /\ pc[q] = "closing" => pc'[q] = "closing" /\ wants'[q] = wants[q]
      BY <2>18 DEF Closed, Goto
    <3>2. \A s \in Session : s # e /\ Closer(s) => Closer(s)'
      BY <3>1 DEF Closer
    <3>3. Bare(e)'
      BY <2>18 DEF Closed, Forget, ForgetRecords, Bare
    <3>4. \A s \in Session : s # e /\ cached'[s] = NoOne =>
             cached[s] = NoOne /\ (Bare(s) => Bare(s)') /\ evicting' = evicting
      BY <2>18 DEF Closed, Forget, ForgetRecords, Bare
    <3>5. ASSUME NEW s \in Session, cached'[s] = NoOne
          PROVE  Bare(s)' \/ evicting' = s \/ Closer(s)'
      <4>1. CASE s = e
        BY <3>3, <4>1
      <4>2. CASE s # e
        BY <3>2, <3>4, <3>5, <4>2 DEF NoOneForgotten
      <4> QED
        BY <4>1, <4>2
    <3> QED
      BY <3>5 DEF NoOneForgotten
  <2>19. ASSUME Sweep PROVE NoOneForgotten'
    <3>1. Stay
      BY <2>19 DEF Sweep
    <3>2. Books
      BY <2>19 DEF Sweep, Bare
    <3> QED
      BY <3>1, <3>2, <2>a
  <2>20. ASSUME NEW s \in Session, EvictNothing(s) PROVE NoOneForgotten'
    <3>1. Stay
      BY <2>20 DEF EvictNothing
    <3>2. Books
      BY <2>20 DEF EvictNothing, Bare
    <3> QED
      BY <3>1, <3>2, <2>a
  <2>21. ASSUME NEW s \in Session, Evict(s) PROVE NoOneForgotten'
    <3>1. Stay
      BY <2>21 DEF Evict
    <3>2. Books
      BY <2>21 DEF Evict, StopRuntime, Uncache, Bare
    <3> QED
      BY <3>1, <3>2, <2>a
  <2>22. ASSUME Evicted PROVE NoOneForgotten'
    <3> PICK e \in Session : e = evicting
      BY <2>22 DEF Evicted
    <3>1. \A s \in Session : Closer(s) => Closer(s)'
      BY <2>22 DEF Evicted, Closer
    <3>2. Bare(e)'
      BY <2>22 DEF Evicted, Forget, ForgetRecords, Bare
    <3>3. \A s \in Session : s # e /\ cached'[s] = NoOne =>
             cached[s] = NoOne /\ (Bare(s) => Bare(s)')
      <4>1. /\ cached' = cached /\ recorded' = [recorded EXCEPT ![evicting] = NoOne]
            /\ authorized' = authorized \ {evicting} /\ listed' = listed \ {evicting}
            /\ activity' = [activity EXCEPT ![evicting] = "none"]
        BY <2>22 DEF Evicted, Forget, ForgetRecords
      <4> QED
        BY <4>1 DEF Bare
    <3> QED
      BY <3>1, <3>2, <3>3 DEF NoOneForgotten
  <2>23. ASSUME UNCHANGED vars PROVE NoOneForgotten'
    <3>0. UNCHANGED <<pc, wants, cached, recorded, authorized, listed, activity, evicting>>
      BY <2>23 DEF vars
    <3>1. Stay
      BY <3>0
    <3>2. Books
      BY <3>0 DEF Bare
    <3> QED
      BY <3>1, <3>2, <2>a
  <2> QED
    BY <2>1, <2>2, <2>3, <2>4, <2>5, <2>6, <2>7, <2>8, <2>9, <2>10, <2>11, <2>12,
       <2>13, <2>14, <2>15, <2>16, <2>17, <2>18, <2>19, <2>20, <2>21, <2>22, <2>23
       DEF Next, GetSession, CreateSession, StopSession, Eviction
<1> QED
  BY <1>1, <1>2, RegistryTypeCorrect, PTL DEF Spec

\* The six tables and the lock agree about every session: no half-registered
\* session survives the requests and evictions that overlapped on it.
THEOREM RegistryConsistent == Spec => []Consistent
<1>1. TypeOK /\ NoOneForgotten => NoOrphanRecords
  <2> SUFFICES ASSUME NoOneForgotten, Quiet, NEW s \in Session, cached[s] = NoOne
               PROVE  Bare(s)
    BY DEF NoOrphanRecords, Bare
  <2>1. evicting # s
    BY Distinct DEF Quiet
  <2>2. ~Closer(s)
    BY DEF Quiet, Closer
  <2> QED
    BY <2>1, <2>2 DEF NoOneForgotten
<1>2. TypeOK /\ LockProtects /\ RecordsComplete /\ NoOneForgotten => Consistent
  BY <1>1 DEF Consistent
<1> QED
  BY <1>2, RegistryTypeCorrect, LockCorrect, RecordsCorrect, ForgettersCorrect, PTL

\* No step answers a request with the runtime of an account other than the
\* one in use, but for the same overlap.
THEOREM AnswersOwnAccount == Spec => AnsweredFromOwnAccount
<1> DEFINE Own == \A p \in Request : Answered(p) =>
                     home[got'[p]] \in {current', Unknown} \/ wants'[p] \in overtaken
<1>1. TypeOK /\ LockProtects /\ RecordsComplete /\ [Next]_vars => [Own]_vars
  <2> SUFFICES ASSUME TypeOK, LockProtects, RecordsComplete, [Next]_vars PROVE Own
    OBVIOUS
  <2> USE Distinct DEF TypeOK, LockProtects, RecordsComplete, Answered, Root, accountVars,
          recordVars, runtimeVars, sweepVars
  <2>1. ASSUME SwitchAccount PROVE Own
    BY <2>1 DEF SwitchAccount
  <2>2. ASSUME NEW s \in Session, IdleOut(s) PROVE Own
    BY <2>2 DEF IdleOut
  <2>3. ASSUME NEW p \in Request, NEW s \in Session, Get(p, s) PROVE Own
    BY <2>3 DEF Get, Issue, Goto, Hit, Matches
  <2>4. ASSUME NEW p \in Request, NEW s \in Session, GetNothing(p, s) PROVE Own
    BY <2>4 DEF GetNothing, Issue, Goto, Miss
  <2>5. ASSUME NEW p \in Request, NEW s \in Session, GetForeign(p, s) PROVE Own
    BY <2>5 DEF GetForeign, Issue, Goto, Matches
  <2>6. ASSUME NEW p \in Request, RetireNothing(p) PROVE Own
    BY <2>6 DEF RetireNothing, Miss, Goto
  <2>7. ASSUME NEW p \in Request, RetireCached(p) PROVE Own
    BY <2>7 DEF RetireCached, Retiring, StopRuntime, Goto
  <2>8. ASSUME NEW p \in Request, Retired(p) PROVE Own
    BY <2>8 DEF Retired, Stopped, Discard, ForgetRecords, Miss, Goto
  <2>9. ASSUME NEW p \in Request, CreateFinds(p) PROVE Own
    BY <2>9 DEF CreateFinds, Authorize, Goto, Matches
  <2>10. ASSUME NEW p \in Request, CreateRetires(p) PROVE Own
    BY <2>10 DEF CreateRetires, Retiring, StopRuntime, Goto
  <2>11. ASSUME NEW p \in Request, Create(p) PROVE Own
    BY <2>11 DEF Create, Build, Goto
  <2>12. ASSUME NEW p \in Request, Replace(p) PROVE Own
    BY <2>12 DEF Replace, Discard, ForgetRecords, Build, Goto
  <2>13. ASSUME NEW p \in Request, Register(p) PROVE Own
    BY <2>13 DEF Register, Authorize, Goto
  <2>14. ASSUME NEW p \in Request, BindingFails(p) PROVE Own
    BY <2>14 DEF BindingFails, StopRuntime, Goto
  <2>15. ASSUME NEW p \in Request, AccountChanged(p) PROVE Own
    BY <2>15 DEF AccountChanged, StopRuntime, Goto
  <2>16. ASSUME NEW p \in Request, CreateFails(p) PROVE Own
    BY <2>16 DEF CreateFails, Discard, ForgetRecords, Stopped, Goto
  <2>17. ASSUME NEW p \in Request, NEW s \in Session, Close(p, s) PROVE Own
    BY <2>17 DEF Close, Issue, Goto, Hit, Matches, StopRuntime, Uncache
  <2>18. ASSUME NEW p \in Request, Closed(p) PROVE Own
    BY <2>18 DEF Closed, Stopped, Forget, ForgetRecords, Goto
  <2>19. ASSUME Sweep PROVE Own
    BY <2>19 DEF Sweep
  <2>20. ASSUME NEW s \in Session, EvictNothing(s) PROVE Own
    BY <2>20 DEF EvictNothing
  <2>21. ASSUME NEW s \in Session, Evict(s) PROVE Own
    BY <2>21 DEF Evict, StopRuntime, Uncache
  <2>22. ASSUME Evicted PROVE Own
    BY <2>22 DEF Evicted, Stopped, Forget, ForgetRecords
  <2>23. ASSUME UNCHANGED vars PROVE Own
    BY <2>23 DEF vars
  <2> QED
    BY <2>1, <2>2, <2>3, <2>4, <2>5, <2>6, <2>7, <2>8, <2>9, <2>10, <2>11, <2>12,
       <2>13, <2>14, <2>15, <2>16, <2>17, <2>18, <2>19, <2>20, <2>21, <2>22, <2>23
       DEF Next, GetSession, CreateSession, StopSession, Eviction
<1> QED
  BY <1>1, RegistryTypeCorrect, LockCorrect, RecordsCorrect, PTL
     DEF Spec, AnsweredFromOwnAccount

\* A runtime that is out of the cache and will not come back.
Gone(r) == r \in Request /\ pc[r] = "done" /\ \A s \in Session : cached[s] # r

\* A runtime is cached for the session it was built for and no other, and it
\* runs unless the holder of the lock is retiring it: whoever else stops a
\* runtime has taken it out of the cache for good.
CachedAlive ==
    /\ \A s \in Session : cached[s] # NoOne =>
          /\ wants[cached[s]] = s
          /\ \/ life[cached[s]] = "up"
             \/ \E q \in Request : pc[q] \in {"retiring", "replacing"} /\ victim[q] = cached[s]
    /\ \A p \in Request :
          /\ pc[p] = "building" => life[p] = "up"
          /\ pc[p] \in {"retiring", "replacing"} => wants[victim[p]] = wants[p]
          /\ pc[p] = "closing" => Gone(victim[p])
    /\ evicting # NoOne => Gone(evicted)

\* What is cached runs, or the holder of the lock retires it.
THEOREM CachedAliveHolds == Spec => []CachedAlive
<1>1. Init => CachedAlive
  BY DEF Init, CachedAlive
<1>2. TypeOK /\ LockProtects /\ CachedAlive /\ [Next]_vars => CachedAlive'
  <2> SUFFICES ASSUME TypeOK, LockProtects, CachedAlive, [Next]_vars PROVE CachedAlive'
    OBVIOUS
  <2> USE Distinct DEF TypeOK, LockProtects, CachedAlive, Gone, accountVars, recordVars,
          runtimeVars, sweepVars
  <2>1. ASSUME SwitchAccount PROVE CachedAlive'
    BY <2>1 DEF SwitchAccount
  <2>2. ASSUME NEW s \in Session, IdleOut(s) PROVE CachedAlive'
    BY <2>2 DEF IdleOut
  <2>3. ASSUME NEW p \in Request, NEW s \in Session, Get(p, s) PROVE CachedAlive'
    BY <2>3 DEF Get, Issue, Goto, Hit, Matches
  <2>4. ASSUME NEW p \in Request, NEW s \in Session, GetNothing(p, s) PROVE CachedAlive'
    BY <2>4 DEF GetNothing, Issue, Goto, Miss
  <2>5. ASSUME NEW p \in Request, NEW s \in Session, GetForeign(p, s) PROVE CachedAlive'
    BY <2>5 DEF GetForeign, Issue, Goto, Matches
  <2>6. ASSUME NEW p \in Request, RetireNothing(p) PROVE CachedAlive'
    BY <2>6 DEF RetireNothing, Miss, Goto
  <2>7. ASSUME NEW p \in Request, RetireCached(p) PROVE CachedAlive'
    BY <2>7 DEF RetireCached, Retiring, StopRuntime, Goto
  <2>8. ASSUME NEW p \in Request, Retired(p) PROVE CachedAlive'
    BY <2>8 DEF Retired, Stopped, Discard, ForgetRecords, Miss, Goto
  <2>9. ASSUME NEW p \in Request, CreateFinds(p) PROVE CachedAlive'
    BY <2>9 DEF CreateFinds, Authorize, Goto, Matches
  <2>10. ASSUME NEW p \in Request, CreateRetires(p) PROVE CachedAlive'
    BY <2>10 DEF CreateRetires, Retiring, StopRuntime, Goto
  <2>11. ASSUME NEW p \in Request, Create(p) PROVE CachedAlive'
    BY <2>11 DEF Create, Build, Goto
  <2>12. ASSUME NEW p \in Request, Replace(p) PROVE CachedAlive'
    BY <2>12 DEF Replace, Discard, ForgetRecords, Build, Goto
  <2>13. ASSUME NEW p \in Request, Register(p) PROVE CachedAlive'
    BY <2>13 DEF Register, Authorize, Goto
  <2>14. ASSUME NEW p \in Request, BindingFails(p) PROVE CachedAlive'
    BY <2>14 DEF BindingFails, StopRuntime, Goto
  <2>15. ASSUME NEW p \in Request, AccountChanged(p) PROVE CachedAlive'
    BY <2>15 DEF AccountChanged, StopRuntime, Goto
  <2>16. ASSUME NEW p \in Request, CreateFails(p) PROVE CachedAlive'
    BY <2>16 DEF CreateFails, Discard, ForgetRecords, Stopped, Goto
  <2>17. ASSUME NEW p \in Request, NEW s \in Session, Close(p, s) PROVE CachedAlive'
    BY <2>17 DEF Close, Issue, Goto, Hit, Matches, StopRuntime, Uncache
  <2>18. ASSUME NEW p \in Request, Closed(p) PROVE CachedAlive'
    BY <2>18 DEF Closed, Stopped, Forget, ForgetRecords, Goto
  <2>19. ASSUME Sweep PROVE CachedAlive'
    BY <2>19 DEF Sweep
  <2>20. ASSUME NEW s \in Session, EvictNothing(s) PROVE CachedAlive'
    BY <2>20 DEF EvictNothing
  <2>21. ASSUME NEW s \in Session, Evict(s) PROVE CachedAlive'
    BY <2>21 DEF Evict, StopRuntime, Uncache
  <2>22. ASSUME Evicted PROVE CachedAlive'
    BY <2>22 DEF Evicted, Stopped, Forget, ForgetRecords
  <2>23. ASSUME UNCHANGED vars PROVE CachedAlive'
    BY <2>23 DEF vars
  <2> QED
    BY <2>1, <2>2, <2>3, <2>4, <2>5, <2>6, <2>7, <2>8, <2>9, <2>10, <2>11, <2>12,
       <2>13, <2>14, <2>15, <2>16, <2>17, <2>18, <2>19, <2>20, <2>21, <2>22, <2>23
       DEF Next, GetSession, CreateSession, StopSession, Eviction
<1> QED
  BY <1>1, <1>2, RegistryTypeCorrect, LockCorrect, PTL DEF Spec

\* No step answers a request with a runtime that is being stopped, unless the
\* holder of the lock retires it and its account came back meanwhile.
THEOREM AnswersWithLiveRuntime == Spec => AnsweredWithLive
<1> DEFINE Live == \A p \in Request : Answered(p) =>
                      \/ life'[got'[p]] = "up"
                      \/ lock # NoOne /\ victim[lock] = got'[p]
<1>1. TypeOK /\ LockProtects /\ CachedAlive /\ [Next]_vars => [Live]_vars
  <2> SUFFICES ASSUME TypeOK, LockProtects, CachedAlive, [Next]_vars PROVE Live
    OBVIOUS
  <2> USE Distinct DEF TypeOK, LockProtects, CachedAlive, Answered, accountVars,
          recordVars, runtimeVars, sweepVars
  <2>1. ASSUME SwitchAccount PROVE Live
    BY <2>1 DEF SwitchAccount
  <2>2. ASSUME NEW s \in Session, IdleOut(s) PROVE Live
    BY <2>2 DEF IdleOut
  <2>3. ASSUME NEW p \in Request, NEW s \in Session, Get(p, s) PROVE Live
    BY <2>3 DEF Get, Issue, Goto, Hit, Matches
  <2>4. ASSUME NEW p \in Request, NEW s \in Session, GetNothing(p, s) PROVE Live
    BY <2>4 DEF GetNothing, Issue, Goto, Miss
  <2>5. ASSUME NEW p \in Request, NEW s \in Session, GetForeign(p, s) PROVE Live
    BY <2>5 DEF GetForeign, Issue, Goto, Matches
  <2>6. ASSUME NEW p \in Request, RetireNothing(p) PROVE Live
    BY <2>6 DEF RetireNothing, Miss, Goto
  <2>7. ASSUME NEW p \in Request, RetireCached(p) PROVE Live
    BY <2>7 DEF RetireCached, Retiring, StopRuntime, Goto
  <2>8. ASSUME NEW p \in Request, Retired(p) PROVE Live
    BY <2>8 DEF Retired, Stopped, Discard, ForgetRecords, Miss, Goto
  <2>9. ASSUME NEW p \in Request, CreateFinds(p) PROVE Live
    BY <2>9 DEF CreateFinds, Authorize, Goto, Matches
  <2>10. ASSUME NEW p \in Request, CreateRetires(p) PROVE Live
    BY <2>10 DEF CreateRetires, Retiring, StopRuntime, Goto
  <2>11. ASSUME NEW p \in Request, Create(p) PROVE Live
    BY <2>11 DEF Create, Build, Goto
  <2>12. ASSUME NEW p \in Request, Replace(p) PROVE Live
    BY <2>12 DEF Replace, Discard, ForgetRecords, Build, Goto
  <2>13. ASSUME NEW p \in Request, Register(p) PROVE Live
    BY <2>13 DEF Register, Authorize, Goto
  <2>14. ASSUME NEW p \in Request, BindingFails(p) PROVE Live
    BY <2>14 DEF BindingFails, StopRuntime, Goto
  <2>15. ASSUME NEW p \in Request, AccountChanged(p) PROVE Live
    BY <2>15 DEF AccountChanged, StopRuntime, Goto
  <2>16. ASSUME NEW p \in Request, CreateFails(p) PROVE Live
    BY <2>16 DEF CreateFails, Discard, ForgetRecords, Stopped, Goto
  <2>17. ASSUME NEW p \in Request, NEW s \in Session, Close(p, s) PROVE Live
    BY <2>17 DEF Close, Issue, Goto, Hit, Matches, StopRuntime, Uncache
  <2>18. ASSUME NEW p \in Request, Closed(p) PROVE Live
    BY <2>18 DEF Closed, Stopped, Forget, ForgetRecords, Goto
  <2>19. ASSUME Sweep PROVE Live
    BY <2>19 DEF Sweep
  <2>20. ASSUME NEW s \in Session, EvictNothing(s) PROVE Live
    BY <2>20 DEF EvictNothing
  <2>21. ASSUME NEW s \in Session, Evict(s) PROVE Live
    BY <2>21 DEF Evict, StopRuntime, Uncache
  <2>22. ASSUME Evicted PROVE Live
    BY <2>22 DEF Evicted, Stopped, Forget, ForgetRecords
  <2>23. ASSUME UNCHANGED vars PROVE Live
    BY <2>23 DEF vars
  <2> QED
    BY <2>1, <2>2, <2>3, <2>4, <2>5, <2>6, <2>7, <2>8, <2>9, <2>10, <2>11, <2>12,
       <2>13, <2>14, <2>15, <2>16, <2>17, <2>18, <2>19, <2>20, <2>21, <2>22, <2>23
       DEF Next, GetSession, CreateSession, StopSession, Eviction
<1> QED
  BY <1>1, RegistryTypeCorrect, LockCorrect, CachedAliveHolds, PTL
     DEF Spec, AnsweredWithLive
=============================================================================
