------------------------ MODULE CircuitBreaker_proofs ------------------------
(***************************************************************************)
(* Proofs about CircuitBreaker, for every number of calls and every        *)
(* threshold.  HalfOpenNotStuck is inductive together with TypeOK: only    *)
(* the call that is about to close the breaker or to zero the counter can  *)
(* leave its pc, and when it does, one of the two conditions goes away.    *)
(***************************************************************************)
EXTENDS CircuitBreaker, TLAPS

USE CircuitBreakerAssumption

\* Idle is a state of a call.
LEMMA IdleType == Idle \in Call
  BY DEF Idle, Call, PC, State

\* A saturating counter stays between zero and its threshold.
LEMMA IncrType ==
    ASSUME NEW limit \in Nat, NEW n \in 0..limit
    PROVE  Incr(n, limit) \in 0..limit
  BY DEF Incr

\* Every step of every Execute call, the clock and the repository preserve the
\* types.
LEMMA TypeStep == TypeOK /\ [Next]_vars => TypeOK'
<1> SUFFICES ASSUME TypeOK, [Next]_vars PROVE TypeOK'
  OBVIOUS
<1> USE DEF TypeOK
<1>1. CASE UNCHANGED vars
  BY <1>1 DEF vars
<1>2. CASE Tick \/ Backend
  BY <1>2 DEF Tick, Backend
<1>3. ASSUME NEW p \in Procs, Execute(p) PROVE TypeOK'
  <2> USE IdleType
  <2>1. CASE LoadState(p)
    BY <2>1 DEF LoadState, Call, PC, State
  <2>2. CASE CheckReset(p)
    BY <2>2 DEF CheckReset, GoTo, Return, Call, PC
  <2>3. CASE CasHalfOpen(p)
    BY <2>3 DEF CasHalfOpen, GoTo, Call, PC, State
  <2>4. CASE ZeroHalfOpen(p)
    BY <2>4 DEF ZeroHalfOpen, GoTo, Call, PC
  <2>5. CASE CheckProbe(p)
    BY <2>5 DEF CheckProbe, GoTo, Return, Call, PC
  <2>6. CASE Fn(p)
    BY <2>6 DEF Fn, GoTo, Call, PC
  <2>7. CASE AddFailure(p)
    <3> DEFINE b == failures' >= MaxFailures
    <3>1. failures' \in 0..MaxFailures
      BY <2>7, IncrType DEF AddFailure
    <3>2. b \in BOOLEAN
      OBVIOUS
    <3>3. call' = [call EXCEPT ![p].pc = "stamp", ![p].tripped = b]
      BY <2>7 DEF AddFailure
    <3> HIDE DEF b
    <3>4. call' \in [Procs -> Call]
      BY <3>2, <3>3 DEF Call, PC
    <3>5. QED
      BY <2>7, <3>1, <3>4 DEF AddFailure
  <2>8. CASE Stamp(p)
    BY <2>8 DEF Stamp, GoTo, Call, PC
  <2>9. CASE LoadFailed(p)
    BY <2>9 DEF LoadFailed, Return, Call, PC, State
  <2>10. CASE CasOpen(p)
    BY <2>10 DEF CasOpen, GoTo, Return, Call, PC, State
  <2>11. CASE ZeroOpen(p)
    BY <2>11 DEF ZeroOpen, Return
  <2>12. CASE LoadSucceeded(p)
    BY <2>12 DEF LoadSucceeded, GoTo, Call, PC
  <2>13. CASE AddSuccess(p)
    BY <2>13, IncrType DEF AddSuccess, GoTo, Return, Call, PC
  <2>14. CASE CasClosed(p)
    BY <2>14 DEF CasClosed, GoTo, Return, Call, PC, State
  <2>15. CASE ZeroFailures(p)
    BY <2>15 DEF ZeroFailures, GoTo, Call, PC
  <2>16. CASE ZeroClosed(p) \/ ResetFailures(p)
    BY <2>16 DEF ZeroClosed, ResetFailures, Return
  <2>17. QED
    BY <1>3, <2>1, <2>2, <2>3, <2>4, <2>5, <2>6, <2>7, <2>8, <2>9, <2>10, <2>11, <2>12,
       <2>13, <2>14, <2>15, <2>16 DEF Execute
<1>4. QED
  BY <1>1, <1>2, <1>3 DEF Next

\* The atomic words of the breaker and the local state of every call have their
\* types, the counters never beyond the thresholds they are compared with.
THEOREM TypeCorrect == Spec => []TypeOK
<1>1. Init => TypeOK
  BY IdleType DEF Init, TypeOK, State
<1>2. QED
  BY <1>1, TypeStep, PTL DEF Spec

\* A call that closes a half-open breaker is the only one that may go without
\* leaving another to do it, and it changes the state.
LEMMA NotStuckStep == TypeOK /\ HalfOpenNotStuck /\ [Next]_vars => HalfOpenNotStuck'
<1> SUFFICES ASSUME TypeOK, HalfOpenNotStuck, [Next]_vars,
                    state' = "halfopen", successCount' >= HalfOpenRequests
             PROVE  \E p \in Procs : call'[p].pc \in {"casClosed", "zeroHalfOpen"}
  BY DEF HalfOpenNotStuck
<1> DEFINE Closing(q) == call[q].pc \in {"casClosed", "zeroHalfOpen"}
<1>1. CASE UNCHANGED vars \/ Tick \/ Backend
  BY <1>1 DEF HalfOpenNotStuck, vars, Tick, Backend
<1>2. ASSUME NEW p \in Procs, Execute(p)
      PROVE  \E q \in Procs : call'[q].pc \in {"casClosed", "zeroHalfOpen"}
  <2>1. CASE CasHalfOpen(p) /\ state = "open"
    BY <2>1 DEF CasHalfOpen, GoTo, TypeOK, Call
  <2>2. CASE AddSuccess(p)
    <3>1. CASE successCount < HalfOpenRequests - 1
      BY <2>2, <3>1 DEF AddSuccess, Incr, TypeOK
    <3>2. CASE successCount >= HalfOpenRequests - 1
      <4>1. successCount' >= HalfOpenRequests
        BY <2>2, <3>2 DEF AddSuccess, Incr, TypeOK
      <4>2. QED
        BY <2>2, <4>1 DEF AddSuccess, GoTo, TypeOK, Call
    <3>3. QED
      BY <3>1, <3>2 DEF TypeOK
  <2>3. CASE ZeroHalfOpen(p) \/ ZeroOpen(p) \/ ZeroClosed(p)
    BY <2>3 DEF ZeroHalfOpen, ZeroOpen, ZeroClosed
  <2>4. CASE /\ state = "halfopen" /\ successCount' = successCount
             /\ call[p].pc \notin {"casClosed", "zeroHalfOpen"}
             /\ \A q \in Procs : q # p => call'[q].pc = call[q].pc
    <3>1. PICK q \in Procs : Closing(q)
      BY <2>4 DEF HalfOpenNotStuck
    <3>2. QED
      BY <3>1, <2>4
  <2>5. CASE LoadState(p) \/ CheckReset(p) \/ CheckProbe(p) \/ Fn(p) \/ AddFailure(p) \/ Stamp(p)
    BY <2>4, <2>5 DEF LoadState, CheckReset, CheckProbe, Fn, AddFailure, Stamp, GoTo, Return,
                      TypeOK, Call
  <2>6. CASE LoadFailed(p) \/ LoadSucceeded(p) \/ ZeroFailures(p) \/ ResetFailures(p)
    BY <2>4, <2>6 DEF LoadFailed, LoadSucceeded, ZeroFailures, ResetFailures, GoTo, Return,
                      TypeOK, Call
  <2>7. CASE CasHalfOpen(p) /\ state # "open"
    BY <2>4, <2>7 DEF CasHalfOpen, GoTo, TypeOK, Call
  <2>8. CASE CasOpen(p)
    BY <2>4, <2>8 DEF CasOpen, GoTo, Return, TypeOK, Call
  <2>9. CASE CasClosed(p)
    BY <2>9 DEF CasClosed
  <2>10. QED
    BY <1>2, <2>1, <2>2, <2>3, <2>5, <2>6, <2>7, <2>8, <2>9 DEF Execute
<1>3. QED
  BY <1>1, <1>2 DEF Next

\* However many calls interleave, a half-open breaker whose counter has reached
\* its limit, which lets no call through any more, has a call on its way to
\* close it or to zero the counter.
THEOREM NeverStuck == Spec => []HalfOpenNotStuck
<1>1. Init => HalfOpenNotStuck
  BY DEF Init, HalfOpenNotStuck
<1>2. QED
  BY <1>1, TypeCorrect, NotStuckStep, PTL DEF Spec
=============================================================================
